# Capybara AI in TLA+

TLA+ models of the parts of Capybara AI (`src/`, a TypeScript server over
PostgreSQL) whose correctness depends on the order of things: concurrent
requests, READ COMMITTED transactions, timeouts, crashes between two
statements. Each model is checked with TLC on a small instance, and the
safety properties have machine-checked proofs (TLAPS) that hold for every value
of the constants. `PROJECT.json` maps every definition to the source lines it stands
for and lists the runs, mutants, hazards, findings and theorems.

All paths below are relative to the repository; the implementation is in its
`src/`.

## The system

| Component | State | Operations | What makes it hard | What makes it correct |
|---|---|---|---|---|
| Security log (`audit/securityLog.ts`, `verifyChain.ts`) | table `security_events`, a hash chain | `appendSecurityEvent`, `verifyChain` | concurrent writers, failures under a lock, sequence gaps | one chain, visible in id order, verifiable |
| Anchoring (`audit/anchor.ts`, its CLI) | table `audit_anchors`, off-box files | `createAnchor`, `verifyAnchors` | no transaction: five steps that overlap writers and each other | no false alarm, no missed edit |
| Oversight and sandbox (`compliance/oversight.ts`, `ai/tools/sandbox.ts`, `approval.ts`) | `oversight_requests` with a forward-only trigger, an in-memory approval set | `check`, `decide`, `recordOutcome`, `executeTool` | approvals read in one transaction and used after it, handlers that outlive their timeout | nothing high-risk runs without its approval; decisions are final and logged |
| Documents (`documents/*.ts`, `admin/storageQuota.ts`, `http/routes/documents.ts`) | `documents`, `document_chunks`, encrypted files | upload, new version, soft delete, legal hold | file and row are two stores; quota is check-then-act | files match rows, bounded overshoot, sound version families |
| RAG chat (`http/routes/ragChat.ts`, `documents/search.ts`) | `document_access_log`, `messages` | query, persist turn | the turn is written long after authorisation | nothing of an erased user comes back |
| GDPR erasure (`documents/erasure.ts`) | all of the above | `eraseUser` | several snapshots in one transaction | complete up to what overlaps it |
| Keys (`admin/encryption.ts`, `lib/crypto.ts`) | `encryption_key_versions`, all ciphertext | `rotateKey`, active key | rotation beside writers and readers | every ciphertext stays readable |
| Lockout (`auth/abuseGuard.ts`) | `auth_lockouts` | `checkLockout`, `recordFailure`, `clearLockout` | unlocked read-modify-write | a lock holds; bursts are bounded |
| Second factor (`auth/mfa.ts`) | `users.mfa_*`, `mfa_backup_codes` | enrol, verify, log in with a code | a read, then unconditional writes | a code is spent once; only verified secrets are enabled |
| Accounts, sessions, SCIM, single sign-on (`auth/local.provider.ts`, `session.ts`, `admin/users.ts`, `admin/sso.ts`, `integrations/scim.ts`) | users, memberships, sessions, SCIM token, OIDC configuration | register, invite, provision, log in, deactivate, change role | requests that overlap between their statements and die between them | deactivation ends sessions; owners fall to owners |
| Data exports (`admin/export.ts`) | `export_jobs`, artifacts, in-memory tokens | create, run, hand out token, download | a background runner, restarts, overlapping downloads, two stores | fetchable while DONE; fetched twice only by overlapping downloads; decided in the end |
| Webhooks (`integrations/webhooks.ts`) | `webhook_configs`, `webhook_deliveries` | `emitEvent`, CRUD | retries, late answers, changes under way | the log accounts for what was received |
| Streamed answers (`http/aiStream.ts`, `ai/providers/*.ts`) | sockets and timers | pull, write, drain, abort | three parties that each may stop | the upstream connection is given up |
| Anomaly detection (`security/anomaly.ts`) | security log | count, check, append | overlapping passes | every burst raised, once per window unless passes overlap |
| Start-up (`config/*.ts`, `index.ts`) | environment, key sources | judge, refuse, freeze | failing sources, fallbacks, faults that hide others | sealed data stays readable; reports are complete |
| Migrations (`db/migrate.ts`, `db/sql`) | privileges of the database role | apply every file again | blanket GRANT before the REVOKEs, failures in between | append-only stays append-only |
| API keys, inventory, reports, metering, stream limiter | tables, an in-memory map | CRUD, lookup and stamp | hardly anything | isolation |
| RBAC, tenancy | static matrices, row-level security | `requirePermission`, `withTenantContext` | in PostgreSQL, not in the code | isolation |
| Embeddings, redaction, prompts, scopes, SSRF guard, health, UI | none | I/O, parsing, rendering | external protocols | out of a model checker's reach |

How they interact: everything that decides something calls
`appendSecurityEvent` (a transaction of its own) after its own transaction has
committed; every tenant-scoped operation runs in `withTenantContext`, one
transaction whose row-level security confines it to one organisation and one
clearance; the sandbox calls the gate and, later, records the outcome; erasure
deletes the account under everybody else's feet and relies on foreign keys.

## Modules

| Module | Role |
|---|---|
| `EventList` | abstract specification: a list that grows by one element at its end (the audit log; an organisation's keys) |
| `Approvals` | abstract specification: requests that are decided once, and work done under approved ones only |
| `SecurityLog` | writers, lock, sequence, commit, rollback; `verifyChain`; refines `EventList` |
| `SecurityLogProofs` | its invariant and theorems |
| `Anchoring` | EXTENDS `SecurityLog`: `createAnchor`, the sink, `verifyAnchors`, privileged edits |
| `AnchoringProofs` | its invariants and theorems |
| `Oversight` | gate, trigger, sandbox, humans, time; refines `Approvals` |
| `OversightUsers` | EXTENDS `Oversight`: whom the rows name, and the deletion of accounts |
| `OversightProofs` | invariants and theorems of both |
| `Documents` | upload, quota, versions, deletion, hold, chat, erasure |
| `DocumentsProofs` | its invariants and theorems |
| `Keys` | key versions, rotation page by page, writers and erasure of ciphertext; refines `EventList` |
| `KeysProofs` | its invariants and theorems |
| `Lockout` | failure counter and lock of one identifier |
| `Mfa`, `MfaProofs` | TOTP and backup codes of one user; its invariants and theorems |
| `Accounts` | accounts, sessions, roles, SCIM, single sign-on of one organisation |
| `Exports` | export jobs, token, download, restarts |
| `Webhooks` | emissions and their deliveries |
| `Streams` | handler, client and provider of streamed answers |
| `Anomalies` | overlapping passes of the detector |
| `Boot` | `loadConfig`, key sources, the process, the operator |
| `Migrations` | the migrator and what the role may do |
| `MCAccounts`, `MCServices` | several of these side by side, see below |
| `AccountsProofs` | theorems about `Lockout`, `Accounts` and the types of `Mfa`, as `MCAccounts` composes them |
| `ServicesProofs` | theorems about `Exports`, `Webhooks`, `Anomalies`, `Boot`, `Migrations` and the types of `Streams`, as `MCServices` composes them |
| `MC*` | instances for TLC, with a `.cfg` per run |

### SecurityLog

A writer is a call of `appendSecurityEvent`: `BeginAppend` (open the
transaction), `AcquireLock` (`pg_advisory_xact_lock`), `ReadTail`, `InsertRow`
(takes an id from the sequence; invisible to others), `CommitAppend` (visible,
lock released), or `AbortAppend` anywhere (lock released, id lost). A hash is
the sequence of contents it commits to, i.e. SHA-256 without collisions.
`verifyChain` is an operator over a set of rows, used by `ChainVerifies` and by
`Anchoring`.

Fairness: weak for the statements of an open transaction (the database
answers), strong for taking the lock (PostgreSQL queues lock waiters, so one
cannot be overtaken for ever). Nothing obliges anyone to start or to fail.

### Anchoring

`ReadHead`, `ReadCount`, `ReadLastAnchor`, `StoreAnchor`, `ShipAnchor` are the
steps of one `createAnchor`, each a statement on its own snapshot;
`AnchorFails` ends a run after any of them. `Damage` is not the program: it is
what the verifier exists to find (a row changed, deleted, or changed with all
hashes recomputed; a checkpoint edited without the key). A checkpoint removed
from the table is not an edit `verifyAnchors` could see from the tables, and is
left out; the off-box copy is for that. `eventCount` is read after the head
on another snapshot, so "number of events covered" (`0009_audit_anchors.sql:16`)
is what it is at least: `CountIncludesCovered` states both of its bounds.

History variables `seen` and `witnessed` remember which log a checkpoint was
taken of. `AnchoredLogIsGenuine` says that if both verifiers pass, then the log
up to each checkpoint is still that one.

### Oversight

One action per statement of `DbOversightGate.check` (two transactions),
`decide` (the update, then the security event in another transaction),
`recordOutcome`, and of `executeTool`. Layers that return at once without a
state change are guards of `Call`. `Timeout` leaves the handler running
(`lingering`), and `LateExecution` is that handler finishing its work.
`TriggerAllows` is the `oversight_forward_only` trigger. `TimePasses` is the
24-hour expiry. An invocation stands for a tool name with an argument hash.

Fairness: statements are answered, the timer of an in-process tool fires,
an event under way is appended. Humans need not decide and handlers need not
return. Isolation runners are exempt: nothing in `sandbox.ts` bounds them, so
`CallsEnd` treats "with the runner" as an end.

`Asked` is the refinement mapping to `Approvals`: a request waits while its row
is PENDING, and is closed when the row is REJECTED or EXPIRED; `effects` counts
what was done under it. A call whose approval expires or whose timeout fires
still finishes under a request that was approved, as rows never leave APPROVED.

### OversightUsers

Every step of `Oversight`, with what it writes of `requested_by` and
`decided_by`. The two columns are foreign keys with ON DELETE SET NULL, so an
INSERT or a decision needs the account (`Request`, `DecideAs`), a DELETE of the
account waits for transactions that are inserting a row naming it
(`Unreferenced`), and `EraseUser` clears the name in every row, unless the
trigger refuses one of these updates: then the whole erasure is rolled back. The
rest of what an erasure does is in `Documents`. Rows that are not PENDING
therefore keep their names, and their users their accounts, for ever. Fairness is
that of `Oversight`; an INSERT for an account that is gone is answered with an
error.

### Documents

`Requests` are HTTP requests in progress. An upload reads the quota and writes
its file (`StoreFile`: the file has a fresh name nobody else looks at, so the
quota read is the step that interleaves), inserts the row (`InsertDocument`,
which needs the account because of the foreign key, and locks it), and commits.
`UploadFails` and `CommitUnanswered` lead to the catch block, `RemoveFile`.
`BeginDelete`/`CommitDelete` are the read and the update of
`softDeleteDocument`; an erasure is `BeginErase` (select documents),
`Anonymize` (messages and access log) and `CommitErase` (waits for open uploads
of the target, deletes the account, publishes the rest). `RequestDies` ends any
request anywhere, rolling back.

Abstractions: of the access log and the chat only whom they name; of a text
only whether its chunks are stored; roles do not change; one organisation.
`late` is a history variable: the users whose transactions committed while or
after they were erased. `unclear` holds the uploads that died with a file, or
whose COMMIT was never answered.

### Keys

A ciphertext is the number of the key it is under; key 0 is the tenant key of
`deriveTenantKey`, the others are those `rotateKey` draws (numbered when the
request arrives). `key` is what a new transaction reads. A rotation is the
statements of the route: `EnsureReads` and `EnsureInserts` (`ensureKeyVersion`),
`ReadActive`, then per table `SelectBatch` (one page by OFFSET, on a snapshot
of its own over committed rows and the rotation's own updates) and
`ReencryptRow` (decrypt, or throw and roll back; the UPDATE waits for rows
other rotations hold and finds nothing if the row is erased), `Retire` (waits
for the version's row, then needs the next number free), `CommitRotation`,
`Announce`. Uploads and chats insert under the tenant key, as the code does; a
batch of several rows is several single steps, and so is an erasure. What a
rotation has updated is in its record (`mine`) until it commits. `had` and
`gone` are history: what was there when it began.

Rotations that overlap lock rows in one order, that of the ids, and so wait for
each other but never in a circle, as long as no row is written beside them:
`NoCircularWait`. A row that commits with a lower id than a page already read
shifts the pages by OFFSET, a rotation then meets rows again that it had passed,
and a circle becomes possible; with pages of one row TLC's instance contains
such circles. PostgreSQL breaks a circle by aborting one of its transactions,
which is what `RotationDies` does to any rotation at any time.

`KeyHistory`, the key of each version by its number, is the list of `EventList`:
each rotation that commits appends one key, and nothing replaces an earlier one.

### Lockout

`recordFailure` is `BeginFailure` (SELECT) and one of `FirstFailure` (INSERT,
refused by the primary key if another call was first), `KeepLock` and
`CountFailure` (UPDATE, finds nothing if the row was deleted); `clearLockout`
is what a success and `unlockUser` do. `counted`, `locked` and `stale` are
history. `OnlyOverlapsWeakenLockout` states what the code does guarantee: a
lock holds to its end, and an open account has seen at most two bursts that
each stop short of the limit within any window (the window starts with a
failure and does not slide, although `db/schema/p2.ts:28` calls it sliding), unless
a call wrote what it had computed from a row that was no longer there. The
very first failure never locks, even with `LOGIN_MAX_FAILURES=1`
(`abuseGuard.ts:86`).

### Mfa

Each function is a read (`BeginVerify`, `BeginTotp`, `BeginBackup`) and its
writes (`DeleteCodes`, `InsertCodes`, `Enable`; `AcceptTotp`; `AcceptBackup`).
A TOTP code is a secret and a time step; a backup set stands for one of its
codes. Codes that match nothing change nothing and are left out.
`CodesAreSpentOnce` exempts a secret whose marker was moved back, as an
overlapping login with an older code does, and as `verifyAndEnable` does
without any overlap; `EnabledSecretWasVerified` exempts a secret enrolled while
another was being verified.

### Accounts

A request is authorised when it begins and then takes its statements one by
one: `LookUp`, `InsertAccount` (UNIQUE e-mail), `Join` for the four ways an
account comes to be; `SetStatus` and `RevokeSessions` for deactivation by an
administrator or by SCIM; `ReadRole` and `WriteRole` for a role change, `WriteRole`
alone for a SCIM group. `createSession` does not look at the account again,
and neither does `validateSession`. `RequestDies` ends a request anywhere.
The callers are the administrators of the moment (`Admins`); what an identity
provider confirms is taken from it. No route calls the local login functions;
they are modelled as operations that callers overlap in any order. An invited
account whose request dies before `Join` stays without a membership.

### Exports, Webhooks, Streams

`Exports`: `MarkRunning`, `BuildArtifact`, `MarkDone`, `StashToken`,
`MarkFailed` are the runner; `Crash` is a restart of the process, which takes
runners, tokens and downloads with it. The first update and the one in the
catch block have no handler, so a failure there is a restart as well. A failed
job may leave part of its artifact behind. A download reads the row
(`BeginDownload`), then the artifact, removes it and marks the row, each in a
step of its own, any of which may be the last (`DownloadFails`).
`ExportsRepeatOnlyOverlaps` says less than the code's comments, "One-time
download tokens" (`export.ts:114`) and "then deletes it" (`export.ts:122`): two
downloads that both read the artifact before either removes it
(`export.ts:131-140`) both return it. What holds is that a download that begins
after the removal gets nothing, even while the row is still DONE. A download
that fails between the removal and its answer loses the export: the job stays
DONE and has no artifact; the property names that case (`interrupted`) instead
of calling the job fetchable. `ExportsEnd` asks for an end of every job nobody
interrupted.

`Webhooks`: one emission is `BeginEmission` (the webhooks are read once),
`Send` (it may arrive and still be answered too late), `LogAttempt` (refused by
the foreign key if the webhook is gone, which breaks off the rest of the
emission). With `WEBHOOK_MAX_RETRIES=0` nothing is sent and nothing logged.

`Streams`: handler, client and upstream connection of each request; `Write` may
fill the client's buffer, after which only `Drained` lets the handler go on.
`StreamsEnd` therefore exempts a handler whose client left while it waited for
'drain', in spite of the comment at `aiStream.ts:10-12`; what remains is that
the provider's timer gives the connection up.

Fairness: the event loop goes on with every runner and every emission that has
begun (each fetch is aborted after its timeout, each delay is finite, the
database answers); a provider's timer fires; a client that keeps a handler
waiting reads on or is given up by TCP. Nobody need ask for an export, emit an
event, or send a chunk.

### Anomalies

A pass counts kind by kind, each on its own snapshot (`CountKind`), then checks
and appends kind by kind (`CheckKind`, `RaiseKind`). `bursts` and `before` in its
record are history: what it must raise and what it must not. That appending is
atomic is `SecurityLog`'s subject. SCIM group changes write no audit entry
(`scim.ts:142-154`), so the role-change kind cannot see them.

### Boot

`issues` is `loadConfig` as one operator per block of it; `Start` refuses or
freezes `config`. Each setting has one value per judgement the code can pass on
it, and a key is named after the variable that holds it, so that a fallback is
visible as a different key: `Picked` is the variable a key is taken from, or
that reading it throws. The settings start with the keys in the environment, all
fetched by a command, or one of them in a file (`Deployed`); the inline variables
are left in place in all three, so that there is something to fall back to. `Edit`, `Fail` and `Repair` are the operator and the
key sources. `hidden` names the faults a report cannot name (a schema error
hides all others, `DB_ALLOW_INSECURE` is judged only beside a URL and waives
its TLS check, an unreadable source hides what it holds): `config.ts:105`,
"Aggregates ALL problems", holds up to these. A process that is not in
production invents keys it is not given; `SealedDataStaysReadable` is about
production.

### Migrations

A run is `EnsureRole` and then `ApplyFile` per file, one implicit transaction
each, in the order of `files`; `MigrationFails` may come between any two. Of the
schema only the withheld privileges are kept (`Withheld`). Because `0001` grants
everything on all tables that exist, every re-run of the migrator makes the
append-only tables rewritable until their file is applied again, and a run that
fails in between leaves them so: `0002_audit.sql:3-5`, "may SELECT/INSERT but
NOT UPDATE/DELETE", holds outside these stretches only, which is what
`RewritesOnlyDuringMigrations` says.

### MCAccounts and MCServices

The modules of authentication, and those of the services, share no variables.
To check them one by one would be nine small runs; these two modules put them
side by side (one EXTENDed, the others instantiated), and `module`, chosen in Init and never changed, says which of
them moves. A behaviour is one of a single module, the state spaces add, and
each property is that of the module it names (`JobsEnd` is the conjunction of
three liveness properties). Fairness of a module that does not move asks
nothing, as none of its fair actions is enabled in its initial state.

## Runs

Passing runs (bounds are constants used in guards):

| Run | Instance | Shows |
|---|---|---|
| `security_log` | 3 writers, 2 contents, 4 appends | `ChainVerifies`, `CommitsInIdOrder`, `AppendsEnd`, refinement of `EventList` |
| `anchoring` | 2 writers, 2 anchorers, 3 runs, 2 appends, 1 edit, sink on | `NoFalseAlarm`, `AnchoredLogIsGenuine`, `CheckpointsAreNumbered`, `ShippedIsStored`, `CountIncludesCovered` |
| `oversight` | 2 callers, 3 calls, 1 human, of 2 users one asks and one both asks and decides; either a high-risk, an isolated dangerous high-risk and a plain tool, or one tool and erasures | `OnlyApprovedRuns`, `AuditAccountsForDecisions`, `NoSilentRequest`, `DecidedRowsAreFrozen`, `DecisionsNameTheirHuman`, `RefusalIsForGood`, `CallsEnd`, refinement of `Approvals` |
| `documents` | member and owner, 2 concurrent requests, 4 in all, quota of two files, 1 unclear upload | `FilesMatchDocuments`, `QuotaOvershootIsBounded`, `VersionsFormChains`, `ErasureMissesOnlyOverlaps` |
| `keys` | 2 owners, 2 random keys, 3 chunks, 1 message, pages of 2 or of 1, 1 erasure | `OneActiveKey`, `EveryCiphertextHasAKey`, `AnnouncedRotationsHappened`, `NoCircularWait`, `RotationMissesOnlyShifted`, refinement of `EventList` |
| `accounts` | 2 requests at a time; lockout: limit 2, window 2, 5 failures, 6 ticks; codes: 2 secrets, 5 calls, 4 steps; accounts: 3 users, roles member and owner, 3 requests | `OnlyOverlapsWeakenLockout`, `CodesAreSpentOnce`, `EnabledSecretWasVerified`, `SessionsOutliveOnlyOverlaps`, `OwnersFallToOwners` |
| `services` | 2 jobs, 2 downloads; 2 webhooks, 1 emission, 3 attempts; 2 streams; 2 passes, 2 kinds; 2 edits, 2 starts; 2 migrators | `ExportsRepeatOnlyOverlaps`, `DeliveryLogAccounts`, `AnomaliesRepeatOnlyOverlaps`, `SealedDataStaysReadable`, `ReportsAreComplete`, `RewritesOnlyDuringMigrations`, `JobsEnd` |

Why these bounds: three writers give a holder, a waiter and a failing one, and
four appends a chain in which both a gap and a successor of a gap occur. Two
anchorers and three runs give an overlap and a later run that must recognise
its head. Three calls allow request, approved run, second run; three requests
leave a user named in a pending, a decided and an expired row. The variable
`scope` of `MCOversight` keeps erasures and the choice of tools apart, as no
step looks at both. Four document
requests allow three versions with a deletion in between, four uploads against
a quota of two, and an erasure beside an upload; two concurrent requests are
what each race needs. Three chunks in pages of two give a full and a short page
and a row that an erasure can shift across the boundary; pages of one row make
enough of them for a circle around rows written meanwhile (`pageSize` is chosen
once, in `MCKeys`). Owners are interchangeable, and `keys` checks no
liveness, so it uses symmetry. `CHECK_DEADLOCK FALSE` everywhere: the bounds let every
model run out of things to do.

Two requests at a time are what every race of `Lockout`, `Mfa` and `Accounts`
takes; five failures against a limit of two reach a second lock, which is
longer than the first; three requests let one be promoted while a second
demotes and a third logs in. Two downloads race for one artifact while the other
job runs or restarts; two webhooks show what the abortion of an emission costs
the next one; three attempts have a first, a middle and a last. Two edits put
two faults beside each other, and two starts are a refused and a repaired one, or
one that seals and one that reads. The settings start with the keys in the
environment or already in a source, so that one outage makes `readFails` true
between two starts and one edit is left to go with it. The passes of the detector
have a window of one tick and two ticks of time: no incident leaves a window in
the run, which the theorem covers. Two migrators overlap and fail.

Type invariants are theorems for every module (below); of the runs only `services`
evaluates one, for six modules at once.

Every property of a passing run has a mutant: an operator that changes one
definition as a plausible bug would and that the same run refutes.

Runs that refute a statement of the repository:

| Run | Statement | What happens |
|---|---|---|
| `single_use` | approvals are "single-use" (`docs/security/LLM_TOP_10_MAPPING.md:14`) | the outcome that consumes one is refused by the trigger |
| `erasure` | erasure "soft-deletes the user's documents, hard-deletes their chunks+embeddings" (`PRIVACY_AND_GDPR.md:57`) | an upload commits after the documents were selected |
| `legal_hold` | deletion is "Blocked when legal_hold is set" (`lifecycle.ts:67`) | the hold is set between read and update |
| `erasure_refused` | erasure "deletes the account" (`PRIVACY_AND_GDPR.md:60`, `erasure.ts:14-18`) | the user is named in an oversight request that is decided or expired: the trigger refuses the SET NULL, and the erasure is rolled back |
| `key_readers` | a rotation "keeps data readable" (`tests/admin/encryption.test.ts:38`) | `searchDocuments` decrypts with the tenant key, which opens no re-encrypted chunk; nothing but the tests calls `getActiveDek` |

## Proofs

Every safety invariant, action property and refinement of the passing runs is a
theorem about all values of the constants; the theorem of each is listed in
`PROJECT.json`. What follows is the idea of each
argument: which facts about requests under way make the property inductive.

`SecurityLogProofs` (any set of writers, any non-empty set of contents, any
number of appends, `Nobody` not a writer): type correctness, `ChainVerifies`,
`CommitsInIdOrder`, and that the log implements `EventList`. The chain alone is
not inductive: a writer about to commit must hold the lock (`LockOwner`), have
read the tail that is still the tail (`LinkIsTail`) and hold an id above every
committed one (`InsertIsNewest`, `IdsAllocated`); and the table must have a
newest row and unique ids for the tail to be well defined.

`AnchoringProofs` (any writers, overlapping runs and number of edits): type
correctness, `NoFalseAlarm`, `AnchoredLogIsGenuine`, `CheckpointsAreNumbered`,
`ShippedIsStored`, `CountIncludesCovered`. `AnchorInv` survives any edit: a log some run saw has every
id the table still has below that log's newest row (`TablesAreViews`), a
checkpoint under way commits to the newest row it saw (`DraftsAreHeads`), what
was witnessed is still signed (`WitnessesAreSigned`), and sequence numbers are
1, 2, ... (`Numbering`). `PristineInv` is about the time before the first edit:
each checkpoint names a row that is there (`AnchorsHold`, `DraftsHold`) and none
repeats the hash of its predecessor (`NoRepeats`), hence no false alarm; and what a
run saw is part of the table, so a count read later includes it (`CountsInv`).
`EditsAreDetected` rests on a fact about chains alone, `SameChain`: two sound
chains that end in the same row, by id and hash, are one chain if one has the
ids of the other.

`OversightProofs` (any callers, deciders, invocations and bounds with at most
as many calls as requests): type correctness, `OnlyApprovedRuns`,
`AuditAccountsForDecisions`, `NoSilentRequest`, `DecidedRowsAreFrozen`, and
`OutcomesAreRefused`: recording an outcome never changes the table, the general
form of the `single_use` finding. The strengthening: ids are unique, an insert
under way has a fresh id (`InsertsAreFresh`) and was announced
(`AnnouncedBeforeCommit`), only high-risk tools pass the gate, and tools that
need no request run under none. From this follows the refinement of `Approvals`
(`OversightKeepsItsPromise`), by kinds of steps: those that leave rows and
effects alone stutter, an expiry closes a set of requests, a decision moves one,
and an execution under a request finds its row APPROVED, because the call read
it so and no row leaves APPROVED.

Of `OversightUsers` the same module proves type correctness,
`DecisionsNameTheirHuman` and `RefusalIsForGood`. `AccountsLeaveOversightAlone`
shows that it implements `Oversight`, whose invariants are then its own. `UsersInv` adds that
every name is that of an account (`NamesExist`), for which whoever is inserting
a row must keep theirs until the COMMIT (`InsertersExist`), and that every
decision has its human (`DecidersExist`).

`DocumentsProofs` (any users and ranks, any finite number of concurrent
requests, any bounds): type correctness, `FilesMatchDocuments`,
`VersionsFormChains`, `ErasureMissesOnlyOverlaps`, `QuotaOvershootIsBounded`.
`FileInv`: an id, and so a
file, belongs to one request and to no document before its COMMIT
(`IdsAreFresh`), and the catch block removes the file of no document unless the
COMMIT's answer was lost (`CleanupIsClean`). `FamilyInv`: the version that an upload
under way is to follow is still there (`PendingVersions`), because documents are
only ever soft-deleted. `ErasureInv` says what an erasure under way has already
seen to, for each user who wrote nothing beside it (`Seen`): what is not buried
is selected, what was cleaned stays clean, and of several erasures of one user
only one has anything to put back if it dies. `QuotaInv`: if any upload is past
the check, then the one checked last found room for itself beside all
documents there are now, and each of the others adds at most one largest file to
that; uploads that commit move from one side of the sum to the other, and the
other actions only shrink it. What a sum over a set is (`SumOfElement`,
`SumOfAdded`, `SumOfPart`) is proved from the recursive function it is defined
by: sums of each number of elements exist because there is no least number for
which they do not.

`KeysProofs` (any owners, finite sets of rows, number of keys and page size):
type correctness, the refinement of `EventList`, `OneActiveKey`, `EveryCiphertextHasAKey`,
`AnnouncedRotationsHappened`, `NoCircularWait`, `RotationMissesOnlyShifted`.
One active key is not inductive: a commit retires the version it started from,
so that version must still be the active one. `VersionsAreNumbered` (a retired
version has a successor) makes the version whose successor's number is free the
active one, and `CommitsAreExclusive` keeps that number free until the commit:
the row lock and the UNIQUE constraint together. `LockInv` says that a rotation
beside which nothing was written has locked only rows that come before those it
still waits for (`GoesForward`); in a circle the row that comes last would then
have one after it. `SkipInv` says that the rows a rotation has gone past without
updating them are at most as many as were erased meanwhile (`FewSkipped`): an
erasure moves one row of a table across the offset, and a full page leaves none
behind. Both need that positions in a table are distinct and without gaps
(`PositionsDiffer`, `PositionsAreTaken`), which is counting, not induction.
`KeysAreAppendOnly` is the refinement of `EventList`: version numbers have no
gaps (`VersionsFill`), so the history has a key at every place, and a commit
adds the place after the last.

`MfaProofs` (any calls, secrets and natural bound on time):
`EnabledSecretWasVerified` and `CodesAreSpentOnce`. The first needs to know that
a verification under way is of the secret in force, or that one was recorded
as set meanwhile (`VerifiesCurrent`). The second needs that an unused backup code
has let nobody in (`UnusedIsFresh`), that every accepted code of the secret in
force is behind the replay marker unless that was moved back (`Accepted`), and
the same of the codes that logins under way hold (`CodesUnderWay`).

`AccountsProofs` (of `MCAccounts`; any users, calls, policies and bounds): type
correctness of all three modules, `OnlyOverlapsWeakenLockout`,
`SessionsOutliveOnlyOverlaps`, `OwnersFallToOwners`. `LockoutInv` divides the
failures since the last lock into the burst the row counts and those that began
and ended before it (`Bursts`); a call that read the row before it restarted is
then harmless, or recorded as stale. Types alone need that the number of locks
and the calls under way never exceed the calls begun (`LocksAreCounted`), or
the doubling of lock times would leave its bound. `AccountsInv`: a session not
recorded as late has an account (`SessionsHaveAccounts`), and a role change
that got past `ReadRole` was entitled to what it then saw
(`ChangesAreEntitled`).

`ServicesProofs` (of `MCServices`; any jobs, downloads, webhooks, events,
streams, passes, migrators and bounds): type correctness of all six modules and
the safety properties of five.

- `ExportsStayFetchable`: a token is kept only when its runner is done, a runner
  that is to mark its job DONE or has done so leaves the artifact there, a
  download needs a token, and an artifact that was removed is gone for good
  (`ExportsFlow`).
- `LogAccounts`: an emission works on one chosen webhook whose log holds
  exactly the failed attempts so far (`OnHook`); those still to come are
  untouched and those before it settled; the log lags behind the receiver by
  one attempt at most (`Lag`).
- `AnomaliesAreRaised`: counts only grow, so a burst counted once stays one, and
  each is still to be counted, found, or raised (`PassFlow`).
- `SealedStaysReadable`, `ReportsSuffice`: a production process holds only keys
  it has read (`BootInv`), and repairing what a report names, unless it hides
  something, leaves nothing to object to (`RepairIsComplete`).
- `RewritesAreConfined`: what a migration has still to take back (`RemainingOf`)
  is the privileges of the files from its place on; a file adds none but the
  blanket GRANT, and after it all the others are to come.

Assumptions: each module names what it assumes of its constants
(`NobodyAssumption`, `ContentsAssumption`, `MaxAppendsAssumption`,
`AnchoringAssumption`, `OversightAssumption`, `UsersAssumption`, `DocumentsAssumption`,
`KeysAssumption`, `AccountsAssumption`, `ServicesAssumption`), and TLC evaluates
each of them in the runs. They say that the sets that are counted are
finite, that bounds and limits are natural numbers, as `config/env.schema.ts`
demands of the settings among them, that uploads have a largest size
(`documents.ts:40`, MAX_UPLOAD_SIZE_MB), and that the named users exist;
`AccountsAssumption` adds that a natural number times a power of two is one,
because the prover knows nothing of powers. Those of `MfaProofs` stand in its
theorems.

Only model-checked: the liveness properties `AppendsEnd`, `CallsEnd` and
`JobsEnd`, as the prover does not reason about ENABLED and so not about
fairness; `ListSpec` and `ApprovalsSpec`, which are proved, state none. The runs that refute a statement of the repository are
TLC's by nature.

## Not modelled

- Cryptography (idealised), text extraction, embeddings, retrieval and ranking,
  redaction, prompts, rendering, health, the admin UI: no state that anybody
  else changes.
- API keys: one lookup, then a stamp and an audit entry whose failures are
  swallowed (`apiKeyAuth.ts:24` says "Every API-key request is audited").
- The stream limiter (`StreamConcurrencyLimiter`): no route uses it. The rate
  limits are the plugin's.
- SSO protocols (OIDC, SAML): their libraries' work; what a confirmed login does
  to accounts is in `Accounts`.
- Inventory and reports: CRUD on one table and formatting; the one race
  (`ensureInventoryEntry`) is resolved by a unique index. Metering: one INSERT.
- Capability scopes and the SSRF guard: checks of strings and addresses, which
  example-based tests suit better.
- Row-level security beyond clearance: PostgreSQL enforces it.
