# Formal model of the GLIP backend

The backend (`src/src/glip`, FastAPI over SQLAlchemy and PostgreSQL, with a few
worker scripts) keeps architecture projects for tenants: it drafts client
messages through an external service (ORKIO), has people edit and approve them,
and extracts scenes from uploaded models. Its hard part is not any one handler
but their overlap: request threads of several replicas, and workers, share one
database in READ COMMITTED, mostly without row locks, and the code relies on
unique constraints, conditional updates and leases to stay correct. This
directory models those protocols in TLA+, checks them with TLC and proves what
matters most with TLAPS.

## 1. Inventory

| Component | State | Operations | Hard behaviour | What makes it correct |
|---|---|---|---|---|
| **Draft-message capability, integration idempotency** (`services.py`, `integration_idempotency.py`) | `integration_executions` row per key (status, digest, owner token, lease), draft, versions, cognitive execution | `create_draft`: find or insert the row, acquire or take over the lease, call ORKIO, finalize or fail by compare-and-set; replays | duplicates in flight, lost answers, lease expiry during the call, stale owners, crashes | one stable answer per key; completion is atomic; one live caller; a settled row is final; open executions settle |
| **Draft approval, memory** (`services.py`, `routes.py`) | draft, versions, approval requests, decisions, approved versions, memory candidates, facts | edit, request, approve, reject, promote | every handler is read-decide-write with no lock | versions and facts numbered without gaps, one approval per version, memory only from promoted approvals, a candidate promoted twice only by promotions that overlap |
| **Project lifecycle, context** (`routes.py`, `context.py`) | project rows, idempotency rows, `context_version` | create, update, archive, restore; writers of stages, tasks, milestones, schedules, budgets, knowledge | duplicated creations, lost updates, archive checked before the write | one project per key, no orphan, unique codes, `context_version` never ahead of the changes |
| **Native auth** (`native_auth.py`, `auth.py`) | credentials (failed attempts, lock), sessions (absolute and idle expiry, revocation) | login, authenticate, touch, logout, revoke all, password reset | parallel failures, lock expiry, login racing revocation | lock after N failures, no session outlives its bounds or its revocation |
| **Invitations** (`admin_routes.py`, `invitation_routes.py`) | invitations, hourly bucket | create, reissue, revoke, accept | advisory lock, quota, accept racing revoke | at most ten per hour, accepted once, a revoked token opens nothing |
| **Extraction jobs** (`bim`, `cad`, `geometry` services, `scripts/process_*_jobs.py`) | job rows with lease and attempts, scenes, assets of builds | enqueue, claim (SKIP LOCKED), process, complete, fail | lease expiry, a slow worker beside the one that took over, two writers of a scene version, enqueue race, a failed flush | no job is stranded, a completed job has its output, versions without gaps, a settled job stays settled, at most one output per claim, queued jobs settle |
| **Visual AI edits** (`visual_ai_routes.py`, `visual_ai_worker.py`) | images (rows and blobs), edit jobs, usage events, reviews | upload, request an edit (quota), claim, call the provider, store the study, fail, review | workers that die or claim beside each other while every call costs money, a commit whose answer is lost, two reviewers | an edit is paid for at most once, a completed job has one study and one usage event, the quota holds, a verdict is final |
| **ORKIO client** (`integrations/orkio`, the lease bound of `config.py`) | `_failures`, `_opened_at`, shared by the threads of a process | `draft`: attempts, pauses, circuit breaker | a timeout per phase and growing pauses against the lease, late answers of calls in flight when the breaker opened | how far a call outlives its lease is bounded, an open breaker admits nobody and does not stay shut |
| **Blob storage, artifacts** (`artifacts/*`, `artifact_routes.py`, `architecture.py`) | blobs and temporary files, asset and source rows | put, get, delete; render a document, upload a source | blob and row are two stores; the process may die between any two steps; two uploads of one content | no row without its blob, no half-written file is read, one content is one source |
| **Chat, attachments** (`chat_*.py`) | thread, attachments (rows and blobs), messages | create, upload, send, answer, delete | a limit counted before the insertion, sends and deletions that overlap | a listed file has its bytes, the excess over the limit is bounded, a link names the last message |
| **Pricing** (`pricing/*`) | snapshots, mappings, estimates, ledger | submit and approve prices, propose and approve mappings, estimate construction and fee, enter costs | approvals beside estimates, four roundings, archive under a writer | totals rest on approved rows only and can be computed again, each estimate has one event of its own in the ledger |
| **Semantic engines, renderers** | none | parse, render | none | functional correctness of libraries: out of scope |
| **App, configuration, scripts** | settings | start, probe, bootstrap | none | none of its own |

Interactions. `routes.py` calls `services.py`, which calls the ORKIO client
inside the protocol of `integration_idempotency.py`; every write under a project
goes through `mutable_project_or_409` (`context.py`) and most raise
`project.context_version`, which the digest of a draft request includes; the
draft that `create_draft` stores is what edits and approvals work on; approval
leaves a memory candidate, promotion a fact, and facts flow into the next
snapshot `build_context` composes.

## 2. The modules

| Module | Stands for | Theorems in |
|---|---|---|
| `DraftOutcome` | what the draft-message capability promises for one key: decided at most once, and every answer is the decision | |
| `IntegrationExecution` | the code of the capability; implements `DraftOutcome` | `IntegrationProofs` |
| `DraftApproval` | edit, request, decide, promote on one draft | `DraftApprovalProofs` |
| `ProjectLifecycle` | creation, update, archive, restore, writers | `ProjectProofs` |
| `ExtractionJobs` | the job queues of IFC, DXF and preview models, their workers, the scenes people draw | `ExtractionJobsProofs` |
| `NativeAuth` | one account: login and lockout, sessions, password reset | `NativeAuthProofs` |
| `Invitations` | a tenant's invitations: issue, reissue, revoke, accept, and the accounts they make | `InvitationsProofs` |
| `VisualEdits` | a tenant's images, edits and reviews, and the workers that pay for an edit | `VisualEditsProofs` |
| `OrkioClient` | the calls of ORKIO in one process, against a clock, and their circuit breaker | `IntegrationProofs` |
| `ChatThreads` | one conversation, its files and its messages | `FileProofs` |
| `StoredFiles` | rendered documents and uploaded sources in a local or S3 store | `FileProofs` |
| `Pricing` | prices, mappings, estimates and ledger of one project | `ProjectProofs` |
| `MC*` | the instances for TLC, with their symmetry; the `.cfg` files give the constants | |

A module of proofs may extend two components that have something in common (rows
with bytes beside them, the draft capability and its client, what handlers write
from stale reads). So that it can, `OrkioClient`, `StoredFiles` and `Pricing` name
their specifications `CallSpec`, `FilesSpec` and `PricingSpec`, and `CallInit`,
`FilesNext`, `PricingTypeOK` and so on after them.

All modules share one reading of the code. A **handler** is a process; a
SELECT whose result a later decision rests on is a step that stores what it saw
(`pc`, `digest`, `token` or the record `txn[t]`), and a flush with the COMMIT
behind it is one atomic step, guarded by the conditional UPDATE or the unique
constraint that PostgreSQL evaluates at that moment. The session writes only the
columns that differ from what it loaded, by primary key: a column written from a
stale read is written stale, and one that did not change is not written
(`StatusAfter`). An `IntegrityError` is an action of its own. A thread may die
at any step and loses what it has not committed.

### IntegrationExecution

`ledger` is the `integration_executions` row; `draft`, `versions`, `cognitive`
the rows beside it; `project` what the capability reads of the project. A
thread's `pc` goes `idle -> lookup -> create -> lease -> reload -> mark ->
calling -> finishing | failing -> idle`:

| Actions | Code |
|---|---|
| `Receive`, `RefuseArchived` | `cap_draft`, `mutable_project_or_409`, digest of the request (`services.py:80`) |
| `LookupMisses`, `KeyReused`, `RowCompleted`, `RowFailed`, `RowOpen` | `find_execution` and the branches on the row (`services.py:92-121`), also after a lost insertion |
| `Create` | `commit_new_or_recover_winner` |
| `AcquireLease`, `LeaseReplay`, `LeaseRefused`, `LeaseConfirmed`, `LostReplay`, `LostLease` | `acquire_execution_lease`, and the row read back (`services.py:207-225`) |
| `MarkCalling` | the commit of `status = "calling"` (`services.py:225-229`) |
| `OrkioSucceeds`, `OrkioFails` | the answer of the ORKIO client: either, at any time |
| `Complete`, `CompletionRefused` | version, draft, compare-and-set, one commit (`services.py:250-305`) |
| `RecordFailure`, `FailureRefused` | `fail_execution_if_owner` |
| `Crash`, `LeaseLapses`, `HumanEdit`, `ContextMoves` | environment: the thread dies, time passes, `add_version`, another writer of the project |

A digest is the pair of what can differ between requests with one key, an owner
token the number of its acquisition, a lease `live` or `lapsed`.
`SkewedClocks` lets the application's clock, which decides takeovers, disagree
with the database's, which decides completion.

### DraftApproval

One draft after `create_draft`. `txn[t]` is what a thread does and has read; its
reads (`EditReads`, `EditScans`, `RequestReads`, `DecideReads`, `DecideFinds`,
`PromoteReads`, `PromoteCounts`) and its commits (`EditCommits`,
`RequestCommits`, `ApproveCommits`, `RejectCommits`, `PromoteCommits`) are steps
apart. The constraints are `uq_draft_version`, `uq_approved_draft_version` and
`uq_project_memory_fact_version`. A promotion looks at `Pending` when it begins
and not when it commits, so that overlapping promotions of one candidate each
leave a fact; `PromotionsOverlap` says that no others do.

### ProjectLifecycle

The projects of one tenant. `Insert` is the one transaction of `create_project`;
a conflict leads to the second look (`recover`), as in the code. `Write` stands
for every handler that adds a row under a project and raises `context_version`;
they are alike in the protocol (read through `mutable_project_or_409`, write
`context_version + 1`). The lines it is mapped to are those of `create_task`
(the read: `create_asset`), one of them.

### ExtractionJobs

The three queues of one source (`kind`) have one protocol and one module: `jobs`
are the rows, in order of `created_at`; `outputs` the scenes (numbered by
version) or the assets of builds (numbered by blob), each with the job that made
it; `blobs` what the builds stored.

| Actions | Code |
|---|---|
| `EnqueueReads`, `Enqueue` | `enqueue_bim_extraction` and its like: an active or completed job answers the request, otherwise a row is inserted, which no constraint guards |
| `DrawReads`, `Draw`, `HandlerAborts` | `create_architecture_scene`: latest version, insertion under `uq_arch_scene_source_version`, the uncaught conflict |
| `Claim` | `claim_next_*_job`: the oldest row that is queued or whose lease lapsed, FOR UPDATE SKIP LOCKED, one commit |
| `Open` | `work_db.get` in the second session of `scripts/process_*_jobs.py` |
| `ProduceScene`, `ProduceModel` | the engine, then the version read by `_persist_scene`, or the blob stored by the build |
| `CompleteScene`, `CompleteModel` | output, job, source and usage event in one commit |
| `RefusedIFC`, `RefusedDXF` | the flush of the scene conflicts: the session then refuses the write of the failure too (`PendingRollbackError`), the IFC loop goes on, the DXF loop ends |
| `Fail` | the handlers that set `failed` once the engine has begun; the exits before (no such source, another format), which keep the lease, are left out: jobs are inserted only for what was just read, and nothing deletes it |
| `Die`, `Restart`, `LeaseLapses` | environment: the process dies and is started again, time passes |

A worker is `idle -> claimed -> working -> produced -> idle`, or `down`. It holds
the row as it read it (`seen`); `Written` is what SQLAlchemy's unit of work
sends, the columns that differ from `seen`, over whatever the row is by then.
No write is guarded by the lease, so a worker that outlived it still commits;
`late` (a history variable) marks it. Database errors other than the conflict
leave the rows as `Die` does.

### NativeAuth

One row of `native_credentials` and its sessions. A thread is a login, a
request, a logout or a run of the reset script; `txn[t]` holds what it read.

| Actions | Code |
|---|---|
| `LoginLocks` | `credential_for_login_statement`: FOR UPDATE with `populate_existing`, held until the commit |
| `LoginLockedOut`, `LoginRejected`, `LoginSucceeds` | the outcomes of `authenticate_native`, each one commit |
| `RequestReads`, `RequestExpired`, `RequestDisowned`, `RequestServed`, `RequestTouches` | `authenticate_session`: the session that is not revoked, then a write of `revoked_at`, of nothing, or of the idle expiry |
| `LogoutReads`, `LogoutCommits` | `revoke_session` |
| `ResetReads`, `ResetWrites`, `ResetLists`, `ResetCommits` | `scripts/reset_native_password.py`: read without a lock, `db.flush` (from here the row is locked), list the sessions, one commit |
| `Dies`, `LockLapses`, `IdleLapses`, `Expires`, `Deactivated` | environment: a thread dies, time passes, someone clears `active` in the database (no code does) |

Threads that only read take no lock and write columns by primary key: a
revocation is written whatever the row is by then, and a touch does not write
`revoked_at`. The reset writes `failed_attempts` only if it was not 0 when read
and never `locked_until`, so a locked account stays locked through a reset.

### Invitations

One row of `user_invitations`, and at most one credential, per address of a
tenant. `CreateBegins` takes the time before the wait for the advisory lock;
`CreateLocks`, `CreateReads`, `CreateCommits` hold it, the last two with the row
lock; `AcceptLocks` and `RevokeLocks` take the row lock alone. `AcceptChecks` is
the look for an account, before the password is hashed, and `AcceptConflicts`
the `IntegrityError` when the account came into being meanwhile. `Bootstrap` is
`scripts/bootstrap_membership.py`, which takes none of the locks. An account
here is the credential `NativeAuth` starts from.

### VisualEdits

`image` and `blob` are the two stores of an image, `job` and `usage` the rows of
edits, `reviews` the audit events. A request thread is in `txn`, a worker in
`step`; `calls` (history) counts what the provider was paid for.

| Actions | Code |
|---|---|
| `UploadStores`, `UploadCommits`, `UploadFails`, `UploadUnanswered` | `upload_image`: put, then row; the handler deletes the blob on any exception, the one after an applied commit too |
| `EditBegins`, `EditAdmitted`, `EditRefused`, `EditCommits` | `request_edit`: the tenant's row is locked from the count to the commit |
| `DecisionBegins`, `DecisionLocks`, `Decides`, `DecisionRefused` | `decide`: what was read before the lock is read again with it |
| `ClaimLocks`, `ClaimCommits` | `claim_visual_job`: FOR UPDATE SKIP LOCKED without LIMIT, which locks every queued row, and the status |
| `Opens`, `OpeningFails`, `CallsProvider`, `CallFails`, `StoresStudy`, `Completes`, `CompletionFails`, `CompletionUnanswered` | `process_visual_job` |
| `MarksFailed` | the handler in `process_visual_ai_jobs.py`, which fails only a job that is still in processing |
| `DayPasses`, `RequestDies`, `WorkerDies` | environment |

### OrkioClient

Time is counted in ticks. A call has spent some and has some left, of the phase
it is in or of its pause; `Tick` cannot pass the end of either. httpx applies the
timeout to each phase (the connection, each piece sent or received) and not to
the request: `Progresses` ends a phase and begins the timeout anew, as often as
`MaxPieces` allows, and `pieces` (history) counts how often. `failures` is `_failures`,
and `cooling` what is left of the cool-down since `_opened_at`. `Completed`,
`Rejected`, `Terminal`, `Transient` and `GivesUp` are the outcomes of an attempt,
sorted by `FailureClass` and `ReplyClass` (`retry_policy.py`, `contracts.py`);
`CircuitPasses` and `CircuitRefuses` are `_circuit_before_call`. The sleep of
`draft` is `Transient` to `Wakes`. `MinimumLease` is what `config.py:176-190`
asks of `orkio_execution_lease_seconds`, `Uncounted` what it leaves out.

### ChatThreads

`file` holds the rows of attachments with their `linked_message_id`, `blob` their
bytes, `message` what each user message carried. Sends, uploads and deletions
read (`SendBegins`, `UploadBegins`, `DeleteBegins`) and commit later
(`SendCommits`, `UploadCommits`, `DeleteCommits`), without a lock; an UPDATE of a
row that is gone is `SendStale`. The reply of the model (`Answers`, `ReplyFails`)
is a second transaction.

### StoredFiles

`name` and `temp` are what the storage holds under a key and under the same with
`.uploading`; `PutOpens`, `PutReplaces`, `PutFails` are the local backend's
steps, `PutObject` and `PutObjectFails` those of S3. `ReadsBack` and `Flushes`
are `persist_artifact` or the row of a source; `Commits`, `CommitFails`,
`CommitUnanswered` and `FailsEarly` the ends of the handlers, told apart by what
they delete. `keysLost` (history) keeps the rows whose commit was applied and answered
as failed.

### Pricing

`snapshot`, `mapping`, `estimate` and `ledger` are sequences of rows. A request
on the project first passes `mutable_project_or_409` (`Begins`); `Prices` is
`estimate_construction` up to its rows, `CommitsEstimate` and `CommitsFee` the
commits. Money is in cents, quantities in the last decimal place their column
keeps, shares in parts of `Whole`, and `Rounded` is ROUND_HALF_UP.
`add_realized_cost` takes the kind and the source of an event from the body and
checks them only of costs that were paid: `EntersCost` may therefore name any
estimate, with any amount, and `entered` (history) tells the events entered by
hand from those the estimates left. `late` (history) are the threads that were
past the check when the project was archived.

## 3. Runs

| Run | Instance | Shows |
|---|---|---|
| `integration_execution` | 2 threads, 2 bodies, 3 acquisitions, a context that moves, 2 versions, fairness | `OneStableAnswer`, `CompletedIffVersion`, `VersionsMatchCurrent`, `OneLiveCaller`, that every behaviour is one of `DraftOutcome`, `OpenSettles` |
| `integration_stale_owner` | violated | a stale owner moves a completed draft back to `calling` |
| `draft_approval` | 2 threads, 3 versions, 2 requests, 2 fact keys | `OneApprovalPerVersion`, `PromotionsOverlap` |
| `project_lifecycle` | 2 threads, 2 keys, 1 code, 2 projects, 3 changes each | `OneProjectPerKey`, `NoOrphanProject`, `CodesUnique` |
| `extraction_jobs` | 2 workers, 2 request threads, 2 jobs, 2 claims each, 1 drawn scene, fairness | `CompletedHasOutput`, `OneTimelyWorker`, `ScenesNumbered`, `SettledStays`, `JobsSettle` |
| `native_auth` | 3 threads, lockout after 2 failures, 2 logins, 1 reset | `FailuresCounted`, `NoLoginWhileLocked`, `ResetClosesSessions`, `RevocationIsFinal` |
| `invitations` | 2 threads, 2 addresses, quota 2, 2 invitations per address, 2 hours | `QuotaKept`, `AcceptedHasAccount`, `OnlyPendingIsAccepted` |
| `visual_edits` | 2 threads, 2 workers, a quota of 1, 3 images, 2 edits | `PaidOnce`, `StudiesAccounted`, `QuotaKept`, `VerdictIsFinal` |
| `orkio_client` | 2 callers, 3 attempts, half-second ticks, 2 pieces, threshold 2, the least lease, fairness | `OverrunBounded`, `OpenAdmitsNone`, `CircuitRecovers` |
| `chat_threads` | 2 threads, a limit of 1, 3 files, 2 messages | `FilesBacked`, `UploadsBounded`, `LinkNamesLast` |
| `stored_files` | 3 threads, 2 contents, 4 keys, either backend | `RowsBacked`, `NeverHalf`, `OneSourcePerContent` |
| `pricing` | 2 threads, a quote and an official source, 1 snapshot, 2 mappings, 1 estimate, 2 events | `PricesApproved`, `Reconstructible`, `LedgerBacked`, `LateWritersOnly` |

Each property of a passing run has a mutant: a plausible slip in one mapped
definition (a dropped ownership predicate, a digest without the body, a missing
constraint, a version committed before the compare-and-set) with which TLC finds
that property violated. The mutants stand beside the definitions they replace.

**Bounds.** In `IntegrationExecution` two threads and three acquisitions allow an
owner and the thread that takes over, replays or finds the key reused while the
first is still running; the code compares only "mine or not", and the theorems of
section 4 hold for any number. Two bodies are the same and another; two contexts
are current and moved. In `DraftApproval` two threads are enough for every pair of overlapping
transactions, and the constraints the code relies on are pairwise; three versions
let an edit follow an edit under a decision on the first; two requests are two
people asking at once. In `ProjectLifecycle` two threads, two keys and one code
make a conflict on the key, one on the code, and both at once; three changes let
a stale writer move `context_version` back after another two committed.
In `ExtractionJobs` two workers are the one that outlives its lease and the one
that takes over; two jobs are what the enqueue race leaves for one source; one
scene a person draws is enough to take the version a worker read, and the other
job's scene does the same. In `NativeAuth` three threads are two that fight for
the row lock and one that writes a session meanwhile, or three parallel failures
against a threshold of two; two logins put a session before and one beside the
reset. In `Invitations` two threads are the overlapping pair, two addresses
share the bucket, a quota of two is met by an issue and a reissue, and two hours
let a request wait past the end of the hour it counts in.
In `VisualEdits` two request threads meet at the tenant's and the image's lock,
and two workers at the claim. In `OrkioClient` two calls are one that opens the
breaker and one in flight at that moment; three attempts are the most Settings
accepts; the backoff is two ticks more than the margin of the start-up check pays
for, so that `Uncounted` is not 0, the lease is the least accepted, and a request
gets on twice: the bound is met exactly. In `ChatThreads` a limit
of one is passed by two uploads that overlap, two messages carry one file, and a
third file shows the limit hold afterwards. In `StoredFiles` three
threads upload one content at once, or two contents and a document. In `Pricing` quantities are
odd halves and shares odd tenths, so that each rounding meets a half; one
snapshot serves two mappings, one of which may be approved and the other not.
An estimate names at most two mappings (`MaxLines`), the fewest that are summed;
the theorems hold for any number.
`MaxAttempts`, `MaxJobs`, `MaxScenes`,
`MaxContext`, `MaxVersion`, `MaxRequests`, `MaxProjects`, `MaxChanges`,
`MaxSessions`, `MaxPasswords`, `MaxTokens`, `MaxHours`, `MaxImages`, `MaxFiles`,
`MaxMessages`, `MaxKeys`, `MaxSnapshots`, `MaxMappings`, `MaxLines`,
`MaxEstimates` and `MaxEvents` bound counters the code leaves unbounded; they
stand in guards, in the ranges of ids and in what a liveness property excepts.
(`Attempts` of `OrkioClient` is no bound but a setting of the code.)

The type invariant of every module is a theorem (section 4) and has no run of its
own.

Threads stop at a bound, so some behaviours end; a thread may still abort or a
new request still start. Deadlock is checked in every run but `stored_files`,
where the keys run out and every thread is then at rest.

**Fairness.** `integration_execution`: weak fairness of a thread's own steps:
a server thread is scheduled. Weak fairness of `LeaseLapses`: time passes. Strong
fairness of `Receive`: clients retry, as the API contract asks of them on 409
and 502. Strong fairness of `RowOpen`, `Create` and `AcquireLease`, each by some
thread: requests do not for ever all die at the same point. Nothing is assumed of people, of the
context or of crashes after the acquisition, and `OpenSettles` names what may
therefore stand in the way: the bound on takeovers, an archived project, a moved
context (the digest no longer matches, section 5), a person's version 1.
`extraction_jobs`: weak fairness of a worker's own steps, of its restart and
of `LeaseLapses` (the process is scheduled, the service manager starts it again,
time passes); strong fairness of a `Claim` by some worker, since the row a worker waits for may be
taken by another and come back, and a worker does not die each time it is about
to claim. Deaths after the claim are unrestricted, and each costs an attempt;
the code has no bound on those, so `JobsSettle` excepts a job that met
`MaxAttempts`.
`orkio_client`: weak fairness of `Tick` (time passes) and of `Ends` (an attempt
that is out of time, or a pause that is over, ends). No call is ever assumed to
be made, so `CircuitRecovers` says that the breaker becomes ready to admit one,
not that one comes.

## 4. Proofs

The proofs hold for every value of the constants that the named assumptions of
a module allow. These are weak: that bounds are naturals (`BoundsOK`, `QuotaOK`,
`KeysOK`, ...), that settings are ones the code accepts at its start
(`SettingsOK`), that the callers of `OrkioClient` and the request threads of
`ChatThreads` are finitely many (`CallersOK`, `HandlersOK`: failures and files are
counted against them), as are the request threads of `DraftApproval`
(`ThreadsOK`), that prices are submitted for
sources the registry knows (`SubmittedOK`: `PriceSourceRegistry.get` refuses
others). `SettingsOK` leaves out what Settings does not refuse and no deployment
means: a negative backoff or cool-down, a threshold below one. One theorem rests
on more: `LiveCallerUnique` has clocks that agree as its hypothesis.

Each safety invariant and each action property of a passing run is stated by a
theorem, and so is the refinement of `DraftOutcome`.

### IntegrationExecution (`IntegrationProofs`)

For every set of threads and bodies and every bound, from `ConstantsOK` alone:

| Theorem | States |
|---|---|
| `TypeCorrect` | `Spec => []TypeOK` |
| `StableAnswer` | `Spec => []OneStableAnswer` |
| `CompletionIsAtomic` | `Spec => []CompletedIffVersion` |
| `VersionsCounted` | `Spec => []VersionsMatchCurrent` |
| `LiveCallerUnique` | `Spec => []OneLiveCaller`, if `SkewedClocks = FALSE` |
| `SettledIsFinal` | `Spec => SettledForever` |
| `Implementation` | `Spec => ImplementsDraftOutcome` |

None of the properties is inductive. A second 200 agrees with the first because
the thread that sends it carries the digest the row was elected with, and
completion happens once because an owner token is held by one thread only. The
inductive invariant `IInv` adds those facts: `RowInv` (an owner and a lease
exactly in `calling`; a response exactly in `completed`) and `ThreadInv` (past
the row, the thread's digest is the row's; past the acquisition, its token is one
of the attempts and nobody else's). One lemma per action, or per group of
actions with the same effect, shows that it keeps `IInv`. `LiveCallerUnique`
needs `LeaseInv` besides (a thread past the acquisition either owns the row or
has outlived its lease), which fails with skewed clocks, as the run shows.
`SettledIsFinal` and `Implementation` rest on `RowSteps`, which sorts every step
by what it does to the row and the answers.

### DraftApproval (`DraftApprovalProofs`)

For any finite set of threads, any keys and bounds, from `BoundsOK` and
`ThreadsOK`:

| Theorem | States |
|---|---|
| `TypeCorrect` | `Spec => []TypeOK` |
| `EditsNumberVersions` | `Spec => []VersionsCounted` |
| `ApprovedOnce` | `Spec => []OneApprovalPerVersion` |
| `PromotionsNumberFacts` | `Spec => []FactsNumbered` |
| `MemoryIsApproved` | `Spec => []FactsComeFromApprovals` |
| `PromotionsMustOverlap` | `Spec => []PromotionsOverlap` |

Its `Inv` adds `RowInv` (what the rows of one draft say of each other) and
`TxnInv` (what a thread read is a past of what is there now: a version it read is
at most the current one, a fact number it counted at most the next). The
numbering follows: a thread that inserts number n + 1 read n some time ago, and
the unique constraint leaves only the case that n is still the last.
`PromotionsOverlap` counts what a candidate left together with who is promoting
it: a promotion begins on a pending candidate, which by `FactsComeFromApprovals`
has left nothing, and each end of one adds a fact and takes a thread away.

### ProjectLifecycle (`ProjectProofs`)

For any threads, keys, codes and bounds:

| Theorem | States |
|---|---|
| `TypeCorrect` | `Spec => []TypeOK` |
| `KeysDecideOnce` | `Spec => []OneProjectPerKey` |
| `NoOrphans` | `Spec => []NoOrphanProject` |
| `CodesAreUnique` | `Spec => []CodesUnique` |
| `ContextBounded` | `Spec => []ContextNeverAhead` |

Its `Inv` adds that an idempotency row without a project is no row (`RowInv`),
and that the `context_version` a thread read counts no more than the changes
committed to that project so far (`TxnInv`), which bounds what it will write.

### ExtractionJobs (`ExtractionJobsProofs`)

For any workers, request threads and bounds, from `BoundsOK`:

| Theorem | States |
|---|---|
| `TypeCorrect` | `Spec => []TypeOK` |
| `ScenesAreNumbered` | `Spec => []ScenesNumbered` |
| `CompletedIsBacked` | `Spec => []CompletedHasOutput` |
| `NoJobStranded` | `Spec => []ProcessingIsLeased` |
| `TimelyWorkerUnique` | `Spec => []OneTimelyWorker` |
| `ClaimsBoundOutputs` | `Spec => []OutputPerClaim` |
| `SettledIsFinal` | `Spec => SettledStays` |

No write looks at the lease, so the argument rests on what a stale row can still
do. `RowInv`: a row has no attempts exactly while nobody claimed it. `WorkerInv`:
the job of a worker was claimed; if its lease lapsed the worker is marked late; if
it is settled it was claimed again; and a row that was read settled is settled.
From that, `WrittenRow`: whatever `Written` leaves out because it did not
change, the row ends settled and without a lease, so `ProcessingIsLeased` and
`SettledStays` survive every stale write. `AloneInv` (on its only claim a worker
is alone) makes the outcome of a job claimed once final; `NumberInv` (a version
read is at most the next) gives the numbering with `SceneTakesNext`, which
serves workers and people alike.

### NativeAuth (`NativeAuthProofs`)

For any threads and limits, from `LimitsOK`:

| Theorem | States |
|---|---|
| `TypeCorrect` | `Spec => []TypeOK` |
| `EveryFailureCounts` | `Spec => []FailuresCounted` |
| `ResetIsComplete` | `Spec => []ResetClosesSessions` |
| `LockoutHolds` | `Spec => NoLoginWhileLocked` |
| `RevocationHolds` | `Spec => RevocationIsFinal` |

The invariants are not inductive: they say nothing of what a thread is about to
write. `OneHolder` (one thread has the row lock) makes what a login read still
true when it commits, except that a lock may have lapsed (`LoginInv`), and the
sessions a reset listed all there are (`ResetInv`); `UseInv` keeps a request
from writing a session that is not there, `FullIsLocked` links count and lock.

### Invitations (`InvitationsProofs`)

For any threads, addresses and bounds, from `QuotaOK`:

| Theorem | States |
|---|---|
| `TypeCorrect` | `Spec => []TypeOK` |
| `QuotaHolds` | `Spec => []QuotaKept` |
| `AcceptanceMakesAccount` | `Spec => []AcceptedHasAccount` |
| `AcceptancePending` | `Spec => OnlyPendingIsAccepted` |

Again the locks become invariants: `IssuingAlone` and `CountInv` (the count an
issuer read is the bucket), `RowAlone` and `SeenInv` (what the holder of a row
saw of it still is so). `IssuedInv` (no token beyond the present one was issued)
makes each issue a new element, so that bucket and number of invitations rise
together, which is the step `QuotaKept` alone does not give.

### VisualEdits (`VisualEditsProofs`)

For any threads, workers, quota and bounds, from `BoundsOK`:

| Theorem | States |
|---|---|
| `TypeCorrect` | `Spec => []TypeOK` |
| `EditsPaidOnce` | `Spec => []PaidOnce` |
| `StudiesAreAccounted` | `Spec => []StudiesAccounted` |
| `QuotaIsKept` | `Spec => []QuotaKept` |
| `VerdictsStand` | `Spec => VerdictIsFinal` |

A count of the calls says nothing of who may call next. `HeldQueued` does: what
the open claims hold is queued and held once, as SKIP LOCKED has it. Hence
`OneEngaged` (one worker at most is engaged in a job, and the job is in
processing) and `Unpaid` (nothing was paid for a job that waits, or whose worker
has yet to call). `QuotaKept` needs `OneAdmitted`: one thread is past the count of
the day, for it holds the tenant's row, and the count still leaves it room.
`StudiesAccounted` is split into what is counted (`Counted`: one study and
one usage event for each completed job, none for another) and what is backed
(`Backed`: a listed image has its bytes); the second needs `ImagesOwned`: bytes
without a row are in one hand, so that a handler that cleans up deletes nobody
else's. `VerdictIsFinal` follows from `LockedAsSeen`: under the row lock, what a
thread has read is what is there.

### OrkioClient (`IntegrationProofs`)

For any finite set of callers, any number of pieces, and any timeout, backoff,
attempts, threshold, cool-down and lease that `SettingsOK` allows:

| Theorem | States |
|---|---|
| `CallTypeCorrect` | `CallSpec => []CallTypeOK` |
| `OverrunIsBounded` | `CallSpec => []OverrunBounded` |
| `OpenBreakerHolds` | `CallSpec => []OpenAdmitsNone` |

A bound on what a call has spent is not inductive; `InBudget` is: at each attempt
what is spent and what is left together stay within the `Budget` of the timeouts
and pauses so far and one timeout for each piece (`ExtraOfCall`). `Truncation` (of
`int()` in the start-up check) and `BudgetCovered` compare the last budget with
the least lease and what that leaves out. `OpenStep` uses
the theorems on finite sets: a failure the open breaker counts takes its call out
of flight.

### ChatThreads (`FileProofs`)

For any finite set of threads, any limit and bounds, from `BoundsOK` and
`HandlersOK`:

| Theorem | States |
|---|---|
| `TypeCorrect` | `Spec => []TypeOK` |
| `FilesAreBacked` | `Spec => []FilesBacked` |
| `UploadsAreBounded` | `Spec => []UploadsBounded` |
| `LinksNameTheLast` | `Spec => []LinkNamesLast` |

`FilesOwned`: a file that is uploaded and has no row is its uploader's alone, no
message has carried it, and what is being deleted has lost its row. So a
deletion never reaches the bytes of a row that commits later. `UploadsBounded` is
not inductive, for it counts rows and not who is about to add one; `RoomForAll`
counts both: each upload under way began when the rows left room, so that
together they exceed the limit by fewer than there are threads. `LinkNamesLast`
needs `MessagesInOrder`, the ids of messages increase in the order of their
commits: a link is written in the transaction that numbers the message.

### StoredFiles (`FileProofs`)

For any threads, contents and bound on the keys, from `KeysOK`:

| Theorem | States |
|---|---|
| `FilesTypeCorrect` | `FilesSpec => []FilesTypeOK` |
| `BlobsBackRows` | `FilesSpec => []RowsBacked` |
| `NoHalfFile` | `FilesSpec => []NeverHalf` |
| `SourcesAreUnique` | `FilesSpec => []OneSourcePerContent` |

`RowsBacked` alone says nothing of the bytes a request is about to delete.
`KeysOwned` and `RowsDrawn` do (a key belongs to one request, and to no row until
that commits), `PutWhole` makes the bytes of a request that is past the put
whole, and `FlushedNew` makes a flushed source the only one of its content. Three
lemmas, for a step along the request, its end without a row and its commit, serve
all the actions.

### Pricing (`ProjectProofs`)

For any sets of amounts, quantities, hours and shares, any scales `Parts` and
`Whole`, and any bounds, from `PricingOK` and `SubmittedOK`:

| Theorem | States |
|---|---|
| `PricingTypeCorrect` | `PricingSpec => []PricingTypeOK` |
| `PricesAreApproved` | `PricingSpec => []PricesApproved` |
| `TotalsReconstructible` | `PricingSpec => []Reconstructible` |
| `LedgerIsBacked` | `PricingSpec => []LedgerBacked` |
| `OnlyLateWriters` | `PricingSpec => LateWritersOnly` |

An estimate is computed in one step and committed in another, and the rows it
names may be approved again in between, and by someone else. `Kept` says what no
step changes: the item, source, price and quantity of a row that is there.
`SnapshotsSigned` and `MappingsSigned` say that an approved row has an owner's
name, so that `EstimatesComputed` (each estimate, and each result a thread is
about to commit, is computed from signed rows, and its total is what the
roundings make of them) survives every approval. From there `Reconstructible` is
arithmetic: a rounding is within half a unit (`RoundedNear`), a scaling scales
the tolerance (`NearScaled`), two tolerances add up (`NearTransitive`). The sum
over the lines is a fold, whose library theorems take operators and cannot be
used here; `SumFunctionSums` shows it to be the last of its partial sums, and
`SumsNear` compares two such sequences term by term. The induction over their
length is put as the absence of a least counterexample (`LeastNatural`, from the
well-foundedness of the naturals), so the theorem is for any number of lines.
`LateWritersOnly` needs `LateKnown`: while the project is archived, whoever is in
the middle of a request was there when it was archived.

### What is not proved

`VersionsCounted` and `FactsNumbered` of `DraftApproval`, `FactsComeFromApprovals`,
`ContextNeverAhead`, `OutputPerClaim`, `ProcessingIsLeased`, `SettledForever` and
type correctness are proved and need no run of their own: each is a part of an
inductive invariant, or follows from one. Only liveness (`OpenSettles`,
`JobsSettle`, `CircuitRecovers`) stays with TLC, since fairness and ENABLED are
beyond the prover, and with it the run that ends in a violation.

## 5. Findings

One run ends in a violation on purpose: `integration_stale_owner` states the
sentence of ARCHITECTURE.md:108 that a stale owner persists no change of the
draft, which the write of `status = "calling"` (`services.py:227`) does not keep.
PROJECT.json quotes the lines.

Other places where the models differ from what a reader might expect. No run
states them; each is a behaviour the module named allows.

- `IntegrationExecution`: after `context_version` has moved, no retry has the
  digest of an open execution, so its expired lease is not taken over although
  ARCHITECTURE.md:83 says it can be; `OpenSettles` excepts that case. The takeover
  compares the lease with the application's clock although
  `integration_idempotency.py:171` calls the database's authoritative; with
  `SkewedClocks = TRUE` two live owners may call ORKIO.
- `DraftApproval`: an edit invalidates the requests its own SELECT returned. One
  committed meanwhile stays open on the superseded version, and a decision that
  overlaps the edit approves it, where README.md:10 of the repository says that an
  edit invalidates open approvals. Promotions of one candidate that overlap each
  leave a fact. The `"invalidated"` that `decide` assigns
  before it raises is rolled back. Of an approval and a rejection of one request
  that overlap, both are recorded.
- `ProjectLifecycle`: `context_version` is written as read plus one without a
  lock, so of two overlapping changes one is not counted: `ContextNeverAhead` is
  an inequality for that reason.
- `ExtractionJobs`: after the flush of a scene conflicted, the session refuses
  the write of the failure too; the IFC worker goes on with nothing persisted,
  where `scripts/process_bim_jobs.py:64` says the failure is. The job waits for
  its lease to lapse.
- `VisualEdits`: a worker that dies after its claim leaves the job in processing
  for ever, for there is no lease: that is the price of `PaidOnce`. The claim
  locks every queued row, so a second worker finds none until it commits.
- `OrkioClient`: Settings counts the second pause as long as the first
  (`config.py:184`; `client.py:233` and `:239` sleep `backoff * 2 ** attempt`), so that
  with three attempts and a backoff above the ten seconds of margin a call outlives
  a lease Settings accepts, although `tests/test_lease_config_rc2.py:5` is
  named "test_execution_lease_must_cover_retry_window"; and httpx applies the
  timeout to each phase of a request, so that an answer that comes in pieces may
  take any time. `OverrunBounded` says by how much: by the `Uncounted` pause, and by
  one timeout for each piece. What then happens to the lease is
  in `IntegrationExecution`, where it may lapse at any moment of a call. A late
  success closes a breaker that is open; late
  failures start its cool-down again.
- `ChatThreads`: a provider that fails leaves the message and its links, so that a
  retry with the same files is refused (409). A deletion that overlaps a send may
  remove a file the message carried, and two overlapping sends may carry one file.
- `StoredFiles`: a failure before the handler has its row (`artifact_routes.py:75-80`,
  a conflict of two sources) leaves the blob. An exception of the refresh after
  the commit deletes the blob of a row that stays, although the comment at
  `artifact_routes.py:82` has only the orphan in mind. `put_if_absent` tests and
  then writes, which is harmless under keys drawn for one request (`KeysOwned`).
- `Pricing`: no path of the code grants `server_verified`, so that only a
  supplier's quote is ever priced. A mapping named twice counts twice; a positive
  quantity below half a millionth is stored as 0; approving again replaces the
  approver. The body of `add_realized_cost` gives the kind and the source of an event
  (`service.py:522`, `:555-560`), which are checked only of costs that were paid: a
  member may enter an "estimated" event that names any estimate, real or not,
  with any amount, and nothing in the ledger tells it from the one the estimate
  left. `LedgerBacked` therefore speaks of the estimates' own events.

## 6. Not modelled

- The semantic engines, renderers, previews and what extracts a file's text:
  functions of files, in external libraries.
- `pricing/adapters.py` and `pricing/quantities.py`, which turn tables and scenes
  into candidate items and quantities: the interest is in the data.
- ORKIO's probe and mock mode, the readiness probe, dashboards and the handlers
  that only list: they write nothing.
- The contents of stages, tasks, schedules, budgets, knowledge and of the
  snapshot `build_context` composes; the text of prompts, summaries and
  documents: no property is about wording.
- The migrations, but for the tables and constraints the modules name.
- The composition of the modules: `IntegrationExecution` takes the client's answer
  as a choice, at any time, which covers every answer of `OrkioClient`;
  `OverrunBounded` bounds how long that takes, and since the lease may lapse at any
  time there, nothing of it rests on the bound. An account
  of `Invitations` is where `NativeAuth` begins, and `archived` in `Pricing` is
  the column of `ProjectLifecycle`.
