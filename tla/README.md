# A formal model of 知枢 (zhishu)

知枢 is a multi-tenant retrieval-augmented-generation platform: a Django/DRF web
application, Celery workers and Beat, PostgreSQL (pgvector) and Redis. This
directory holds TLA+ modules of the parts whose correctness depends on the order
of steps, the TLC configurations that check them on small instances, and TLAPS
proofs of the properties that matter most for every instance.

`tlc -config <run>.cfg <module>` runs a check, `tlapm <module>_proofs.tla` checks
the proofs. `PROJECT.json` lists the runs, the mutants that show that each
property can fail, and for each definition the source lines it stands for.

## 1. Inventory

All of the program's logic is in `src/backend/api`.

| Component | State | Operations | Interacts with | What is hard |
|---|---|---|---|---|
| Document pipeline (`document_tasks.py`, `document_processor.py`, `tasks.py`, `task_recovery.py`, document views) | `Document.status`, paragraphs, `DocumentProcessingTask` rows, broker messages | upload, reprocess, retry, cancel, delete, run, Celery retry, reconcile | redis lock, broker, Beat, vector storage | web requests act on statuses they read before; messages are duplicated, lost and redelivered; workers die; the reconciler judges by time |
| Document lock (`document_task_lock.py`) | one redis key per document | acquire, release, expire | pipeline | expiry while the holder lives |
| Vector migration (`vector_storage.py`, `vector_views.py`) | `VectorMigrationRun`, embeddings, a cache key | start, batch, retry, cancel | Celery | lock without a token, continuation messages, stale saves |
| Organizations, workspaces, memberships (`workspace_views.py`, `workspace_permissions.py`) | membership rows and roles | add, change role, remove | invitations | last owner, stale role checks |
| Invitations (`invitations.py`, `enterprise_views.py`) | invitation rows | create, resend, preview, accept, revoke, expire | memberships | stale saves over ACCEPTED |
| Applications (`application_views.py`, `application_publishing.py`, `application_public_access.py`) | draft, snapshots, access tokens | publish, roll back, disable, enable, rotate | runtime | publish and disable race |
| Runtime and agents (`application_runtime.py`, `agent_executor.py`, `agent_persistence.py`, access logs) | conversation, run and log rows | answer, stream, call tools | models, retrieval | streams left by the client |
| Retrieval (`retrieval.py`, `rrf.py`, `rag.py`, ...) | none | rank, fuse, pack | vector storage, reranker | ties, budgets, boundaries |
| Reranker (`reranker.py`) | one in-process slot, one thread | acquire, score, time out | retrieval | slots lost by time-outs |
| Rate limits and accounts (`application_rate_limit.py`, `account_security.py`, `auth_views.py`) | cache counters, sessions and their rows | count, lock out, log in and out, change and reset passwords, revoke | redis, session store | window boundaries; logins that cross revocations |
| Model configurations (`views.py`, `serializers.py`, `model_resolution.py`) | configurations with revisions, the one a knowledge base selects | create, edit, test, select, delete | pipeline, retrieval, applications | vectors of different models of one dimension look alike |
| Parsing and chunking (`document_parser.py`, `document_chunking.py`) | none | parse, split | pipeline | tables, code and overlap at chunk boundaries |
| Evaluation (`stage11_evaluation.py`, `management/commands`) | data set files, reports | draft, review, import, split, freeze, evaluate, compare | retrieval | files edited between two reads |
| Observability, health, frontend, deployment | none of the system's | - | - | outside the model |

## 2. Modules

| Module | What it is |
|---|---|
| `DocumentPipeline` | The document pipeline: one action per transaction, broker call or lock call of the code. |
| `DocumentIndex` | What the pipeline promises about the searchable index of a document, without messages, processes, locks or statuses. `DocumentPipeline` implements it (`KeepsContract`). |
| `DocumentTaskLock` | The clock of one document: lock timeout, hard time limit and stale threshold. It justifies the two places where `DocumentPipeline` speaks of time. |
| `VectorMigration` | The backfill of one embedding space: batches, continuation messages, the cache key, retry and cancellation. |
| `Governance` | The memberships of one organization and one workspace, and its invitations. |
| `Applications` | One application between its draft and its public: saving, publishing, rolling back, disabling, deleting, its public link, its model configuration, and what a question is answered from. |
| `ChatStreams` | Questions and their rows - access log, messages, agent run, tool executions - event by event, through every door, with the agent's loop. |
| `EmbeddingConfigs` | Embedding configurations with their revisions, the documents indexed and the questions asked with them. |
| `Accounts`, `LoginLimit`, `AccessLimits` | The sessions of one user, the counter of failed logins, the rate limits of an application. |
| `Reranker` | The slot and the thread of the local cross-encoder. |
| `Retrieval` | From the candidates of a question to its context: ranking, fusion, reranking, packing. |
| `Chunking` | From the lines of a Markdown document to its chunks. |
| `EvaluationData`, `EvaluationScores` | The data sets of the offline evaluation and its metrics. |
| `Services` | The parts that share no state (`DocumentTaskLock` and the ten modules from `EmbeddingConfigs` on, but for the pipeline's) side by side: their parameters with what is assumed of them, one set of variables, and their properties. |
| `MC...` | Small instances for TLC; `MCServices` is that of `Services`. |
| `..._proofs` | The theorems and their TLAPS proofs. `Services_proofs` is about all of its parts; it extends `Chunking_proofs`, which extends `Retrieval_proofs`. In these modules the variables of a part have the names `v1`, `v2`, ... that `Services` gives them. |

Modules meet where the code does: `ChatStreams` is about the question whose version
and model `Applications` resolves; `Retrieval` ranks what `EmbeddingConfigs` says may
be compared; `Reranker` gives the answers that `Retrieval` takes as an arbitrary
order or a refusal; `VectorMigration` is the `Backfill` of `EmbeddingConfigs`;
`DocumentTaskLock` gives the guards of `DocumentPipeline`. Each of these meeting
points is a choice in the module that uses it, so that no instance has to hold both.

Definitions marked `Fault:` are no part of a model. Each is what the definition
after it would be with a plausible bug; `PROJECT.json` ("mutants") says which
property each of them breaks.

### 2.1 The document pipeline (`DocumentPipeline`)

*State.* `docStatus`, `status` and `celeryId` are columns of `Document` and
`DocumentProcessingTask`; `index[d]` is the task whose paragraphs and vectors the
document holds; `queue` and `sent` are the broker; `lock[d]` is the redis key.
What a process has read and will use later is kept in its own variables: `pc`,
`message` and `had` (`had_paragraphs`) for a Celery worker, `cpc`, `ctask` and
`cid` (the id `apply_async` returned) for a web request. So a stale read is a
normal behaviour of the model and not a special case.

*A web request* is a sequence of actions: `Upload` / `Reprocess` / `RetryRead` +
`RetryReset` or `RetryCreates`, then `Publish` (`apply_async`), then `Record`
(store the id) or `DispatchFails` + `FailDocument` (`_mark_enqueue_failed`); and
`CancelRead`, then `CancelNow` (and `FailDocument`) or `CancelRequest`, then
`Revoke`. `DispatchFails` is possible before and after the message has got out,
because the `try` around `apply_async` also holds the save of the id.
`DeleteDocument` is one step (`select_for_update` in a transaction).

*A worker* goes `Fetch` -> `CheckRuns` (or the early returns `CheckDone`,
`CheckCancelled`) -> `AcquireLock` or `LockRefused` -> `Start` -> `Load` ->
`Build` -> `Commit` -> `Finish` -> `Release` -> `Ack`. Exceptions lead to
`BuildFails` (with the handler of `process_document`, which restores the
document's status from `had`), `RunFails`, `StartFails`, `StartRejected`,
`LoadRejected`, and from there to `RetryTask`, `RetryRejected` or `FailTask`
(`tasks.py`). `WorkerLost` (the message comes again, `reject_on_worker_lost`) and
`HardTimeLimit` (the message is acknowledged) end a process anywhere and leave an
orphaned key, which `LockExpires` removes.

*Beat* is `Reconcile`, whose guard `Stale` says that no living run has saved
PROCESSING for the task: the threshold exceeds the hard time limit, which
`DocumentTaskLock` shows (`OnlyDeadRunsAreStopped`). A task that waits in the
broker or in a request has no heartbeat and may be stale at any time.

*Abstracted.* Stage, progress, error texts and time stamps. Parsing, splitting
and embedding are the one step `Build`, with the cancellation checks inside it
collapsed into the ones around it. A soft time limit or a database error is an
exception at the named steps. `revoke` is best effort: it may remove waiting
copies of the message or none. An idempotency key is only the existing row that
`ReprocessExisting` finds. A message is its id, its task and its number of
retries.

### 2.2 The lock's clock (`DocumentTaskLock`)

Ages in seconds instead of a clock. `Acquire`/`End` are `_redis_lock`,
`SaveProcessing` and `UpdateProgress` move `updated_at`, `Reconcile` compares it
with the threshold, `Tick` is a second, in which no run outlives
`DOCUMENT_TASK_TIME_LIMIT`. `SettingsAssumption` is what the defaults in
`settings.py` satisfy (360 / 420 / 420 s). `settings.py` enforces it for the stale
threshold; `DOCUMENT_TASK_LOCK_TIMEOUT` is read from the environment as it is, and
exclusion is not promised when it is set at or below the hard limit. The memory
backend that tests use is not modelled.

### 2.3 Vector migration (`VectorMigration`)

*State.* `run` holds the rows (`cursor` is `last_paragraph_id`; `done` is
`succeeded + skipped`), `there`/`gone`/`embedded` are the paragraphs with a legacy
vector, the deleted ones and those with a vector in the space, `space` its
status, `key` the cache key of `process_vector_migration_task`, `queue` a bag of
messages. `snap`, `rows`, `last` are what `execute_backfill_batch` has read;
`csnap` what a request has.

*Actions.* A batch is `Acquire` (`cache.add`) or `Locked`, `Read`, `Cancel` or
`Start`, `ReadRows`, then `Batch` (one transaction: vectors, counters, cursor) or
`NoRows`, `Refresh`, `CloseSpace`, `CloseRun`, then `PublishNext`, `Release`
(`cache.delete`, whoever added the key), `Ack`. `Raise`, `RetryTask`, `RetryLost`
and `FailRun` are its exceptions. Requests create, retry (`RetryRead`,
`RetryCheck`, `RetrySave`), cancel (`CancelRead`, `CancelSave`) and publish.
`InsertParagraph` and `DeleteParagraph` are documents processed meanwhile: an
insertion may take any id that is free, because ids are given out before their
transactions commit; the write goes to the space too (`VECTOR_WRITE_MODE` DUAL).

A batch that is slower than its key is a fault of kind `slow` (`KeyExpires`), which
`docs/vector-storage.md:49` does not exempt from exclusion and `BatchesExclude` does.

*Abstracted.* One space; runs are never deleted; the eligible paragraphs are the
ones of SUCCESS documents; Celery's eager mode and an outage of the cache are left
out.

### 2.4 Governance (`Governance`)

*State.* `org[u]` and `ws[u]` are the membership rows of a user (a role and which
row it is, since a removed member may be added again); `invitation` the rows with
the role and the workspace grant they offer; `request` what a request has checked
and read. Each request is a check (`AddRead`, `ChangeRead`, `RemoveRead`,
`AddWsRead`, `ChangeWsRead`, `InviteRead`, `ResendRead`, `RevokeRead`,
`PreviewRead`, `AcceptRead`) and a write (`Add`, `Change`, `Remove`, `RefuseOrg`,
`AddWs`, `ChangeWs`, `Invite`, `Close`, `Accept`), with the steps of the other
requests between them. `Change` and `Remove` count the owners in the step that
writes, since the code holds the organization's row; `Locked` is
`select_for_update` on the invitation, from `AcceptRead` to `Accept`. An expiry
found while accepting is rolled back with the transaction and is no step.

*Abstracted.* VIEWER stands for every workspace role that does not manage members;
one grant per invitation. Creating further workspaces, renaming and disabling,
personal workspaces, mail and audit events are left out.

### 2.5 Applications (`Applications`)

*State.* `app` and `life` are the row, `links` the draft's enabled knowledge bases,
`versions` the snapshots in order, `model`/`modelLive` the Chat configuration,
`kbs` the knowledge bases that exist, `linkOpen` the public link. `appRow` and
`modelRow` are the copies a request has read; `answer` what it will be answered
from. `passed` records which contents a connectivity test accepted. `lost` names
the kinds of stale or half writes that have happened; properties that such a write
breaks name it.

*Actions.* `ReadApplication` and then `SaveDraft` (the whole row, which comes back if it
was deleted), `DeleteApplication`, `DisableStatus` + `DisableLink` (or `DieDisabling`)
or `OpenLink`; `Publish` and `Rollback` under the row's lock; `PutKnowledge` (one
transaction); `ReadModel` and then `EditModel` or `FinishTest`; and
`Authenticate` + `Resolve` of a visitor, whose version may be an older one when the
conversation began with it.

*Abstracted.* Text fields, API keys (one flag each), conversations beyond one per
application, audit events. `publish_application` asks for `select_for_update` on a query
that also joins a nullable foreign key (`application_publishing.py:93`), which PostgreSQL
refuses; the model gives it the lock it asks for.

### 2.6 Questions and agents (`ChatStreams`)

*State.* `asked` is the door (`kb`, `app`, `api`), whether the agent answers, and the
conversation. `pc` is the place in the generator; at the places in `Suspended` it has
yielded an event. `log`, `run`, `tools`, `answered` are rows; `step`, `calls`, `pending`,
`total` the locals of `stream_agent_run`. `hurt` records what befell the request.

*Actions.* `StartLog`, `Ask`, `Create`, `Meta`, then `Generate`, or for an agent
`Start`, `Step`, `Turn`, `Prepare`, `Execute`, `ToolError`, `SaveAnswer`, `Succeed`;
`Done`, or `Fail` and `ErrorEvent`. `Leave` closes the generator (GeneratorExit) where it is
suspended; `StoreFails` refuses a write and runs the handlers the code has there;
`Die` kills the worker; `Delete` removes the conversation with its rows beside it.

*Abstracted.* What tools compute, prompts and latencies; the size of a result is a
number between nothing and too much.

### 2.7 Embedding configurations (`EmbeddingConfigs`)

A signature is the id and revision of a configuration. `CreateConfig`, `EditRead` +
`EditSave` (the whole row, one revision up if the model changed), `DeleteConfig`
(restricted by the knowledge base), `SelectConfig`; `Load`, `Embed`, `Commit` or
`RunFails` of a run, which keeps the configuration it loaded but reads the knowledge
base again for the space; `Backfill`; `Ask`, `SearchSpace`, `Score` of a question.
All models have one dimension, so that only signatures keep them apart.
`overlapped` says that a PATCH was saved over a row changed since it was read.

### 2.8 Accounts and limits (`Accounts`, `LoginLimit`, `AccessLimits`)

`Accounts` has the session store, the `AccountSession` rows and the password, and
each view's statements as separate actions: a login authenticates, opens a session,
registers its row and stores the session only with its response (`Authenticate`,
`OpenSession`, `Register`, `Respond`), while others revoke (`Snapshot`, `DeleteSeen`,
`MarkOthers`), change or reset the password, list (`ListRead`, `Heal`) or log out.
`LoginLimit` is the counter read before and counted after the check, `AccessLimits`
the counters per client and per application in windows of time, with the redis and
the memory backend.

### 2.9 Reranker and retrieval (`Reranker`, `Retrieval`)

`Reranker`: `Ask` takes the slot or is BUSY, `Run`, `Finish` and `Release` (the done
callback) are the executor, `GiveUp` is the caller's time-out, which leaves the slot to
the job. `Retrieval`: `Prepare` scores the candidates (all of them or the nearest of an
index), `RankCandidates` fuses and filters, `Rerank` reorders the head, `PackContext`
packs within the budget, `Compare` runs other settings over the same candidates,
`Apply` packs what several knowledge bases returned. A sort is the choice of the sequence
that its key sorts (`Ordered`, `ByWeight`), a loop is a function from the number of its
turns to what it has packed (`PackNext`, `ReferenceNext`). Scores are small naturals and
texts are lengths; the index is taken as searched exactly and its bound (at least
100 rows) as not reached.

### 2.10 Chunking (`Chunking`)

A line is its kind and its number. `Heading`, `Code`, `TableBlock`, `ListBlock`, `Quote`
and `Paragraph` each read one block; `Plan` groups blocks into parents, and each
parent's text into children with their overlap, or splits the text in the legacy way.
The sequences of blocks that PDF and DOCX extraction would give are the ones that
Markdown gives.

### 2.11 Evaluation (`EvaluationData`, `EvaluationScores`)

`EvaluationData` follows the files of a data set through every command that writes
one, each of which reads its input before it writes (`SplitRead`/`SplitWrite`,
`FreezeRead`/`FreezeWrite`, `EvaluateRead`/`EvaluateReport`), with edits by hand between.
`EvaluationScores` computes hit, recall, reciprocal rank, precision and NDCG of every
small ranking against every small set of evidence.

## 3. Runs

`expect: pass`:

| Run | Properties | Instance | What it shows |
|---|---|---|---|
| `pipeline_crash` | `IInv` `SingleBuilder` `IndexNeverLost` `SuccessReportsOwnIndex` | upload and reprocessing of one document, two workers, one request, two dispatches, one death | A worker that dies anywhere, a redelivered message and an expiring key beside another run. |
| `pipeline_requests` | `OneActiveTask` `SuccessMeansIndexed` `DeletedStaysDeleted` | two requests, one worker, two dispatches | Requests interleaved step by step with each other, the worker and Beat. |
| `pipeline_liveness` | `KeepsContract` `TasksConverge` | one worker, one request, one dispatch, one Celery retry, one death | Every step is a step of `DocumentIndex` or changes nothing it sees; under fairness every active task ends. |
| `migration` | `IInv` `BatchesExclude` `CountersMatchCursor` `SuccessIsComplete` `SuccessMeansReady` | three ids, one unusable vector, two runs, two workers, a crash, exception or slow batch | No cursor passes a vector that was not copied; while no batch outlives its key, batches exclude each other, counters tell the rows up to the cursor, and SUCCESS means that the space is READY. |
| `governance` | `LastOwnerStays` `InvitationWorksOnce` `OutsidersComeLate` | two users, two invitations, two requests | Changes, removals, additions and invitations between each other's checks and writes. |
| `applications` | `OpenMeansPublished` `PublishedWasTested` `AnswersArePinned` `ComesBackUnpublished` | two requests, two versions, two contents, one edit, one knowledge base, one kind of stale write | Which of the promises of publishing survive stale writes, and which stale write each of the others needs. |
| `streams` | `RowsTellTheAnswer` `ToolsAreClosed` `WithinLimits` `RowsEnd` (`RunsEnd` and `LogsEnd`) | one request by any door, up to four steps and five calls, two tools of which one is enabled | Every place at which a client leaves, a worker dies or a write is refused, and whether the rows end. |
| `services` | see below | each part on its own | The parts that share no state. |

`services` chooses a part in its first state; a behaviour is one part's, the others'
variables are 0. Its parts are

| Part | Properties | Instance |
|---|---|---|
| lock | `MutualExclusion` `OnlyDeadRunsAreStopped` | two workers, limits 3 / 4 / 4: the settings' differences matter, not their size |
| accounts | `OthersAreOut` `UsableIsListed` | two requests, three sessions, one change of password |
| logins | `GuessesAreBounded` | two requests, a limit of two |
| limits | `LimitsHold` (`WithinLimit`, `RejectedCostNothing`) | three requests of two clients, limits 1 and 2, two windows, two counters kept |
| reranker | `SlotIsTheJob` | three requests |
| retrieval | `ContextFits` `OrderIsKept` (`MoreKeepsPrefix`, `IndexKeepsPrefix`, `BothListsWin`, `TailKeepsItsPlace`, `KnowledgeBasesKeepOrder`) | every list of up to three of 18 passages, four configurations |
| chunking | `ChunksAreSound` (`NothingIsLost`, `ChildrenFit`, `PathsNest`) | every document of up to four lines of nine kinds and of six lines of four, 18 options |
| data | `FrozenTestIsBlind` `LikeIsComparedWithLike` | three cases of which two are alike, two reports, one edit |
| scores | `MetricsAgree` (with `NdcgIsAShare`) | up to two pieces of evidence and three candidates over three blocks |
| models | `SameModel` `StaleIsReported` | two configurations, two models, one document replaced up to twice, one edit at a time |

`expect: violation`, each a finding in `PROJECT.json` with the line it contradicts:

| Run | Property | What happens |
|---|---|---|
| `usable_index` | `UsableIndexStaysUsable` | Storing the message id fails after the worker has committed: `_mark_enqueue_failed` sets an indexed document to FAILURE, and retrieval skips it. |
| `migration_running` | `RunningEnds` | The continuation is fetched before the key is released; its worker gives it up, and the run stays RUNNING with nothing left to continue it. |
| `last_owner` | `AlwaysAnOwner` | The only owner accepts an invitation, whose role replaces OWNER. |
| `draft_save` | `DraftsKeepPublication` | A draft read before a publication is saved after it, status and version included: the application is a DRAFT again. |

*Bounds.* Two workers, two requests and two rows are enough for the races of the
code, each of which is between two processes over one document, space, account,
application or organization; a third request in `limits` and `reranker` fills a
counter or a queue. A message is copied by one crash or one retry. The pipeline's
retry and crash are in one run with one worker; with more, they are the theorems'.
`MaxLosses = 1` lets one kind of stale write happen as often as it may in one
behaviour; `Applications_proofs` has them all. `streams` follows one
question, because questions share only their conversation's deletion; its limits
are as small as keeps each of them reachable before the others. `MaxVersion = 2`
lets a document be replaced between a question's search and its scores. The
theorems remove these bounds from the properties they state. Deadlock is not checked
where rows, messages, sessions or memberships may be used up: there the model stops
and the system would go on.

*Fairness.* In the pipeline: a worker that holds a message goes on (time limits
end a step that does not), a redis key expires, Beat runs the reconciler, and a
request that has begun ends. Nothing is assumed of users, and `Fetch` is not fair:
a message may be lost for ever, and the reconciler alone must end its task. In
`migration_running` delivery is fair too, and no fault happens, so that the
violation cannot be blamed on either. In `streams` the server goes on: a thread of
gunicorn (gthread) resumes a generator whose client reads, and calls to models and
tools end, since model clients have a time-out (`model_clients.py:50`). That clients
stay, or leave, is not assumed.

## 4. Proofs

All are of safety, for any values of the constants that satisfy the named
assumptions (the types of the bounds, null values outside the sets they complete,
finite sets of paragraphs and knowledge bases, and `SettingsAssumption` for the lock's
clock).

- **Pipeline.** `OneActiveTask` and `SuccessMeansIndexed` are not inductive alone:
  a task row could outlive its document, and a commit could meet a document that
  is gone. `IInv` adds `TasksHaveDocuments`, `MissingIsEmpty`, `KeyIffLocked` (a
  worker is between acquiring and releasing exactly while the key is its own) and
  `CommitIsSafe` (after a commit the chunks stay the run's until it is over).
  `PipelineInvariant` has one lemma per action. `RunsExclude` (`SingleBuilder`)
  follows from `KeyIffLocked`; `SuccessIsHonest` from `CommitIsSafe`; `IndexIsKept`,
  `SearchableIsIndexed` and `DeletionIsFinal` from the same invariant.
- **Refinement.** `PipelineKeepsContract`: under the mapping `exists` from the
  document's status, `readable` = SUCCESS, `builder` = the task of the worker that
  holds the key, `outcome` = the class of the task's status, the initial states map
  to initial states and every action to a step of `DocumentIndex` or a stutter.
- **Lock** (in `Services_proofs`, since `Services` extends it). `LockInvariant` relates the age of a run to the rest of its key's life
  and to the heartbeat; `LockExcludes` and `ReconcilerIsSafe` follow with
  `LockTimeout > HardLimit` and `StaleThreshold > HardLimit`.
- **Migration.** One `IInv` in three layers. `CursorsAreCovered` and `BatchesAreWhole`:
  no cursor - stored in a row, or read by a worker or a request that may save it
  later - is ahead of the copied vectors, and a batch leaves no gap; `SuccessCopiesAll`
  follows, and needs no exclusion of batches. `WorkingHoldsKey`: while no batch was slow,
  a worker that works holds the key; `BatchesNeverOverlap` follows. On exclusion rest the
  counters: `OldAreKnown` (what lies behind a cursor is inserted or deleted for good),
  `CopiesAreCounted` (a copy of a row that a retry may save counts no more than the row)
  and `BatchesAreExact` (a batch in hand is the rows after the cursor) give
  `CountersAreReal`; and `ClosingIsReady` (a worker that has closed the space for its
  run finds it as it left it) gives `SuccessFindsReady`. Both are false after a slow
  batch, as TLC shows: section 5.
- **Governance.** `IInv` says that an invitation under acceptance is PENDING and
  held by one request. `InvitationsWorkOnce`, `OwnerIsKept` and `OutsidersAreLate`
  are action properties over it.
- **Applications.** The invariant speaks of stored rows and of the copies that
  requests hold, since either may be saved: `CurrentIsAVersion`, and for tests
  `TestedHasPassed` (a configuration that says it was tested was). `AnswersArePinned` needs
  that a revision names one content (`RevisionNamesContent`) and that a question
  resolves a version that exists (`QuestionsNameAVersion`).
- **Questions.** `RunFollows`, `LogFollows` and `ToolsFollow` say what the rows are at each
  place of the generator; from them follow what rows say of answers, that tools are
  closed, the limits, and that outcomes are final.
- **Models** (in `Services_proofs`). `SignaturesAgree`: whatever pairs a signature with a model - rows,
  documents, runs, questions - pairs it with the same one. It is inductive with
  `RevisionsAreSpent`: nobody has a revision ahead of the row's, so the next one is
  free. A vector in the space of another configuration does no harm because a
  candidate counts only if its document has the signature (`RowsAreTheVectors`,
  `CandidatesAreRows`).
- **Services.** `ServicesNext` is a step of the part that was chosen, so `PartsInv`, each
  part's own invariant, is inductive with one lemma per part and action.
  Sessions: a session key never becomes usable again
  (`TargetsAreReached`: what a revocation has yet to delete is still among what it reads),
  from which `OthersStayOut` and `UsableStaysListed` follow at once. Failed logins:
  `GuessesAreCounted` (a guess is in the counter, or in a request that is about to count
  it) and `RoomIsLeft` (a request that passed found room), over the cardinality of the
  requests under way. Rate limits: of the running window a counter knows all it let
  through, and nobody has read a window to come. Reranker: `SlotIsTheJob` is inductive
  with the types. Evaluation: as long as nobody edits a file all rows are rows of one
  valid draft (`RowsAreDrafted`, `FilesAreSplit`). `PartsAssumption` collects what is assumed
  of constants: null values outside the sets they complete, positive limits, finite sets
  of requests.
- **Evaluation scores** (in `Services_proofs`). `IInv` is little more than the types; the work
  is in the metrics of one ranking. `Gains` counts each piece of evidence once, at the
  first passage that matches it, and `ByRelevance` is a sorted sequence (`SortedExists`), so
  that at every relevance the ranking has gained no more, up to any rank, than the ideal
  one (`GainsReach`, `IdealReaches`); sums with decreasing discounts keep that order, by
  summation over the differences of discounts, and are equal only if every term is
  (`ShareOfIdeal`). `FirstTells` reads hit, recall and first match off each other.
  Assumed of the discounts is that they are positive and strictly decreasing.
- **Retrieval** (`Retrieval_proofs`). The steps are few and the operators hard, so most
  of the proof is about these. Sorting: `Ordered` and `ByWeight` choose a sorted sequence;
  one exists (`SortedExists`, by counting what lies below each element), and in any
  sorted sequence an element stands behind exactly those below it (`SortedPlaces`,
  `SortedPrefix`). The keys are strict total orders since they end with the passage's number
  (`SortKeyTells`), the weights since fractions compare transitively (`WeightsOrder`).
  Packing: `Pack`, `PackReferences` and `Joined` are recursive functions along a sequence,
  which exist and keep what one turn keeps (`RecursionWorks`, `UpTo`; by the least
  counterexample, `LeastNumber`). So the bounds of a context are those of one turn
  (`PackNextFits`, `ReferenceNextFits`), and a context of more passages begins with that of
  fewer (`PackPrefix`). `LaxerPasses`, `IndexBegins` and `BothListsLead` say in which order
  passages come that other settings let in, that the index left out, or that both lists
  rank. `IInv` says what each stage leaves for the next; `RetrievalNext` and `RetrievalInv`
  put it together. Assumed are the types of passages and settings, with candidate lists
  shorter than `Unranked` (the serializers allow 100).
- **Chunking** (`Chunking_proofs`). While a document is read, `IInv` says what the blocks are:
  in order and apart (`BlocksAreInOrder`), with every line of text behind the one that is read
  (`ReadIsKept`), and that the path is that of this line (`PathIsThere`): without it
  `PathsNest` is not inductive, since a block is given the path that its predecessors left.
  A heading turns the path into what encloses the next line, as long as no level is
  skipped (the code keeps a list by position, so an `h3` straight under an `h1` becomes its
  second entry). All else is about the one step `Plan`, whose operators are recursive functions
  along blocks and texts. `Split` and `SplitText` are windows that begin no later than the
  last one ended and advance (`Slides`): they leave out no token, and of a text that rises they
  make texts that follow each other. `ChildGroups` keeps turn by turn that the children and
  what is buffered hold all text so far, fit, and follow each other (`Sound`); the buffer
  counts its tokens, and an overlap adds at most `overlap` and two fences. `ParentGroups`
  cuts the blocks into groups that put together are the blocks, so each child's text is its
  parent's. Assumed are the kinds of lines and natural numbers for the options; that
  an overlap is smaller than its target is `Admitted`, a guard of the code.

Theorems only, because a run checks what they serve and they hold for every
instance: the invariants `IInv` of the lock, of governance, applications, questions and
models, `PartsInv`, and `CurrentIsAVersion`, `FailedLogsAreExplained`,
`DeletedLeavesNothing`, `OutcomeIsFinal` and `OneActiveRun`.

Model-checked only: the liveness `TasksConverge` and `RowsEnd`, which rest on fairness and
`ENABLED`. Every invariant and every action property of a passing run has a theorem.
`RECURSIVE` operators are out of the prover's reach, and so are the library's induction theorems;
what `Retrieval_proofs`, `Chunking_proofs` and `Services_proofs` do instead works for
recursive functions along a sequence whose turns are stated on their own (`Group`,
`ChunkNext`, `PackNext`). What TLC is still needed for in these parts is that the operators
are those of the code: the mutants are run there.

## 5. Known weaknesses that no run states

The models have these behaviours. They are described here, the gravest also under
"hazards" in `PROJECT.json`, and are not stated as properties.

- A task that fails outside `process_document` (for instance by its last retry on
  a busy lock) leaves the document PROCESSING until the user acts.
- `mark_task_retrying` and `mark_task_failed` are unconditional: a redelivered copy
  that finds the lock busy sets a task that is SUCCESS back to RETRYING, and
  the retry may run the document again (`test_repeated_worker_delivery_is_idempotent`
  delivers the copy after the first run, not during it).
- A task the reconciler has stopped as FAILURE runs all the same when its message
  is delivered later: `execute_document_processing_task` returns early for SUCCESS
  and cancelled tasks only.
- A cancellation of a migration that falls between a batch's read and its save is
  overwritten by RUNNING; one that falls behind the end of a run sets SUCCESS
  to CANCEL_REQUESTED, which blocks new runs. Two retries at once forget failures.
- Revoking or previewing an invitation saves over ACCEPTED; the member stays.
- A workspace addition decided before the user was removed leaves an outsider with
  a role in the workspace.
- A batch of a migration that is slower than its cache key runs beside another:
  `BatchesExclude` excludes it, `docs/vector-storage.md:49` does not. The second one's saves
  then lose failures that the first has counted (`CountersMatchCursor`), and a worker that has
  seen failures closes the space DEGRADED after one that has not: the run is SUCCESS
  and its space is not READY (`SuccessMeansReady`). What SUCCESS says of the copied
  vectors holds even so.
- Disabling an application in two writes, enabling its link on a status read before
  and testing a configuration that is edited meanwhile leave an open link
  without a publication, or a version with an untested model; `lost` names each in
  `OpenMeansPublished` and `PublishedWasTested`. A PATCH saved after a DELETE inserts the
  row again, of an application and of a model configuration.
- Two PATCHes of one configuration at once give one revision to two models:
  `AnswersArePinned`, `SameModel` and `StaleIsReported` excuse it. A knowledge base without a
  configuration compares documents of any model of the same dimension.
- Clients that leave before the first event, workers that die and refused writes
  leave runs and logs RUNNING; nothing looks for them. `RunsEnd` and `LogsEnd` name
  these cases.
- "Log out the other devices" marks the row of a login that crossed it, whose session
  lives on and is listed again only when its device asks; a logout that dies between
  its writes leaves a session that is not listed (`UsableIsListed`).
- The memory backend of the rate limit drops all counters when it has too many,
  those of the running window included (`WithinLimit`).
- Two uploads with one `Idempotency-Key` both find no task and make two documents
  (`views.py:338`): the key is unique per document only.
- Renaming an API key saves the whole row over one revoked since
  (`application_views.py:378`); two replacements of an application's knowledge bases may
  leave the union of both (`:230`).
- An import of a reviewed data set replaces the approved one before it validates it, and
  deletes it if it is invalid (`import_evaluation_review.py:66`).

## 6. Not modelled

- `Governance`: creating, renaming and closing organizations and workspaces, personal
  workspaces, audit events. Single-row writes and listings.
- `Applications`: API keys (creation, expiry and revocation of one flag), application
  details that are text, list views.
- `ChatStreams`: titles, visitor tokens, list views; what tools return.
- `Accounts`: e-mail addresses and their verification, registration, sending of mail.
- Chunking: extraction from PDF and DOCX (libraries), pages, hashes, previews.
- Evaluation: the scores of generated answers, the older format of data sets,
  `evaluate_retrieval`'s aggregation.
- Model clients and cryptography: external calls, whose outcomes are choices in
  `DocumentPipeline`, `ChatStreams` and `EmbeddingConfigs`; no state is kept.
- Observability and health (output only), frontend, deployment and load tests.

What is left to extend: API keys beside the public link in `Applications`; the citations
of answers in `EvaluationScores`.
