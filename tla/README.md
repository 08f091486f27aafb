# A verification development for Shiliu

Shiliu (`src/`) is a personal, locally run assistant for a collection of
videos: it syncs favourites, keeps transcripts, answers questions with
citations, and runs an assistant with a wiki and a memory. Everything durable
is in PostgreSQL and in a directory of immutable files. Most of what could go
wrong in it without a test noticing is in its coordination code: leases and
epochs, budgets and receipts, a graph that a user may cancel at any point, and
files that a database row refers to. This directory models that code in TLA+,
checks the models with TLC on small instances and proves the main safety
properties with TLAPS for every instance.

Paths below are relative to the package, `src/src/shiliu/`, unless they begin
with `src/`. `PROJECT.json` maps every definition to the lines it models.

## How to run it

    tlc -workers 2 -config Scheduler.cfg MCJobScheduler.tla
    tlapm JobSchedulerProofs.tla

Each `.cfg` names the MC module it belongs to in the table of runs below.

## 1. Inventory

The components, what each keeps, what it does, and what makes it correct.

| Component | State | Operations | Hard behaviour | What makes it correct | Here |
|---|---|---|---|---|---|
| Maintenance queue (`storage/scheduler.py`, queue part of `assistant/pg_store.py`, loops in `assistant/runtime.py`) | `assistant_jobs`, `scheduler_lanes` | enqueue, claim, heartbeat, stage, complete, fail, defer, recover, retry | stalls past a lease, crashes, late settlements, recovery that reads before it locks | one model job at a time; results only from the newest claim; bounded attempts; unknown outcomes stay blocked; the queue moves on | `JobScheduler`, `ModelLane` |
| Model budget (`storage/budget.py`; callers in `runtime.py`, `wiki.py`, `memory_extraction.py`) | dispatch receipts, day counters, batch counter | reserve, settle, release; foreground thread with late callback; background call | a coroutine that leaves its thread, late answers, overlapping handlers, day change | limits hold for what is *sent*; counters agree with receipts; nothing sent twice; late usage is billed | `ModelDispatch` |
| Artifact store (`storage/artifacts.py`, `storage/video_artifacts.py`) | files by hash, `artifact_objects`, `artifact_versions`, `artifact_heads`, a guard row | prepare, publish, batch commit with retries, gc | gc against publication, a session lost between check and unlink, crash between unlink and row | no version without its file; only garbage goes; publication is atomic and permanent | `ArtifactStore`, `Archive` |
| Assistant runs (`assistant/pg_store.py`, `assistant/runtime.py`, `storage/fences.py`, `assistant/tools.py`) | `assistant_runs` with epoch, status and execution budget, messages, tool receipts | create, cancel, request finish, resume, recover; graph nodes recover, model, tools, final | the user acts between any two transactions of the graph; two processes at one run; reads left behind | one answer; closed runs stay closed; a stopped run is still; nothing after the final request; receipts before effects | `AssistantRun` |
| Retrieval projection (`retrieval/coordinator.py`, `assistant/wiki_jobs.py`) | `retrieval_projection_tasks`, index units | recover, claim, heartbeat, snapshot, publish, fail | source changes during a build; leases; five attempts; workers with and without an embedding model | what a search may find is what the video says now; a completed task leaves nothing undone; every intent settles | `Projection` |
| Search and ranking (`retrieval/*`) | reads the projection | lexical and dense search, fusion | none durable | ranks, pure functions | no |
| Collection sync (`sync.py`, `db.py`, `storage/collection_leases.py`) | sources, videos, memberships, leases, cursor | sync, drain history, claim and release | lease renewal threads, partial scans, process lock | only a full scan removes; a late worker publishes nothing | no |
| Video pipeline (`pipeline.py`, `asr.py`) | stages, transcription jobs | fetch, transcribe, refine, publish | external tasks over restarts | a task is submitted once, stages are fenced | no |
| Research (`research/*`, `storage/fences.py`) | tasks, attempts, side effects, command receipts | claim, begin, settle, recover, commands | owner epochs, dispatched effects over restarts, controls of a person between any two transactions | a request leaves once; receipts tell what happened; a cancel sticks; the shared budget holds | `ResearchTask` (partly) |
| Taxonomy (`taxonomy/*`) | runs, stages, and on disk attempts with leases, responses and an accepted pointer | run and resume a stage, provider single flight, JSON repair | file leases over crashes, several processes that settle one response | a request of an attempt leaves once; a response that is accepted is valid; a completed stage has one | a unit of a stage in `SingleFlight` |
| Wiki and memory services (`assistant/wiki.py`, `assistant/memory*.py`) | pages with versions and redirects, blocks and tombstones, source patches, merge proposals, memories | edit, delete, restore, note, save, publish, review, merge, revert, archive; correct, forget, undo | patches and merges reviewed while the page or its source moves, deletions that travel through merges and returns | what was deleted stays deleted; locked text stays; redirects lead to a page; a patch is only for its version | pages in `WikiPages`; model calls in `ModelDispatch` |
| Fast and Deep questions (`ask/*`), evidence (`evidence/*`) | runs, results | ask, stream, validate citations | shutdown while a run is owned | citations refer to stored versions | no |
| Web, application, command line (`web.py`, `app.py`, `cli.py`, `launchd.py`) | none of their own | forward and compose | start and stop | — | start, stop, crash only |
| PostgreSQL access (`storage/postgres.py`) | pool, timeouts | transactions | lost sessions, lock timeouts | — | assumed, lost sessions modelled |
| Migration, evaluation, backfill, exports | files, one-off tables | offline, one operator | resumption of a harvest | — | no; the backfill's hold on queue rows is modelled |

How they interact. The web layer creates and steers *assistant runs*; a
foreground loop claims them and takes them through the graph. The graph pays
for each model call through the *budget* and calls tools, which read the
projection or write wiki and memory. Finished runs enqueue extraction and
integration work in the *maintenance queue*; its handlers pay through the same
budget, in the other lane, and publish what they made as *artifacts* and rows.
Publication queues *projection* tasks, whose units search reads. A *research
task* has budgets, receipts and owners of its own. All of it shares one
database, row locks taken in a fixed order, and the clock of the database.

`PROJECT.json` lists 40 hazards at their lines, each with the properties that
would notice it.

## 2. Plan

Done, in this order:

1. `JobScheduler` with the abstract `ModelLane`, proofs.
2. `ModelDispatch` with the abstract `ProviderCalls`, proofs.
3. `ArtifactStore` with the abstract `Archive`, proofs.
4. `AssistantRun`, proofs.
5. `Projection`, proofs.
6. `ResearchTask`, which implements `ProviderCalls` too, proofs.
7. `WikiPages`, proofs.
8. `SingleFlight`, the third one that does, proofs.

To come:

9. `CollectionSync.tla`: leases (claim, renewing thread, `check_lease`,
   release), full scans that decide removal, the process lock.
10. Additions to the present modules: the extraction worker's own recovery in
    `JobScheduler`; `wiki_jobs.py` as the second owner of the table of
    `Projection`; the outer loop of research; in `SingleFlight` a second unit
    and the quality retry that resets stages; larger bounds for `AssistantRun`
    on a reduced graph (a shutdown, a continuation and a second process in one
    behaviour); the uncertain outcome of an explicit memory save; in `WikiPages`
    dependencies on memories, equivalent snapshots and the rebinding to them.
11. Compositions: `AssistantRun` with the foreground half of `ModelDispatch`,
    `JobScheduler` with its background half, instead of the epochs each of them
    now assumes of the other.

Proof plan: for each module type correctness, each safety invariant and each
action property of its runs, and the refinement where there is an abstract
module. Recursion is avoided in all of them, so that tlapm's SMT backend stays
usable.

## 3. Modules

A definition that is named after another one with a suffix, and is used
nowhere, is a *mutant*: the slip of the code that a property must notice
(`LaneFreeEarly` of `LaneFree`). `PROJECT.json` lists which property each one
breaks.

### JobScheduler, ModelLane

One job is a row: `status`, `owner`, `epoch`, `attempt`, `code`, `lease`,
`wait` (`not_before`) and `staged` (the epoch that wrote `proposal_json`). The
lane is `laneJob`, `laneEpoch`, `laneLease`. A process is `down`, `recovering`
or `up` and remembers in `held` and `heldEpoch` the claim its handler works on.

* `ClaimLocalJob`, `ClaimModelJob` and `ClaimBackfillJob` are `claim_job` and
  `claim_backfill_job`: local work first and without the lane, then the first
  due model row in the order of kind and creation, if the lane is free or its
  lease has run out.
* `Heartbeat`, `Stage`, `Complete`, `Fail`, `Defer` share `JobGuard`, which is
  `guard_job`: status, owner, epoch, lease and the lane's row.
* `StartupScan` and `StartupRecover` are two steps because
  `recover_expired_jobs` classifies rows it has read without a lock and
  `recover_job` locks and looks again.
* `RetryJob` is the user's explicit retry, `Crash` and `SettlementOutage` the
  faults.

Abstractions. Time stamps are countdowns: `Tick` lets all of them run down
together, which keeps their order without a growing clock. The owner is the
process; the code uses a fresh identifier per claim, which makes its guard
stronger than the model's, where only the epoch tells two claims of one process
apart. The idle and budget gates are the choice of a poll to claim local work
only. Payloads are left out.

`ModelLane` is what the lane promises: at most one piece of work is active and
work is published once, by the active one. `Lane` maps rows and leases to it;
a lease that runs out is a release.

### ModelDispatch, ProviderCalls

The ledger is `receipt`, `usage` and `day` per dispatch and `used`,
`responses`, `unknowns`, `cost` per day and lane; `Reserved`, `Settled` and
`Released` are `reserve_dispatch`, `settle_dispatch` and `release_dispatch`.
Two protocols use it:

* a foreground call (`_wait_for_model`): a coroutine (`caller`) and an executor
  thread (`thread`) that share only the flag that the request was dispatched.
  `Leave` is the coroutine that goes away, `SettleLate` the callback it leaves
  behind, `Cancelled` the stop of the service, after which nobody settles.
* a background call (`generate_json` of the budgeted provider): `Precheck` and
  `ReserveBackground` are two transactions for memory extraction, one for the
  others; the send is outside of both, and the `finally` block settles as
  unknown. `Claim` raises the epoch of a job at any moment: it stands for any
  claim that the queue may make.

Abstractions. Usage is one number, `cost` its aggregate in the row of the day;
`Billed` is the set of its units, so that the sum is a cardinality. Callers always reserve one request; limits do not
change, so `budget_policy_mismatch` does not occur; outages of the database inside a
foreground call are left out; there is one batch.

`ProviderCalls` is what a durable record of model calls promises to whoever pays:
a request leaves at most once and never after something was recorded of its call,
an answer is recorded of a request that left and stays, an unknown outcome may
still get its answer, and a withdrawn call has cost nothing. The three parts of
the system that keep such a record share no code; each maps its own rows or files
to it (`CallState`, `Paid`):

| Abstract state | `ModelDispatch` | `ResearchTask` | `SingleFlight` |
|---|---|---|---|
| a call | a dispatch id | an operation | a request kind of an attempt |
| open | no receipt, or reserved | no receipt | neither response nor a closed lease |
| answered | settled with its usage | succeeded, or failed after it was sent | a response in the ledger |
| unknown | unknown; a late answer may still settle it | unknown; stays so | lease failed or abandoned; a response may still be persisted |
| withdrawn | released | rejected by the budget, or failed unsent | - |

### ArtifactStore, Archive

`file` maps each content to the identity of its file, which stands for inode,
size and times; `objects`, `versions` and `head` are the three tables and
`guard` is the row of `workspace_guards`. A publisher writes (`Write`) and
verifies (`Describe`) each of its files under the file lock, then begins a
transaction (`Begin`), inserts each entry after `Recheck` and commits; `Stale`
retries, `Conflict`, `Refused` and `LockTimeout` end it. A collector lists
files (`Sweep`), examines each in its own transaction (`Examine`, `Keep`,
`Doom`), unlinks (`Unlink`) and deletes the row (`DeleteRow`). The unlink needs
no session (`HasSession`); that is why it is a step of its own. `strayed` is a
history variable: the contents whose file a collector took after its session had
ended (`Strays`). No guard reads it.

Abstractions. Files are not corrupted and keys are well formed; a dry run of gc
and unsafe paths are left out; the listing is one step; a batch has one entry
per key; a commit whose acknowledgement is lost is left out.

`Archive` is the promise to publishers: a batch becomes readable whole, a
version keeps its content, heads move to what was published last. Republishing
an old version moves the head back; the code does so by design and the
abstract module allows it. `Kept` maps the store to it: a version shows what its
file holds, and a version whose file has strayed counts as kept. The archive thus
forgives that one loss, which is a finding below, and no other.

Observation: `Vanished`, a file that gc unlinks while `prepare` verifies it,
ends the publication on its first attempt, because `publish_bytes` and `commit`
call `prepare` outside of the `try` that counts attempts. The docstring of
`publish_bytes` (`storage/artifacts.py:362`) says "Retry only
preparation/publication, exactly three total attempts". The model follows the
code.

### AssistantRun

`run[r]` is the row of a run with what belongs to it: status, epoch, the
budget's counters, the batch of the last tool message, receipts, result
messages, committed effects and final messages. `ex[x]` is a process's place in
the graph with what it remembers: the epoch the loop claimed (`claimed`), the
one its scope was entered with (`mine`), the one the running tool entered
(`guard`). The three differ in the code, and the fences use different ones.

Each transaction of the store is an action, and its guard is what the
transaction checks under its locks: `Completable` is `_guard_run_completion`,
`Operable` is `guard_tool_operation`. What the graph merely *reads* before it
goes on (`Current`, `Job(x).finishing`) is true at that step and may be false at
the next. `Raise` is an exception that ends in the loop's `fail_run`, with the
claimed epoch; `Settle` is a `fail_run` or `pause_run` with the graph's epoch;
`Stop` leaves the run as it is. `Shutdown` recovers runs while the loop is still
in its graph, as `stop` does; `Crash` removes a process with its reads.

Abstractions. One thread; the bootstrap search, the making and compaction of the
working context (their failures are kept, in `FailTurn` and `NotCompleted`),
the reuse of identical reads and the checks for a turn without progress are left
out; running out of tokens may happen at any dispatch; step counts and the
counts in receipts are left out; a memory save with an uncertain outcome is not
distinguished from an error.

### Projection

There is one video: rows of different videos have nothing in common. `row` is
its row of `retrieval_projection_tasks` (generation, status, attempts, epoch,
lease and the three parts of the payload that the code looks at), `index` and
`vectors` are its units and their embeddings, and a worker remembers its claim
as the row was then and the snapshot it built from.

* `Change`, `Remove` and `Retarget` are the transactions that leave an intent
  (`_touch` in `db.py`, `delete_video`, a rebuild of the dense index);
  `Reorder` is `move_source`, which changes the state a snapshot reads and
  leaves none.
* `Recover`, `Claim`, `Expire`, `Build`, `Publish`, `Stale` and `Fail` are the
  coordinator's; `Holds` is `_lock_claim`, `Unchanged` the fingerprint.
  `Abandon` is a process that dies, or whose `fail` meets the error too.

Abstractions. What a video says is a value, and units hold that value; building
and encoding are one step that may fail to encode; `not_before` only delays and
is left out. `wiki_jobs.py`, which claims rows of the same table for wiki pages,
is left out.

### ResearchTask

`task[t]` is the row of a task with its latest attempt and checkpoint;
`effect`, `action` and `receipt` are the rows of a provider operation, `sent`
counts the requests that left, `run[r]` is what a process is doing. Every
transaction locks the row of the task first, so a transaction is a step.

* `Claim`, `Reenter`, `Recover`, `TakeOver`, `Expire` are the owner's lease and
  `recover_in_flight`; `Crash` and `Restart` the faults.
* `StartAttempt`, `Retry`, `InnerStep`, `Prepared`, `BuildContext` lead to the
  synthesis.
* A provider call is `Reserve` (or `ReuseReservation`, `RejectBudget`), `Start`,
  `Send` and one of `Finish`, `RejectIdentity`, `MarkUnknown`: the request is
  outside of every transaction.
* `Finalize`, `Ingest`, `Complete`, `CompleteIngested`, `CloseFailure` end it.
* `Interrupt`, `Cancel`, `Resume`, `Resolve` are what a person does, between any
  two of the steps above.

Abstractions. `state_version` is compared with what a caller read and nothing
else, so a process keeps whether its version is still `fresh`; of the epoch of
an effect only matters whether it is the task's, so `bound` is the set of those
that are. The inner loop is a number of checkpoints. Inputs from a person to a
pending decision (`create_input`, `decide_input`), derived tasks, revisions of
the goal, deterministic side effects, the kernel's own resolution of an unknown
effect, the durable stop of the inner loop, active time and scheduling metadata
are left out.

### WikiPages

`past[p]` is the history of a page: for every version what the command was, the
blocks it left and the pages redirected to this one. The last entry is the page
itself, the others are `wiki_changes`, from which a revert reads. `status` and
`into` are the page's row and its redirect; `offers` are source patches held for
review, `held` merges held because locked texts disagree; `cur` is the snapshot
revision the head of the video names.

* `Edit`, `Delete`, `Restore`, `Note`, `Archive`, `Reopen` are the owner's
  commands on one page, `Save` a discussion that is saved, with or without a
  plan.
* `Publish`, `Propose`, `Accept`, `Refuse` are compiled source material,
  published with authority or by way of a patch under review. `Barred` is
  `wiki_deleted_content_conflict`, the test for what was deleted.
* `Merge`, `Hold`, `AcceptHeld`, `RefuseHeld` merge a page into another one:
  `Carried` takes its tombstones along, `Copied` what it shows.
* `Revert` returns to an older version. `Independent` is what was decided since
  and stays; pages that had been merged since come back (`RestoredSource`). The
  blocks of the older version are kept by identity, so one of several that share
  one is lost (`OnePerId`, `Twinned`; see the observations).
* `SourceMoves` is a capture of the video with other contents, at any moment.

Abstractions. Each command is one transaction that compares the version it was
issued for, so a stale command is no step; commands are made anew from the
present page at every moment instead. Random identities are the number of the
command that made them. All sourced blocks rest on one video. Command receipts,
dependencies on memories, scope, equivalent snapshots of a revision and the
rebinding to them, the association of further sources, saves and patches with
several blocks, and the order of blocks are left out. So is
`revise_derived_blocks` (`assistant/wiki.py:3831`), which may rewrite a locked
discussion block; no route of the API and no tool of the assistant reaches it.

### SingleFlight

One unit of a model stage of a taxonomy run (`_model_stage` of
`taxonomy/workflow.py`) and the processes that run or resume it. `row` is its
row of `taxonomy_stage_runs`; `audit`, `invalidated` and `repairRaw` are the
files of each attempt's directory that the audited caller writes
(`taxonomy/model_calls.py`); `lease`, `takenOver`, `ledger` and `accepted` are
those of `taxonomy/provider_single_flight.py`, for the primary request and for
the JSON repair; `asked` counts the requests that left. `runner[r]` is the place
of a process and what it has read.

* `Look`, `start_stage`, `Locate` are the way to a directory, whose number comes
  from a first read of the row, from a second one, or from the list of
  directories. `force_new_attempt` and `Relocate` are the one new attempt a
  process may begin. `complete_stage`, `fail_stage`, `Report` and
  `record_failure` settle the row.
* `Make`, `Prepare`, `_resume`, `Record`, `Judge`, `_repair` and `Close` are the
  audited call, its resumption and its repair.
* `acquire`, `Examine`, `TakeOver`, `Abandon` and `Written` acquire a lease: by
  creating the file, or by declaring the attempt of a dead owner abandoned. `Ask`
  to `MarkPersisted` are `invoke`, `Point` to `MarkCompleted` are `accept`.
* `Crash` is a process that dies; its leases have the owner `Nobody`. A process
  that ends in another way leaves its leases so too.

There is no lock between the processes. A file that must not exist yet is
created empty and written after, so it may be read torn (`"torn"`), and an
expiry is not modelled by time: `Examine` may find a lease expired whenever it
reads it, because its owner may have slept, or may wake up after.

Abstractions. Processes run on one host and process numbers are not used again
while a lease names them. The prompt is the same in each run, files are not
damaged, validation is a function of the response, and the heartbeat, which only
moves the expiry, is left out. Two writes of one process between which no other
process reads either are one step. Other stages and units, `reset_stages`,
reused stages and the artifact that `complete_stage` publishes are left out.
Writing an audit is atomic here; in the code all writers of one file share the
name of its temporary (`_write_json`, `model_calls.py:568`), so that two of them can
make each other fail. A request that fails with another exception than a
`PipelineError` (`provider_single_flight.py:613`) skips the first of the two places
that fail the stage and goes on to the second (`workflow.py:2216`); here it takes the
path of a `PipelineError`. `repairRaw` only grows and stands for a repair that was
asked for here; the code also names the raw response of a repair it finds in the
ledger (`model_calls.py:466`), and may replace such an audit (line 524).

## 4. Runs

States are distinct states; times are with two workers on a small machine.

| Run (`.cfg`) | Module | Instance | Properties | States |
|---|---|---|---|---|
| `Scheduler` | `MCJobScheduler` | two processes, leases of 2, two attempts, fair loops; one model job under any two crashes, outages, deferrals or explicit retries, or two model jobs, one of them under a backfill hold, under one such event; an index job that joins when the first is settled | `OneLiveModelJob`, `NewestClaimCommits`, `AutomaticAttempts`, `UnknownStaysBlocked`, `ImplementsModelLane`, `WaitingJobsAreClaimed` | 0.55 M, 180 s |
| `Dispatch` | `MCModelDispatch` | three foreground calls and one request a day, or an integration, an extraction and a windowed job with two requests each, a batch of 2 and a day of 2; two processes, two days; fair threads | `LedgerAgrees`, `SendsWithinDay`, `SendsWithinBatch`, `SentOnce`, `ImplementsProviderCalls`, `AnswersAreBilled` | 0.43 M, 170 s |
| `ArtifactPublish` | `MCArtifactStore` | two publishers that share a file and contend for a version, two attempts each; two collectors, or one and a crash or a lost session of any process; after the last publication any fault; fair processes | `OnlyStraysLoseFiles`, `OnlyGarbageUnlinked`, `ImplementsArchive`, `EveryPublisherEnds` | 0.87 M, 210 s |
| `ArtifactSessionLoss` | `MCArtifactStore` | the same publishers, one collector that may lose its session | violates `NoDangling` | - |
| `AssistantRun` | `MCAssistantRun` | two runs, the first answered without tools, the second with a writing and a reading call; two processes; one cancellation, finish, continuation, shutdown or crash | `NewestRunOnly`, `AnsweredOnce`, `BudgetKept`, `ReceiptsLead`, `ClosedForGood`, `StoppedIsStill`, `FinishStopsWork` | 2.1 M, 80 s |
| `AssistantAbandoned` | `MCAssistantRun` | one run, one process | violates `FinishAttended` | - |
| `AssistantReceipt` | `MCAssistantRun` | one run, one process | violates `EffectHasReceipt` | - |
| `Projection` | `MCProjection` | the maintenance loop, with an embedding model, and a worker without one; two contents; any two intents or reorderings; fair workers | `SearchableIsCurrent`, `CompletedIsIndexed`, `IntentsSettle` | 1.0 M, 55 s |
| `ResearchTask` | `MCResearchTask` | one task, two processes, a second call or a second attempt; any number of crashes, expiries and controls | `ImplementsProviderCalls`, `ReceiptTellsOutcome`, `EnvelopeHolds`, `AnswerIsSettled`, `CancelSticks` | 1.7 M, 170 s |
| `WikiPages` | `MCWikiPages` | one page with two revisions of its video, its patches under review, or two pages that merge and part, in at most six commands; one page merged into another three times, in fourteen | `PendingIsCurrent`, `RedirectsLead`, `LiveIdsDistinct`, `DeletedStaysDeleted`, `ManualTextSurvives`, `MergeLosesNothing` | 0.09 M, 150 s |
| `WikiAccepted` | `MCWikiPages` | one page, one revision, five commands | violates `AcceptedTextIsPublished` | - |
| `SingleFlight` | `MCSingleFlight` | one unit, two processes that run it again and again, two attempts, one crash | `ImplementsProviderCalls`, `AcceptedIsSound`, `CompletedIsAnswered` | 3.5 M, 120 s |

The runs check no type invariants: the theorems of section 5 prove them.

### What the bounds mean

* `JobScheduler`. Two processes are the least with which one can stall while
  the other claims. A lease of 2 lets a heartbeat come in time, late and too late.
  `MaxEvents` bounds crashes, outages, deferrals and explicit retries together;
  with 2 there is a crash after a retry and a deferral after a crash. The
  constraint `OneDimension` spends jobs and events from one purse: one job meets
  two events, two meet one, and the index job comes in where the first job is
  settled, so that the lane is held or free and local work passes it by. It is left by
  `EnqueueJob` and by events only, none of which is fair, so it cuts off no fair
  end of a behaviour. `MaxAttempts` is 2 for the code's 3: a first, a last.
  Processes are interchangeable, but the run has a liveness property and uses no
  symmetry. The theorems have none of these bounds.
* `ModelDispatch`. Limits of one request a day with three calls make every
  reservation contend; two days make a receipt of yesterday meet the counters
  of today. Two claims of each job make two handlers overlap. A background job
  has two requests, as pages and memories change between claims and the
  dispatch identity is derived from the request. The two lanes share nothing
  but the ledger's table and the date, and the constraint `OneLane` has only one
  of them at work in a behaviour, and a second window of the windowed job only where the
  memory extraction is not claimed. The batch of 2 counts over both days: the day
  admits two requests and the next day a third, which only the batch refuses. Fairness
  is stated for steps of foreground calls only, none of which leaves the constraint,
  so it cuts off no fair end of a behaviour.
* `ArtifactStore`. `MCBatch` has a shared file and one conflicting version, the
  two ways in which publishers meet. Five files are enough for a file to be
  written, collected and written again in every attempt of both publishers, so
  that the bound itself blocks nobody. While somebody publishes, the
  constraint `OneDimension` keeps the second collector out of behaviours with a
  fault; the fault may be the lost session of the only one, between its check and
  its unlink. Afterwards a collector may lose its session and find its file unlinked
  by the other. Two collectors and a lost session while somebody publishes are
  left to the theorems, which have no bound. Neither a fault nor a sweep is fair, so it cuts off no fair end of a
  behaviour.
  Two attempts stand for the three of the code: a first, a last.
* `AssistantRun`. `MaxEvents` is 1: a behaviour has one cancellation, finish,
  continuation, shutdown or crash, placed at every point of the graph. The
  start of the second process beside it recovers runs too, so that two
  executions of one run overlap. `ModelLimit` 2 and `ToolLimit` 1 leave one
  ordinary and one final request per segment: a second model turn happens only
  in a new segment or after a restart of the final node. A continuation and a
  finish request in one behaviour are beyond the bound; the theorems have no
  bound. Processes are interchangeable and nothing here is a liveness property,
  hence the symmetry.
* `Projection`. Two intents let a change fall between snapshot and publication
  and another one between a recovery and the next claim; two attempts stand for
  the five of the code. Only the number of intents is bounded, so the generation
  is too, and the epoch with it: an intent gives back the attempts.
* `ResearchTask`. One task with two calls has a call that succeeded beside one
  in doubt; two attempts have effects of the last attempt beside those of this
  one. `OneMore` leaves out both together while budget remains, which multiplies
  the states and not the cases; `CaseCap` of 2 is met by either. Crashes,
  expiries and controls are not counted. Tasks share only the run budget, which
  the theorem `EnvelopesHold` covers for any number of them.
* `WikiPages`. `Bounded` has four kinds of behaviour. In three of them every owner's
  command occurs at most once: one page under all its commands, with two revisions
  (`Single`, up to five commands); one page and its patches under review (`Review`, four
  commands and patches together); two pages that are merged and parted (`Merging`, six
  commands on one revision). A deletion, the merge that carries it and the return to
  before it need four; the fifth and sixth put a publication and an edit among them. The
  fourth (`Again`) is the shortest way found to lose a deletion to a repeated alias,
  fourteen commands in a fixed order with the choice of blocks and texts open: without
  its exception, `DeletedStaysDeleted` fails in it. One heading is the case of conflict.
  Texts, pages and revisions are interchangeable, and no property is one of liveness.
  The theorems have none of these bounds.
* `SingleFlight`. The second attempt is what an abandoned, failed or invalid one
  leads to; a third adds none but its number. One death in the middle of anything
  meets a second process at any place, and processes also end by themselves with
  their leases unfinished. Processes are interchangeable. No liveness is stated: a
  file that is torn for ever leaves a unit stuck (observation below).

`CHECK_DEADLOCK FALSE` is set where the system may really stop: a queue whose
jobs are all completed, publishers that are done and collectors that have used
up their runs, a thread whose runs are closed, an index that is up to date, a
task that is terminal, a wiki whose commands are used up, a stage that completed
or failed for good. Deadlock is checked in `Dispatch`, where a process may always
crash.

### Fairness

* `JobScheduler`: `Tick`, and for each process `Loop`: claiming when it has no
  job, settling or dropping the one it has, getting through its start. The loops poll for as long as
  the process is up; every provider call and database wait has a timeout; that
  a poll is admitted by the idle and budget gates is an assumption of
  `WaitingJobsAreClaimed`. No crash, start or explicit retry is fair, and the
  property asks for a process that is up for ever from some point on.
* `ModelDispatch`: the executor thread runs, the provider call returns, the
  event loop runs the coroutine and its callbacks. `AnswersAreBilled` excepts
  calls that were lost in a crash or with the event loop at a stop.
* `ArtifactStore`: strong fairness for publishers, because the guard is a row
  lock for which PostgreSQL queues the waiters: a publisher that waits again
  and again gets it. Collectors are weakly fair once they are in a transaction.
* `Projection`: the maintenance loop recovers and claims for as long as the
  application runs, a run that began ends in one of its ways, and a lease that
  nobody renews runs out (`Lapse`). Nothing is assumed of the other workers'
  polls, and nothing says that a build succeeds: an intent may end as failed.

### Findings

1. `AssistantAbandoned`. A finish request that arrives after the model node's
   last look at the run and before `dispatch_model` closes its fence; the graph
   takes the refusal for a cancellation and ends, and the run stays running with
   no process at it.
2. `AssistantReceipt`. A cancellation or finish request while a writing tool
   executes fences `finish_tool_call`: the effect is committed, its receipt says
   running. A test of this order expects a completed receipt.
3. `WikiAccepted`. The identity generated for compiled content depends on the
   topic, the position and the revisions of its sources only
   (`assistant/wiki.py:9130`). `_publish_source_patch` makes another one when a
   tombstone has it ("content needs its own identity", line 2872) but leaves the
   block out when a live block has it (line 2883). A page that is compiled a
   second time at one revision thus gets a patch that is reviewed, accepted,
   recorded as published, and whose text is nowhere.
4. `ArtifactSessionLoss`. gc checks a file under the guard and unlinks it in the
   same transaction (`storage/artifacts.py:426`). If its session ends in between (an
   idle transaction is ended after 30 s, `storage/postgres.py:97`), the guard is
   free, a publisher commits a version of that file, and the unlink removes it,
   against the promise of `storage/artifacts.py:417` that every historical manifest
   retains its object. `OnlyStraysLoseFiles` is what holds instead, in a run and as a
   theorem: no version loses its row, and its file only in this way.

Smaller observations, made while reading and visible in the models:

* `claim_job` gives a poll that the idle gate refuses any due row of
  `LOCAL_KINDS`, which includes source checks; the comment of the background
  loop (`assistant/runtime.py:1201`) lets only index and purge cleanup pass.
* A research call that was dispatched, became unknown and was resolved by a
  person is charged to no budget any more (`research/provider_wiring.py:1917`);
  `EnvelopeHolds` excepts exactly these calls. Such an operation is never sent
  again, as its receipt remains.
* A finalized response followed by an interrupt and a resume has a checkpoint
  after it (`moved`), and no later run of the attempt can take it up.
* `_reserve` (`research/provider_wiring.py:912`) returns a reservation of an
  earlier run before it looks for unresolved effects, and `_start` does not look.
  After a takeover that rebinds the effects of two operations, one may be
  dispatched while the other is in flight; line 936 says that an unresolved
  effect blocks every new dispatch.
* `claim_task_root` of `storage/fences.py` has no caller.
* `move_source` (`db.py:414`) changes the order of folders that a snapshot reads
  and leaves no intent. Searchable units may therefore show the old order until
  the next change; `SearchableIsCurrent` speaks of the rest. `create_favorite_source`
  (`db.py:342`) may rename a folder without an intent as well, but its callers refuse
  a folder they have or make a new one, so that only a source added in the web page
  while a sync of it is pending (`sync.py:139`) gets there; it is not modelled.
* In `assistant/wiki.py`: an edit is recorded with the text it leaves as its
  `before` (the shallow copy at line 3758 shares the block), so that a return to
  an older version (line 7654) does not see it as a decision of its own and later
  manual text is lost; `ManualTextSurvives` excepts returns. A tombstone that a
  merge carries loses its dependency rows, and its block stays hidden when it is
  restored. What several tombstones cover comes back from an undone merge with
  the note that it had been locked, against the docstring at line 3429 that calls
  deletion reversible (`CoveredTwice`). A block that was deleted and restored in
  a source keeps the version of that decision through the merge, and undoing the
  merge may keep it in the target, unlike in the case of
  `src/tests/test_assistant_s2e.py:205`. Undoing a save that released a tombstone
  leaves it released.
* There, too: the alias of a tombstone is made from the page it comes from and its
  identity (line 7144), and nobody looks whether the target has that alias. A page
  that is merged, parted and merged again into the same page can give it two
  blocks of one identity. A return to a version makes a dictionary of its blocks
  by identity (lines 7672 to 7677) and drops all but the last, so a deletion may
  be lost (`Twinned`; without that exception `DeletedStaysDeleted` fails in
  `Again`). And if one of two such blocks is restored and its page merged on, the
  merge may find the other one's tombstone in its place (line 7154) and leave the
  text out: `MergeLosesNothing` speaks of the blocks whose identity no carried
  tombstone has.
* In `taxonomy/`: a process that only finds an attempt busy, or reads a lease
  torn, fails the stage it saw in progress in `list_stages` in a later
  transaction (`workflow.py:2216`) without a look at its status
  (`run_repository.py:373`). A stage completed in between becomes `retry_wait`
  or `failed`, against
  `src/docs/specs/2026-07-16-shiliu-v3-open-taxonomy.md:681`, by which a completed
  stage is not run again. What is taken for the current stage there is also the
  first unit in progress, not the caller's. `CompletedIsAnswered` speaks of rows
  that are completed and does not notice the reopening; no property does.
* There, too: a process that reads the row after another one's forced attempt, and
  lists the directories before that attempt's exists, takes the old directory with
  the new number; if it is refused there it begins a third attempt, and two
  requests for one unit are in flight.
* There, too: `acquire` may abandon an attempt whose response was persisted after
  it had read the lease (line 474). And a process that dies between the directory
  and its `audit.json`, between the creation and the writing of a lease or of
  the accepted pointer, or between the takeover file and the lease leaves a unit
  that every later run finds busy or broken. A repair that `repair-audit.json`
  names is taken without an accepted pointer (`model_calls.py:424`).

## 5. Theorems

For every value of the constants that satisfies the named assumptions of the
module (finite identifier sets in `ModelDispatch`, positive limits, batches with
one entry per key, ...). Nothing is assumed about bounds such as `MaxEvents`
but that they are numbers, so the theorems hold with any number of faults.

**JobSchedulerProofs.** `TypeCorrect`; `LaneIsExclusive`; `PublishedOnce`;
`AttemptsAreBounded`; `ProposalsSurvive`; `UnknownNeverReplayed`;
`SchedulerImplementsLane`. Exclusivity is not inductive: it says nothing of the
lane. `LaneCarriesLiveJob` adds that a live model job is the lane's job, with
the same epoch *and the same time left*; the second half is what keeps them
together when time passes, and it is what a heartbeat that renewed only one of
the two would break. `AttemptsLeft` says that a claimable row has an attempt
left, so that the claim may take it: deferral gives back, failure and recovery
block at the limit. `StagedByClaim` bounds a proposal's epoch by the row's. The
refinement shows that every step acquires, releases, publishes or leaves the
abstract lane alone; the expiry of a lease in `Tick` is a release.

**ModelDispatchProofs.** `LedgerTypeCorrect`; `BudgetIsKept`; `BatchIsKept`; `LedgerIsExact`;
`NothingSentTwice`; `DispatchesAreRecorded`; `OutcomesStay`. The invariant relates what is sent to what
is charged: counters count the charged receipts (`DayCounts`, `BatchCounts`, by
cardinalities), a foreground request can be sent only while its receipt is
charged (`ForegroundCall`), a background one only by the handler that reserved
it (`AskReserved`, `AsksDiffer`). One send per one-response job follows from
`OneReceipt`: two claims of a job have different epochs (`ClaimsDiffer`), and
whoever looked for a receipt and still owns the job finds that none has
appeared. For `LedgerIsExact` each settlement is shown to move one receipt between
the sets that `OutcomeCounts` counts and to add the units of its usage to
`Billed` (`CostCounts`): the late answer after a timeout takes the receipt out of
the unknown ones, keeps it among the responses, and adds units that were not
there, because an unknown receipt has none. The refinement needs that a receipt
has a usage exactly when it is settled (`Priced`), and that a thread or a handler
that may still send has a reserved receipt and has not sent (`ForegroundCall`,
`AskReserved`): a coroutine that leaves before the flag is set settles and
releases nothing.

**ArtifactStoreProofs.** `ArtifactTypes`; `VersionsKeepTheirFiles`;
`OnlyGarbageGoes`; `StoreIsArchive`. Nothing is assumed of sessions: any process
may lose its own at any moment. What makes `OnlyStraysLoseFiles` inductive: an entry
inserted by the holder of the guard has an admissible version, and its file unless the
content has strayed (`EntriesHold`), and what a collector has decided to unlink is
referenced by nobody for as long as its session lasts (`DoomedIsGarbage`). A file once
checked may be another collector's stray by the time it is unlinked, and a young one
put in its place; that is why `Condemned` has its exception, and `OnlyGarbageUnlinked`
the same one. `KeptIsCommitted` then makes the refinement mapping the table of versions.

**AssistantRunProofs.** `Types`; `ClosedRunsStayClosed`; `StoppedRunsAreStill`;
`FinishingStopsWork`; `FinalRequestIsLast`; `AnswersOnce`;
`OnlyTheNewestGoesOn`; `BudgetsAreKept`; `ReceiptsComeFirst`. `TypeInv` adds to
the types that a process in the graph has a run and one in a tool a call. The
module has nearly forty actions but only a few ways to change a row: `RowChanges`
proves once that each step changes each row by one of the kinds in `Change`,
every one with the fence it passed, and the theorems argue about these kinds
alone. `InHand` is what `ReceiptsLead` needs beyond them: a call between its
intent and its result message has the receipt, because no step takes one back
(`ReceiptsGrow`), whichever process executes it.

**ProjectionProofs.** `ProjectionTypes`; `SearchesAreCurrent`;
`CompletionsAreWhole`; `ReadinessIsTrue`. The three invariants are inductive
together with `Requested`: the index is never of a generation that nobody has
asked for yet, so an intent outdates it. The late publisher is the interesting
case: the fence says that the row still asks for the generation of its claim and
the fingerprint that the video says what the snapshot says, and nothing about
the worker itself needs to be known.

**ResearchTaskProofs.** `ResearchTypes`; `OperationsAreRecorded`; `OperationsAreSentOnce`;
`ReceiptsTellOutcomes`; `AnswersAreSettled`; `CancelsStick`;
`PausedAttemptsWait`; `EnvelopesHold`. The invariant has four parts. `TypeInv`
says which process has which fields. `LifeInv` follows an operation from its
reservation to its receipt and says that the process that dispatched it is the
only one: `Start` takes the effect out of `reserved`, and no step puts one back.
`TrustInv` says what a process may conclude from a fresh version and a live
lease, which is everything its guard does not read again. `TasksInv` ties a
complete checkpoint and an answer to settled effects, and a cancelled row to one
in doubt. The capped sum of `EnvelopeHolds` needs only that no step but `Reserve`
charges an operation. The refinement takes from `LifeInv` that an operation without
a receipt that nobody is in the middle of calling cannot be sent, and that the process that
settles one knows whether its request left.

**WikiPagesProofs.** `WikiTypes`; `PatchesWaitForTheirVersion`;
`MachinesLeaveLocks`; `MergedPagesLead`; `DeletionsLast`; `FreshAliasesSuffice`;
`LiveIdentitiesDiffer`; `MergesKeepWhatShows`. One relation, `Keeps`,
says what a change owes to the blocks of a page, and each command is shown to
satisfy it once. `RedirectsLead` is inductive as it is: a page that is merged was
active, so no redirect can close a cycle. `DeletedStaysDeleted` is not: a revert
reads versions of long ago. `HistoryInv` is what it needs of them. `Backward`: a
deletion that is older than a version is in that version too. `Forward`: while a
version can be returned to, what is deleted in it is deleted still or was decided
on since, and then `Independent` keeps that decision. Both except an identity that
two blocks of one version have; `FreshAliasesSuffice` says where such a pair comes
from: in behaviours whose merges only give aliases that are not in use there is
none (`Single`), and the first clause of `DeletedStaysDeleted` holds without its
exception.

`LiveIdsDistinct` needs to know which identities may still come. `IdsInv` says
that a number in an identity is that of an earlier command, in every recorded
version, since a return may bring each of them back. A new block, and a copy that a
merge renames, then has an identity that nobody has; generated ones, which do
recur, begin with a page and are added only where they are free. A block is
restored only if no live one has its identity. `MergeLosesNothing` follows from
the guard of the merge and the way a block finds its like (`SameThere`): a
released tombstone of the same text is the one case in which a block that showed
is hidden.

**SingleFlightProofs.** `SingleFlightTypes`; `AttemptsAreRecorded`; `RequestsLeaveOnce`;
`AcceptanceIsSound`; `CompletionsAreAnswered`. None of the three invariants is
inductive, as none mentions what a process has read. `Local` says what it may
rely on: a process between the creation of a lease and the persisted response
still finds the lease in the state it left (`Owner`), since others write it only
to abandon it, and only when its owner is dead (`Finder`); what it holds as the
answer is on disk (`Reads`), and what it accepts is valid there (`Accepts`).
`Sent` says that a lease in one of its first states stands for a request that has
not left. Responses never change, so what any process read once remains
true, however late it acts on it. For the refinement `Sent` also says that a process
that waits for or has received a response asked for it, so that a response is
never persisted of a request that did not leave, abandoned lease or not.

The step obligations speak of any number of processes and of any interleaving,
so two executions of the same run, which the bounded run shows in part, are
covered.

Some properties are proved and have no run of their own, because others of the
same runs say more: `ProposalsMoveForward`, `FinalIsLast`, `ReadyIsPublished`,
`PausedNeverDispatches`, and what follows from `ImplementsProviderCalls`:
`OutcomesAreFinal`, `OneCallPerAttempt` and, in `ResearchTask`, `SentOnce`.

### Model-checked only

Liveness: `WaitingJobsAreClaimed`, `AnswersAreBilled`, `EveryPublisherEnds` and
`IntentsSettle`, each under the fairness of section 4. Every other property of a
passing run is a theorem.

## 6. What is not modelled

The components without a module are in the table of section 1 and, with the
reason for each, in `PROJECT.json`. In short: search, ranking, tokenisation,
evidence and citation checks are functions of data; the web layer, the command
line and the bridges forward; migration, evaluation and exports are offline
tools of one operator. Collection leases are a stateful protocol, and next in
the plan. Of the taxonomy, the order of the stages, several units at once,
quality retries and the building of the taxonomy itself are not modelled. Of
the wiki, plans, scope, memory dependencies and the rebinding to equivalent
snapshots are not modelled.

What the models take for granted: PostgreSQL's row locks and transactions, one
database clock, a local file system whose rename and unlink are atomic, and that
a process that is told to stop is not trusted to do so at once.
