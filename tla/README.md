# A verification project for AgentFlow Studio

TLA+ models of the durable core of AgentFlow Studio's Runtime Service, the TLC
configurations that check them on small instances, and TLAPS proofs of what each of
the modelled components promises for any number of handlers, keys, requests, runs,
lanes, artifacts, clients and workers.  Every safety property that a passing run checks
is also a theorem.

## 1. The system

The Runtime Service (`apps/api`, FastAPI) keeps everything it knows in JSON files.
There is no database and no transaction over two files.  A file is replaced by
writing a temporary one, `fsync` and `os.replace`, and a handler that reads and
writes a file does so under an exclusive `flock` on a lock file beside it
(`agentflow/harness/json_io.py`).  Handlers run in a thread pool, and several
processes may serve one directory.  Clients retry with an idempotency key.

| Component | State | Operations | Interacts with |
|---|---|---|---|
| Episode aggregate store (`runtime_episode_domain_store.py`) | one snapshot per project: aggregate, version, receipts, ledger, outbox, projection | `load`, `save` | every route that changes the story, production control, saga |
| Episode command routes (`runtime_episode_command_routes.py`, `..._domain_routes.py`, `..._bootstrap.py`) | none beyond the request in hand | load, change, save | store |
| Production control ledger (`agentflow_studio/production_control`) | events, receipts, outbox, projection of mission, plan, runs | `execute`, `load` | routes, saga |
| Production control routes (`runtime_production_control.py`) | none | mission, plan, approve, twelve run actions, writeback | ledger and episode store |
| Creator production saga (`runtime_creator_production_saga.py`, `..._integration.py`) | envelopes and key index of one project | create, reconcile, overlay of the workspace | saga file, ledger, episode store |
| Submit idempotency (`runtime_submit_idempotency.py`) | a directory per request with ledger, response, dead letters | begin, complete, abort | generation routes, providers |
| Provider account pool (`model_gateway/provider_account_pool.py`) | slots in use, per process | reserve, release | providers |
| M6 preview runs (`runtime_m6_preview_runs.py`, `runtime_m6_script_plan_asset_bible.py`) | run file, candidate, confirmation, tombstones; set of submitted runs per process | create, submit, dispatch, succeed, fail, cancel, confirm, recover, prune | worker pool of one, production graph |
| Video dispatch and outbox (`runtime_video_admission.py`, `runtime_video_dispatch*.py`, `runtime_video_routes.py`) | admission manifest and archive of each lane, outbox, task state and safe manifest of each job | compile, reserve, record, approve, reject, new rounds; submit, poll | video provider, production graph |
| Adaptive canvas (`production/adaptive_canvas_v2.py`) | charge ledger, artifacts, run state, delivery manifest | reserve, start, submit, succeed, fail; make, resume, check, deliver | providers, media tools |
| Keyframe tasks (`runtime_keyframe_background.py`, `..._async.py`, `..._routes.py`, `runtime_keyframes.py`) | task state, safe manifest and job file of each job; thread pool of the service | submit, generate, poll | image provider, Codex queue |
| Codex queue (`model_gateway/codex_image_handoff.py`, `codex_image_worker*.py`) | a directory per job in `pending`, `running`, `completed` or `failed` | hand over, claim, execute, complete, fail, recover what went stale | worker processes, keyframe tasks |
| Lifecycle rules of the episode (`runtime_episode_*_service.py`) | none: functions on an aggregate | select, review, lock, freeze, undo | command routes |
| Production graph, golden trial, accounts | versioned JSON files | as above | as above |

The rest are request-local transformations of text and data (prompt, storyboard and
asset services, `agentflow/algorithms`, `knowledge`, `memory`), sequential media
pipelines, front ends and developer tools.

What is hard, and what must be right:

- **Episode store.** Handlers compute with no lock between load and save, die, and are
  retried; a project may be retired meanwhile; the reader rejects inconsistent files,
  so a bad save locks everyone out.  No acknowledged change may be lost, no key may
  apply twice, a retry must be told the same.
- **Production control.** Each route holds the control lock, but an action is up to
  six durable steps over two files.  Any of them may be the last one before a crash,
  and any other action may follow.  A run that has ended must rest,
  attempts contiguous, human requests neither dropped nor decided twice, candidates
  never reviewable without provenance.
- **Saga.** Three files, no transaction, truncated identities, and a creator who may
  act on the run and the shots at any time.  Requests must end; what is shown must be
  recorded; what is recorded must not be lost by a crash.
- **Submit idempotency.** A directory is the reservation.  Making it, filling it,
  completing and removing it are several steps each, most of them without a lock, and a
  retry may look between any two.  One owner at a time, one answer per request, an
  abandoned reservation must not be lost, and no provider call repeated.
- **Preview runs.** A run is known to the disk and to the process; a restart loses the
  second.  Recovery, cancellation, the worker and pruning meet on the same directory, and a
  directory is removed file by file.  No request may be planned twice, an end must stay an end,
  a plan must reach the graph at most once and only as a candidate, and whoever asks must be
  answered.
- **Video dispatch.** A paid call whose answer may be lost, four files without a transaction
  over them, commands on the lane while the call is under way, and a source that changes.
  One round, one dispatch; whatever may have been sent must be on record; what the
  graph shows must be what the ledger of that round says.
- **Adaptive canvas.** Paid calls by a process that may be killed anywhere and is started
  again.  The budget must hold over all starts, nothing may be paid for that is there, and what is
  delivered must be whole.
- **Keyframe tasks and Codex queue.** Nothing here takes a lock: two files written by the submission,
  a thread and every poll, and a directory that workers rename while polls look for it and other workers
  think its owner dead.  The generator must be called once, nobody may be told of images that are not
  there, and whoever keeps polling must be told of an end.
- **Account slots**, not modelled: see the hazard in `PROJECT.json` at its line.

## 2. Modules

| Module | Models |
|---|---|
| `EpisodeHistory` | what the store promises: a history that grows at its end |
| `EpisodeStore` | the store and the handlers around it; `ImplementsHistory` is the refinement |
| `EpisodeStoreProofs` | the inductive invariant and the theorems |
| `ProductionControl` | ledger, routes, and the two saves of a writeback |
| `ProductionControlProofs` | its inductive invariant and theorems |
| `CreatorSaga` | saga file, ledger, aggregate, and the creator's own actions |
| `CreatorSagaProofs` | its inductive invariant and theorems |
| `SubmitIdempotency` | one reservation directory and the handlers that meet in it |
| `SubmitIdempotencyProofs` | its inductive invariant and theorems |
| `PreviewPromise` | what a client of the preview runs may rely on |
| `PreviewRuns` | the run directories, handlers, worker, recovery, pruning and restarts; `Promised` is the refinement |
| `PreviewRunsProofs` | its inductive invariant and theorems, the refinement among them |
| `VideoDispatch` | lanes, rounds, submissions, outbox, polling and the provider |
| `VideoDispatchProofs` | its inductive invariant and theorems |
| `AdaptiveRun` | a production and its charge ledger, killed and started again |
| `AdaptiveRunProofs` | its inductive invariants and theorems |
| `CodexHandoff` | one job of the Codex queue and the workers that meet over it |
| `KeyframeTasks` | submission, thread and polls of a keyframe; extends `CodexHandoff`, its other provider |
| `KeyframeTasksProofs` | their inductive invariants and theorems |
| `MC...` | constants, symmetry and initial states for TLC |

### EpisodeStore

`snapshot` is the file, `handler[h]` the request a handler has in hand, `replies` the
successful answers that reached a client.  `Load` and the three `Save...` actions are
the code between taking and releasing the file lock, so each is one action; nothing
else of a handler touches shared state.  An aggregate is its version and the sequence
of facts its commands added: what a command adds is of no concern to the store, only
whose key it is and whether it retires the project.  A digest is kept as the value it
digests.  `Init` includes files written before the ledger existed, which
`_validate_ledger_and_outbox` accepts (all three of ledger, outbox, projection
missing).  The handler passes the *loaded* aggregate to `save` when its client's version
is outdated, so that `save` can find a receipt; `Load` does the same.

### ProductionControl

`version`, `receipts`, `plan` and `runs` are the ledger and its projection;
`candidates` and `shotsFresh` the part of the episode aggregate a writeback reads and
writes; `job` the request that holds the control lock.  A request is turned into
`Steps`, one per durable commit, and a `job` walks through them with the expected
version the client sent, plus one per command, exactly as `execute` in
`_execute_run_action` counts.  `Replay`, `Commit` and `Refuse` are the three ways
through `ProductionControlHarness.execute`: receipt first, then version, then the
reducer (`Legal`).  `Crash` and `Refuse` leave the steps before them committed.
`Slot` gives the suffix that a command adds to the key.  `Datum` is what a command's
payload contains that depends on the state when the request began: the attempt of a
retry or a writeback, the plan revision, an identity made from the version.

Left out: costs, digests and seals of the ledger, the content of missions and plans,
the read models, the authorization of commands (the routes always present the full
capability set).

### CreatorSaga

`stored` is the saga file, `job` the sending or reconciliation that holds the saga
lock with its copy of the file, `planned`, `runs` and `candidates` the ledger and the
aggregate as far as the saga is concerned, `shot` the version of the shots.
A phase is first changed in the job's copy (`Becomes`); a sender writes each one to the file before it
goes on (`Persist`), a reconciliation all of them at its end (`Finish`).
Errors leave the sender's envelope as persisted and mark a reconciled one failed
(`Fails`).  One error is neither: when a candidate is in the episode already,
`apply_creator_preview_episode_candidate` compares the reference it holds to its writeback, a model
object, with a dictionary.  They are never equal, so the branch for a candidate that was
already applied is dead, and the `StateConflictError` raised instead is caught by neither the reconciliation nor
the routes: the job ends, and nothing is written for any request (`EpisodeRaises`).
So a request that was cut off between the save of its candidate and the persisting of its phase stays where it is,
and holds up the reconciliation of the others, until its shots are revised (`LeftBehind`).  `RecordFact` is one command of
`record_creator_preview_control_writeback`; its facts are found by identities made from
the token of the key, not from the key: `tokenOf`, chosen at the start from the
parameter `TokenMaps`, says which requests share one.  `ActOnRun`
stands for the run-action routes, which need the control lock; it is the only
contact with `ProductionControl`, whose run states it coarsens to the ones completion
tells apart.

### SubmitIdempotency

One directory of a project, action and request id: `exists`, `files` (those
that matter for being there), and the contents of `ledger`, `response` and the
dead `letters`.  A response is known by the attempt and the payload that produced it, a
payload by its fingerprint.  `Begin` is the `mkdir`, the only atomic step that the code
relies on; `WriteFirstLedger` follows it without a lock.  After a `FileExistsError` the
handler takes `ledger.transaction.lock` -- which makes the directory and the file if
they are gone -- and what it then does is one action for the two answers (`AnswerReplay`,
`AnswerRefusal`), and three for a reclaim, which writes the dead letter and then the ledger
and may die between them (`StartReclaim`, `WriteLetter`, `WriteNextLedger`).
`WriteResponse` and `WriteCompleted` are the two writes of a completion.
`abort_submit_idempotency` is `shutil.rmtree`: it lists the directory (`StartAbort`), removes
what it listed (`Remove`, in any order), and the directory itself, which silently fails
when a file has been made meanwhile (`RemoveDir`).  `Lapse` is the passing of an
attempt's fifteen minutes.  `MayCrash` lets handlers end without completing or aborting,
by death or by an exception the route does not catch; that leaves the directory as it is.

`Prompt` is the assumption that an attempt ends before its lease does.  Nothing in the
code enforces it: a lease is not renewed, and `complete` and `abort` do not look whether the attempt
is still theirs.  All passing properties and theorems of this module are stated under it.

Left out: ledgers written by older versions, which have no lease but `updated_at`; the
fields of a ledger that only describe; that removing the lock file lets two handlers hold
it on different inodes (only an owner removes files, and under `Prompt` none of the
handlers that wait for the lock then writes anything).

### PreviewRuns

`file`, `candidate`, `receipt` are what the directory of a run holds (`run.json`,
`candidate.json`, `confirmation.json`), `tombstone` the index of pruned runs, `lock` the run's
file lock, `later` the order of their `finished_at`.  `thread` holds the request handlers and the
worker, `submitted` is `_SUBMITTED` and `queue` the executor's queue.  A step that takes the run's
lock, reads, writes one file and releases it is one action; confirmation writes three (graph,
receipt, run) and success two, and the lock is held between them.  `Transition` writes the phase
and then prunes other runs *with the lock still held* (`Lists`, `List`, `Prune`, `RemoveFile`, `Removed`,
`PruneEnds`), as `_transition` does; creation prunes without it.  Recovery is two actions:
`Look` reads the run and the set of submitted runs, `GiveUp` reads the run again.  So a run may be given up between
its creation and its submission; its planner is then never called, which is what `PreviewPromise`
allows and no more.  `GraphChanges` stands for every other append to the production graph:
`fresh` is the set of runs whose expected version is the graph's.  `Restart` ends handlers and worker,
frees the locks (the kernel does) and forgets `submitted` and `queue`.  The service is started as one process.

`PreviewPromise` has three variables: how a run stands, how often it was planned, and which plans
are in the graph.  `outcome` is what a reader is told: the file, else the tombstone.

Left out: the digests that bind a request to its source (a request is its run), owners,
the text of errors, and the planner's result.

### VideoDispatch

A lane (a manifest file with its lock) has a `manifest` for its present round and archived ones in
`history`; `source[l]` is the shot, its references and its keyframe as the graph has them now, so a manifest is
current when it names the same (`Current`).  A command is previewed again and confirmed under
the lock; what it writes after something else was written -- an approval after the graph, a new round
after the archive -- is a second action (`command[l]` says which), and so is the
reservation, whose count of active lanes is read under no lock that others take.
`job[j]` is the handler of one submission in the order of `submit_video_generation`: prepare the
outbox, claim the round, mark the manifest, mark the outbox, call, record the task in the
outbox, then in the manifest, then write task state and safe manifest.  `CallFails` is every exception of
the call, with the two kinds of block that matter later: an HTTP 400 that names a
parameter, and everything else.  `Poll` is one action: the files it writes are those of the job alone.
A replaced round starts from `NewRound`.  `Recoverable` is the test of the code that a round
whose submission failed has no task at the provider.

Left out: prices and quota, what prompts and manifests contain, cancellation of a task
(local only), the fake provider.

### AdaptiveRun

The artifacts of a run are numbered in the order in which the `_ensure_...` functions make them,
and are of three kinds: paid in one call (scripts and images), paid with a task (video chunks), and
composed by a local tool.  `attempts` and `paid` are `charge_ledger.json`, `file` says whether an
artifact is missing, cut short, or whole.  Each write of the ledger and each file is an action; `Kill` may
come between any two.  `calls` and `charged` count what was asked of the provider, which the
code cannot know and the properties are about.  A prompt does not change during a run, so an
artifact has one charge fingerprint and its limit is `Starts`.

Left out: prompts and their compilation, quality gates on content, the cost in money (attempts
are counted, as the profile's limit does), and a second process on the same run, against which the code
has no lock.

### CodexHandoff and KeyframeTasks

`dir` says in which of the four places the job's directory is and what matters of its content: the
request and the result.  A rename is one action and fails as `os.rename` does (`CanMove`); what happens
around it is the code's order: a claim renames and then writes `claim.json`, an end is written before the
rename, and `write_json` makes the directories it needs, so a file written after another worker took
the directory away brings it back with that file alone (`PutResult`).  `process_one` recovers and then claims:
with one job a round is the one (`ListRunning`, `Judge`, `RecordTimeout`, `LookAtTarget`, `MoveStale`) or the
other (`ListPending`, `Claim`, `WriteClaim`, `Begin`, ... `Fail`).  What the code does not
catch ends the worker, and somebody starts it again (`StartWorker`).  `aged` is the hour without a write; a
rename does not end it, as it leaves the times of the files alone.  Only what a worker holds never
ages: the generator is stopped after a quarter of an hour.

A job has a `mode`: it is generated by a `thread` of the service, for providers that answer at once, or it is a
`task` of the queue.  `files` are `keyframe_task_state.json` and the safe manifest, `job` the job file
whose status the clients see.  `plan[p]` is what a submission, a thread or a poll has decided to write, in the
order in which it writes (`WriteFile`); in between anybody else may write.  A poll reads the task state first (`Ask`), then
the manifest (`ReadManifest`) or the four places one after the other (`Look`), and concludes from
what it read.  A completed directory may, after a recovery that met a late worker, hold a result that says
failed; `poll_handoff_task` answers such a job as succeeded with no outputs listed, and so does `Told`; the
image itself is in the output directory before any directory is completed, which is what
`AnswersHonest` asks for.  `Restart` ends requests and threads of the service, `KillWorker` a worker;
`stops` counts both.

Left out: generation within the request, providers with a task of their own, polls answered 404 or 422 (they
change nothing), an exception of the registry (500, nothing changed), trimming of what a
worker wrote beside the result, previews and assets made of the images.

## 3. Runs

All pass unless marked.  Each action of every next-state relation fires in some passing run.

| Run | Bounds | Shows |
|---|---|---|
| `episode_store` | 2 handlers, 3 keys, edit and retire | no lost update, a key applies once, retries are told the same, snapshots stay readable; the store implements `EpisodeHistory` |
| `control` | 2 runs, 2 keys (3 for plans), requests begin up to version 8 (writebacks), 7, or 5 (plans) | commands commit once, success means all of a request, human requests stay open until decided, what is up for review has its provenance, ended runs rest; in four scenarios, see below |
| `saga` | 2 requests with own tokens or one, 2 shot versions, 2 crashes, fairness | visible and confirmed are recorded, candidates are saved for the latest shots, saved ones are not failed, every request ends or is held up by one left behind |
| `submit` | 3 handlers, 2 payloads, 4 attempts, crashes, prompt | one owner, one answer, none from another payload, orphans can be recovered, the replaced have dead letters |
| `video` | 1 lane, 2 submissions, 2 rounds, 2 sources, deaths anywhere | one dispatch per round, calls on record, graph and ledger agree, replaced rounds archived |
| `preview` | 2 runs, 2 handlers and the worker, 1 run kept of each group, 1 restart | the runs keep `PreviewPromise`, confirmed runs have receipts |
| `preview_live` | 2 runs, 1 handler and the worker, 1 restart, fairness | every run that was asked for ends |
| `adaptive` | 5 artifacts (2 images, 2 videos, 1 composition), 5 paid attempts in all, 4 starts | the budget holds, nothing is paid for in vain, deliveries are whole |
| `keyframes` | 1 client, 2 workers, 2 processes killed, fairness | the generator is called once, answers are honest, clients of a queued job are told of its end |
| `started_attempt_reclaimed` | violation | an attempt that called the provider is reclaimed as one that did not |
| `second_task_for_round` | violation, no deaths | a round whose task runs at the provider is replaced by another that will be paid for |
| `released_job_ends` | violation, nothing killed | a poll writes running over the end of a job |

A behaviour of the control runs follows one scenario of `MCProductionControl`, a set of
requests and a ledger to start from: *plan* (mission, plan, revision, approval from an empty
ledger, and a provider gate of a run that was approved), *steer* (pause, resume, retry, block, clear, cancel on one
run, progress of another), *human* (waiting, deciding, blocking, completing, cancelling), and *writeback* (writebacks of
two keys, of one of them for two runs, with retry, completion and cancellation).  The six properties of
`control` are checked in all four; the scenarios keep requests that do not touch the same
state from multiplying.

Why the bounds are enough.  Two handlers are what a lost update needs, and three keys
let one handler be outdated by two versions and one key be retried after both.  Because
`SaveCommits` uses each key once, the versions are bounded by the keys and the run needs no
other bound.  In the ledger, `MaxVersion` only stops new requests from *beginning*;
a job that has begun always finishes, so the last versions reached are above it.  Four
commits above the approved plan (version 3) hold a half-done action, another action in
between and the retry of the first; five let a writeback stop after its registration and its writeback, the run be
cancelled in two, and the rest be sent.  Deadlock is not checked where that bound stops the model, and in the
saga, whose finitely many requests end and whose shots and runs then stop changing.  Two saga requests are what it takes
to share a token, and two shot versions to have one request outdated.  In the directory, one
handler that owns, one that waits for the lock and one that arrives are all the roles there
are, and four attempts let a reclaimed attempt be reclaimed again and a removed directory
be made anew; all handlers may stop when they are used up.  Two submissions are what a race for a
round takes, and two rounds let the job of the first go on while the second is dispatched.  The
run has one lane: two lanes only meet in the count of active ones, which says nothing about
the properties checked.  Two preview runs and a limit of one let each prune the other; the runs end
when all are pruned.  Two workers are what it takes to claim, recover
and rename one job at once, and two kills let the job lose its worker and the one that recovers it, or a worker and the service;
jobs share no state, and a second client adds only another copy of what the first one does with the thread.
Four starts of a production are one more than
the attempts of any artifact and let a kill fall between any two.

**Fairness.**  Three runs assume any.  `saga`, for `RequestsSettle`: `WF(JobStep)`: a job whose process
lives goes on; nothing in it waits except for locks, whose holders are such jobs or short
requests.  `SF(Reconcile)`: every reading of the workspace reconciles, so
reconciliation is attempted again and again, and among the jobs that compete for the saga
lock one such attempt gets it infinitely often.  Neither the creator, nor
senders, nor crashes are fair; crashes are bounded by `MaxCrashes`, without which a process
that dies in each reconciliation would never finish one.  That a reconciliation ends by itself, with nothing
written, cannot be excluded by fairness: the property allows a request not to end only while
some request is left behind again and again, not when one was so for a time.
`preview_live`, for `LiveRunsEnd`: weak fairness of every handler that has begun and of the worker
(threads of a living process), and `SF` of `Look`: a client polls its run again and again,
and between its readings the lock is free infinitely often.  Nobody need post, cancel or confirm, and there
are only `MaxRestarts` restarts.
`keyframes`, for `ClientsLearn`: weak fairness of the submission, of the thread, of each worker's rounds (its
main loop never ends, and whoever runs the workers restarts one that died), of the handlers, and
of the passing of an hour; and of `Ask` while the client was not told of an end, since the studio polls until it is.
Nobody need kill anything, and there are `MaxStops` kills.  `released_job_ends` is checked under the same
fairness, so that its counterexample is a loop of polls that all run to their end.

**Mutants.**  For every property there is a mutated definition, placed before the one
it replaces and named for the bug (`ForgetsReceipts`, `FinalizesFirst`,
`TrustsTheWriteback`, ...), under which the run finds the property violated.

## 4. Findings

1. *Started attempts.*  A stale attempt that started provider calls is not reclaimed, say
   the tests, which write that into the ledger by hand.  The code writes it only on completion,
   so an attempt that died in between is reclaimed, with a dead letter that says no call was
   started (`StartedNotReclaimed`).
2. *A second task.*  A round whose network identity is uncertain is not replaced, say the tests.
   The handler writes `remote_video_provider_not_ready` for every exception of the call, one that
   comes after the provider has accepted the task included, and that block is what makes the round replaceable
   (`ReplacedRoundHasNoTask`).
3. *A lost end.*  The test of background generation releases the provider and polls until the job has
   succeeded.  A poll that has read that the job runs writes running back to the two files; if the thread
   has recorded its end in both meanwhile, the job runs for ever, with its images on disk
   (`ReleasedJobEnds`).

Two more disagreements are in the models without a run of their own:

- *A candidate that was already applied.*  `already_applied` is the answer of the code to a request that died between
  the save of its candidate and the persisting of its phase; it cannot be given (`EpisodeRaises`), and
  the properties of the saga say what is left: the request is not declared failed for it (`SavedIsNotFailed`), and
  it may hold up the others (`RequestsSettle`).
- *A cancelled run.*  The contract says that "Cancelled runs are terminal and do not produce later Control or candidate
  facts" (`docs/architecture/AFS_PRODUCTION_CONTROL_CONTRACT_V0.1.md`).  A writeback that is in the ledger is sent to its end after a
  cancellation, its candidate included, and the saga saves the candidate of a run that was cancelled after its ledger phase.
  `EndedRunsRest` allows the first and nothing else.

## 5. Proofs

### The episode store

`EpisodeStoreProofs` proves, for all finite or infinite sets of handlers, keys and
operations with `Retire` among them (`StoreConstants`):

- `TypeCorrect`, `AlwaysReadable`, `AppliedOnce`, `NothingToldIsLost`: the invariants of the run
  `episode_store`; and `LedgerTellsAll` (`LedgerComplete`), which follows from `StoreInv` and needs no run;
- `StoreImplementsHistory`: the refinement.

None of the invariants is inductive alone.  That a save does not overwrite another one's
change follows from the version check *only if* a handler whose version is accepted
holds an extension of the present aggregate; that a replay tells the truth only if
receipts agree with facts.  `StoreInv` says both:
`VersionCounts` (the version is the number of facts), `ReceiptsMatchFacts` (receipts and
facts correspond one to one, and a receipt's aggregate is the prefix that ends in its
fact), `HandlersHold` (what a ready handler holds is either too old to be accepted or
extends the present aggregate; what an answered one holds is the result of its key),
`RepliesMatch`, and for the files without ledger `NoLedgerYet`.  Only `SaveCommits`
changes the snapshot; the lemmas on it say that facts and ledger grow by one at the end and
that prefixes stay, from which each part follows.  The refinement uses `StoreInv` at every
step: a commit is `Extend`, an answer `Tell`, everything else a stutter.

### Submit idempotency

`SubmitIdempotencyProofs` proves, for any handlers, payloads and number of attempts, with or
without crashes, from `SubmitConstants`, `NoneIsNoFile` and `Prompt`: `TypeCorrect`,
`ReservationIsExclusive`, `AnswersMatchRequests`, `ClientsAgree`, `OrphansAreRecoverable` and the action
property `ReplacementsAreOnRecord`.

Exclusion rests on two mechanisms that know nothing of each other: `mkdir` and the lease.  The
invariant `SubmitInv` joins them.  `OwnersHold`: while a handler owns, the directory is
there, it holds the owner's ledger or none, the lease is not over, and there is no response
except the owner's own; so `mkdir` fails for others and so does `Reclaims`.
`ReclaimersHold`: while a handler reclaims, nobody owns and the ledger is the one
it read.  `LapsedWereMade`: a new attempt's lease is not over (`NewLedgerIsFresh`).
`ResponseHolds`: a response under a ledger has its fingerprint, and what clients were told is what is
there; as an owner implies that there was none, a response is never overwritten.  There is one lemma
per action.  `Prompt` is used in `LapseKeeps` and nowhere else.

The last two need `Recorded` besides: a ledger that says settled or started has a response next to it,
and the letter of an attempt that is being replaced is there until its ledger is.  `LedgerMoves` and
`LettersStand` prove it on top of `SubmitInv`: an owner that removes files has given no response, and while a
handler reclaims nobody removes the letters.  `OnlyReclaimsReplace` says that no other
step takes the ledger from one attempt to another.

### The charge ledger

`AdaptiveRunProofs` proves, for any number of artifacts, kinds, limits and starts, from
`AdaptiveConstants`: `TypeCorrect`, `SpendingIsBounded`, `NothingPaidInVain`,
`LedgerOnlyGrows` (`AttemptsKept`, which no run needs to check) and `DeliveryIsAccounted`.

`PhaseInv` ties the place of the process to the status of its attempt: `reserved` before the mark,
`started` before the call, `submitted` while it is polled.  With it `SpendingInv` counts: the calls of an artifact are at
most its started attempts, one less between the mark and the call; a reservation is made only where
there is room, and the room is still there when the mark comes because one process works at a time.
`DeliveryInv` says where whole files come from: a copy, whose attempt was started, or a finished composition.
The lemmas on `Started` say which steps add to the started attempts: `MarkStarted` and no other.

### The keyframe tasks

`KeyframeTasksProofs` proves, for any sets of clients and workers and any number of killed processes, from
`BoundsAssumption` and `NamesAssumption`: `TypeCorrect`, `WorkIsDoneOnce` and `NobodyIsMisled`.

`WorkedOnce` rests on `ClaimedOnce`: while the job is still to be submitted or claimed no worker holds it and it was never
worked on; a worker that has claimed it and not begun is alone in that, and nobody began before.  A recovery that takes the
job for abandoned, and a directory that a late write makes anew, do not touch this, because a request enters the queue once
and only a rename out of `pending` leads to a call.  That a completed job stays completed is that every rename starts
from `pending` or `running` and refuses a target that is there.

`AnswersHonest` rests on `HonestInv`: the queue of a thread's job is empty and a thread has a job of its own mode
(`ApartInv`), wherever the queue says succeeded the image is there (`ImagesBehind`), before a thread has called its
provider nobody knows of images (`NothingYet`), and every status that was told, is written or is still to be written
is honest (`KnownHonest`).  `KnownGrows` says that all but two kinds of step only pass on what is known or add a
status that claims nothing; the two are the provider's answer and what a poll finds in the queue.

### Production control

`ProductionControlProofs` proves, for any keys, runs and requests, from `ControlConstants`: `SpecTypeOK`,
`SpecCommandsCommitOnce`, `SpecAnsweredInFull`, `SpecOpenUntilDecided`, `SpecFinalHasProvenance` and the action
property `SpecEndedRunsRest`, for `Spec`, that is from the empty ledger; the three scenarios of `control` that start
from an approved plan start from what the first one reaches.

An action is several commits that may belong to different jobs: a job stopped half way, another replayed
its commands and went on, a third with the same key replayed those.  So no property can be carried by
a job alone.  `Played` says what a job at step *i* may rely on: each command before *i* is in the ledger,
for its run, whoever committed it; `Answered` says the same of the requests that were told so.
`InSequence` gives the order: a receipt for step *j* of an action has receipts of its key for all steps
before it, with smaller versions.  With `CommandsCommitOnce` those are the only ones, which is
`AnsweredInFull`; and a writeback that has come to its last step has its provenance, which is `FinalHasProvenance`.
`OpenUntilDecided` chooses a receipt; `Open` says the same without choice: the latest receipt of a run that asks or decides
fixes its open request.  That the approval, which starts all runs anew, loses none is `Planned`: before it
nobody asked or decided, and no action on a run has begun.  The step lemmas (`StepsAre`,
`StepKnown`) say of the `Steps` of every action what the rest needs of them: at most six, drafts first and finals
last and only in a writeback, and only a transition asks a human.

`EndedRunsRest` is about a job that goes on with a run that ended before or under its own hands.  The reducer refuses
every `run.*` command on such a run; `Rests` says of the others that the job is not at a human decision or a provider gate,
which are first commands, before which the route looks at the run, and that it is at a command of a writeback only if
the writeback itself is in the ledger, as the replay that the route lets through demands.  `MissionFirst` says that the
mission comes before the plan, so that the ledger commands without a run are out of the question.

### The creator's saga

`CreatorSagaProofs` proves, for any requests, token maps, shot versions and crashes, from `SagaConstants`
(shot versions start at 1): `SpecTypeOK`, `SpecConfirmedIsRecorded`, `SpecVisibleIsRecorded` and the action properties
`SpecSavedIsNotFailed` and `SpecSavedForLatestShots`.

A phase is a claim about the other two files, made by a job with an old copy of the first one, which may be
written back or lost.  `Backed` therefore states what a phase implies (`Right`) of the file *and* of the copy in
the job's hands.  It is kept because what phases refer to only grows (`LedgerGrows`: who wrote back, assessed
and completed a run is never changed, candidates are never removed) and because an envelope moves on only in hand
and only to a phase whose facts it has just seen (`BecomesOnlyInHand`, `GoesOn`).
Requests that share a token share the run; `RunsInOrder` and `Candidates` say that a run's facts are
for keys of its token and that each candidate is the one its run wrote back, so that one
request's confirmation never rests on another one's candidate.  `Working` says that the job
works on requests that were made, and that what it loaded in order to save had no candidate yet.

`SpecSavedForLatestShots` relates the candidate of one request to the shots of another one's envelope, which may be the
writer of a shared run.  `Copied` carries that: the job's copy agrees with the file on which requests were made and
for which shots, every writeback in the ledger is of a request that was made, and while a job holds a version
it has loaded, that is the one its candidate's request was made for.

### The preview runs

`PreviewRunsProofs` proves, for any runs, handlers, limits and restarts, from `PreviewConstants` and
`NoneIsNoRun`: `SpecTypeOK`, `SpecReceiptsKept` and `SpecPromised`, the refinement of `PreviewPromise`.

A run is known to its directory, its tombstone, the queue, the submitted set and the
thread at work on it, and no two of them change together.  The invariant says for each place of a handler what it
implies: `Locks` (between two writes it has the lock), `Confirming` (the run is still the succeeded one, and
what was written before is there), `Tombs` (a directory that is being removed has a tombstone that
tells the same end), `Queued` (a run is queued once, not while the worker has it, and never while it is running) and
`Planned` (how often the planner was called, from where the run and the worker stand).  `OutcomeMoves` then gives the
promise: a step changes how at most one run stands, along an edge of `PreviewPromise`; pruning
changes no outcome, since the tombstone is there before the first file goes.  `StepsArePromised` matches every
step with a step of the promise or a stutter.

### The video dispatch

`VideoDispatchProofs` proves, for any lanes, submissions, sources and rounds, from `VideoConstants` and
`NoneIsNoManifest`: `SpecTypeOK`, `SpecOneDispatchPerRound`,
`SpecCallsAreOnRecord`, `SpecGraphAgrees` and `SpecRoundsKept`.

The ledger of a round names one job, and only that job calls; the difficulty is that the ledger moves
between the manifest and the archive while the call is under way.  `Owned` says of every manifest,
present or archived, that the job it names was submitted for that lane and round and has made its claim; `Archived`
that a round is archived once, the present one perhaps already (a new round that died half way), and that
none is missing below it.  `Submitting` gives the order of the marks: ledger, outbox, call.  `Holding` says that what a
command saw before its first write still stands at its second, as long as it has the lane's lock.
`ManifestChanges` lists the ways in which a manifest can change, and `MarksStand` says that none of them takes
back a mark: a job's round is only ever written again by its own handler or a command that keeps its
marks, or archived as it is.  `GraphOwned` and `LedgerShown` are the two halves of `GraphAgrees`.

`TypeOK` of this module says more than the types of the files: a command in the middle has a manifest.

### Only model-checked

The liveness properties `RequestsSettle`, `LiveRunsEnd` and `ClientsLearn`, which, like `ENABLED`, are out of the prover's
reach, and the three properties that are violated.  No module that is proved about has a recursive operator.

## 6. Plan

In this order, the most important behaviour first:

1. `EpisodeHistory`, `EpisodeStore`, proofs -- done.
2. `ProductionControl`, proofs -- done.
3. `CreatorSaga`, proofs -- done.
4. `SubmitIdempotency`, proofs -- done; to state: an abstract "one submission per request" that it
   implements when attempts are prompt.
5. `PreviewPromise`, `PreviewRuns`, proofs -- done.
6. `VideoDispatch`, proofs -- done; to state: an abstract round that is sent once, which a lane implements.
7. `AdaptiveRun`, proofs -- done.
8. `CodexHandoff`, `KeyframeTasks`, proofs -- done.
9. `AccountPool`: slots at their limits.
10. `EpisodeLifecycle`: selection, review, lock, freeze and undo as functions on an aggregate.
11. Golden trial ledger, accounts and invites.

Not planned: text and data transformations (correct by content), media pipelines (sequential
I/O), front ends and tools (no durable state), corruption of files by others, and the
atomicity of `os.replace` and `flock`, which the models take as given.
