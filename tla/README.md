# SpecBridge: TLA+ models and proofs

SpecBridge reads a repository, walks its history with agents that write a knowledge store,
packs the result into a bundle and delivers it as a pull request. An ASP.NET API
(`src/apps/api`) takes jobs, a Node worker (`src/apps/knowledge-worker`) runs them, and the two
talk through PostgreSQL, a Service Bus queue, Key Vault and HTTP.

This directory holds TLA+ modules that model the parts of the system that keep state and share
it, TLC configurations that check them on small instances, and TLAPS proofs of every safety
property the passing runs check. `PROJECT.json` lists the components, the runs, the source lines
each definition stands for, the hazards of the code and the theorems.

| Module | Models | Checked by | Proved in |
| --- | --- | --- | --- |
| `JobStatus` | what the API promises about the status of a job | (abstract) | `JobServiceProofs` |
| `JobService` | create, cancel, worker events, rate limiter, job rows | `MCJobService` | `JobServiceProofs` |
| `JobProgress` | what a job's events leave behind: counts, agent runs, report, bundle | `MCJobProgress`, `MCNoScore` | `JobProgressProofs` |
| `JobStream` | event hub, event table, SSE connections of one job | `MCJobStream`, `MCStreamShared` | `JobStreamProofs` |
| `JobQueue` | queue, worker processes, event posts | `MCJobQueue` | `JobQueueProofs` |
| `CommitWalk` | what a walk over a history promises | (abstract) | `CalibrationProofs`, `WorkerJobProofs` |
| `KnowledgeStore` | shard files and manifest | through `Calibration` | `CalibrationProofs` |
| `Calibration` | the walk with rounds of curator and auditor over the store | `MCCalibration` | `CalibrationProofs` |
| `WorkerJob` | one job in the worker, from the clone to the pull request | `MCWorkerJob`, `MCShallowWalk` | `WorkerJobProofs` |
| `CommitWalker`, `StackDetect`, `AtlassianClient`, `PathMetrics`, `AgentAnswers`, `BundlePacker` | the packages a job calls | through `WorkerJob` | `WorkerJobProofs` |
| `GrowingBranch` | what a delivery promises about the branch | (abstract) | `PullRequestDeliveryProofs` |
| `PullRequestDelivery` | GitHub client and delivery of a job | `MCPullRequest`, `MCRetry` | `PullRequestDeliveryProofs` |
| `Credentials` | credential rows, secrets, OAuth tokens | `MCCredentials` | `CredentialsProofs` |
| `Lists` | sums and selections of lists | through the others | `CalibrationProofs`, `WorkerJobProofs` |

To run one: `tlc -config MCJobService.cfg MCJobService`. To check the proofs:
`tlapm JobServiceProofs.tla`.


## 1. The system

### Components, their state and their operations

**Job API** (`BrownfieldJobService.cs`, the routes of `Program.cs`). State: the `BrownfieldJobs`
table. Create: duplicate query, limiter, insert, enqueue, publish. Cancel: load, write
"cancelled", release, publish, enqueue. Worker event: load, publish to the hub, update the row,
release on a terminal transition, insert the event row. Each is one HTTP request whose steps are
separated by awaits. Hard: two requests about one job interleave on entities loaded earlier;
every save can fail before or after its commit. Correct if the limiter counts exactly the jobs
that hold a slot, rows precede messages, a settled job stays settled, outcomes are stored after
the status they report. Of a job's progress the row also keeps counts and metrics, and
`JobArtifactStore.cs` keeps the report and the bundle's name in memory. Correct if overlapping
handlers neither undo each other's columns nor withdraw what a client could read.

**Organization rate limiter** (`OrgRateLimiter.cs`, `OrgRateLimitMiddleware.cs`). State in
memory: active jobs and agent runs of the current hour for each organization. Charged by create
and by `agent_started`, released by create's error path, cancel and outcomes. Hard: the counter
is lost in a restart and the jobs are not. Correct if it bounds the active *rows*.

**Job queue** (`ServiceBusJobQueue.cs`, `service-bus-consumer.ts`; the queue itself is external).
Peek-lock, five deliveries, locks that lapse. Correct if no message is acknowledged before its
job is done and every message is settled.

**Event hub and streams** (`JobEventHub.cs`). State in memory, for each job: a history of 500
events, one unbounded channel, a terminal flag. A connection replays the table, then copies the
history under the lock, then tests the flag outside it, then reads the channel, which all
connections of the job share. Correct if nothing falls between two of these sources and a stream
ends once its job has.

**Event table** (`JobProgressWriter.cs`). State: `job_events`, commit and agent-run rows. Appended
by worker events, read by new streams (the oldest 500). The end of an agent looks up the row its
start added. Correct if a run has one row, closed by its own end.

**Job pipeline** (`job-pipeline.ts`, `bootstrap-pipeline.ts`, `repo-clone.ts`,
`agent-artifact-resolution.ts`) and **event relay** (`event-relay.ts`). The worker clones, resolves
credentials, scans the stack, fetches Confluence pages, has an architect write the store, walks the
commits, packs the bundle, uploads it, opens a pull request, and posts its events without waiting
for the answers. State: the files of the workspace and the records of the walk. Any stage may
throw. Hard: stages read files that earlier stages, earlier commits or the repository left there.
Correct if the bundle holds what the walk did and its numbers agree with it.

**Knowledge store** (`packages/knowledge-store`). State: shard files and `manifest.json`. The
bootstrap writes them; a batch of patches loads the manifest, changes files one by one and writes
the manifest last. Hard: any file operation may fail in between. Correct if every entry of the
manifest has a readable file.

**Calibration loop** and **commit walk** (`calibration-pipeline.ts`, `commit-walk-pipeline.ts`).
For each commit with a Jira key: a historian writes a retro spec, a calibrator compares the paths it
mentions with those the commit changed, a prober asks questions, and in each round a curator
answers them and proposes patches of which an auditor approves some; those approved in the last
round are applied. Correct if a commit is calibrated against its own spec, nothing changes without
the approval of this round of this commit, reports refer to what is there, and the walk ends.

**Packages of the worker.** `commit-walker` (git log, diffs, Jira keys), `stack-detect` (a scan
with exclusions and a limit), `jira-client` and `confluence-client` (requests with retries),
`calibration-metrics` (overlap of two sets of paths), `agent-orchestrator` (what is made of an
answer), `bundle-packer` (which files are packed). They keep no state of their own beyond one call.

**GitHub delivery** (`packages/github-client`, `pr-delivery.ts`). State is GitHub's: refs,
commits, a pull request. Each request is retried on the wire; the whole delivery is repeated when
the queue redelivers the job. Correct if nothing delivered or pushed is ever lost.

**Credentials and integrations** (`IntegrationsService.cs`, `WorkerCredentialService.cs`,
`AtlassianOAuthService.cs`, `credential-resolver.ts`). State: rows in PostgreSQL, secrets in Key
Vault, the refresh token Atlassian accepts. Correct if a row has its secret, a deleted credential
is gone, and the chain of refresh tokens is not broken.

Not modelled, each with its reason in `PROJECT.json`: bundle storage and the cancellation registry
(links, and a set nothing reads), the audit log (appends a line to a file), request validation
(stateless; the models take requests that passed). Of agent orchestration the prompts and the
session with the external SDK are left out, of the parsing packages the code parser, which the
worker does not call.

### How they interact

```
 client --HTTP--> Job API --message--> Service Bus --peek-lock--> worker --files--> knowledge store
    ^               | ^                                            |  |
    |  SSE          | +------------- event posts (relay) ----------+  +--> GitHub (pull request)
    +--- event hub -+                                              |
    |               |                                              +--> credentials (resolve)
    +- event table -+                                                      |
                                                            PostgreSQL, Key Vault, Atlassian
```

### What is hard

Handlers interleave at every await (API, streams, credentials); rows, files, secrets and the
limiter's memory are changed in separate steps, and any of those steps may fail, or succeed and
have its answer lost (saves, GitHub requests, settlements); messages and jobs are delivered
again; event posts overtake one another or vanish; the process dies and its memory with it. The
hazards of `PROJECT.json` name the lines, and for each the properties that watch it, or why none
does yet.


## 2. Modules and the code

An action is what the code does between two awaits, or between two calls that can fail. Handlers
are one-shot: a set of requests bounds a run, and a repeated request is another element of the
set. Definitions carry the names of the code where they can. An operator introduced by the
comment "Mutant:" is a plausible bug; no specification uses it, and `PROJECT.json` names the
property it breaks.

### JobService and JobStatus

`status` is the Status column, `activeJobs` and `agentRuns` are the limiter, `hub` and
`persisted` the types of the worker events published and stored, `sent` the messages ever sent;
`create[j]` and `req[r]` are the program counters of the handlers, and `req[r].read` is the status
on the entity the handler loaded, which is what it compares with when it saves.

- `CreateAdmit`, `CreateCheck`, `CreateReserve`, `CreateInsert`, `CreateEnqueue` are CreateAsync
  from the middleware to the enqueue; `CreateInsertFails` and `CreateUndo` its catch block.
- `EventLoad`, `EventPublish`, `Save`, `Release`, `EventPersist` are PublishWorkerEventAsync;
  `CancelLoad`, `Save`, `Release`, `CancelEnqueue` are CancelAsync. `SaveFails` is an exception
  without a commit, `SaveAborts` one after it (the release is then skipped).
- `WindowEnds` is PruneWindow; `Restart` loses the memory and the handlers.

Abstractions. "queued" stands for every active status: the code moves between them only where a
`phase_started` event has a phase of type `string`, and over HTTP that phase is a `JsonElement`,
so the branch is never taken. "phase_started" stands for all event types that neither charge the
budget nor end a job. The progress columns, metrics and report are in `JobProgress`.
`SaveFails` also stands for a handler of `job_completed` that throws before it saves.

`JobStatus` is the abstract specification: a job appears as queued, is settled in a terminal
status, perhaps settled again in another one, and never becomes active again. It is weaker than
the state diagram of the README of the repository, because neither handler reads the row again
when it writes. `StatusPromise` says that JobService implements it (INSTANCE; the mapping is the
identity on `status`).

### JobProgress

One job that is not cancelled. `pc[e]` is the handler of event `e`, `read[e]` the entity it
loaded: `Load` is PublishWorkerEventAsync up to the update, with JobArtifactStore.RecordEvent;
`Save` is ApplyEventToJobAsync, `Updated` its switch, and `WriteChanges` what Entity Framework does
at SaveChanges: it writes the columns the handler changed, over whatever the row holds now.
`FindRun` and `Store` are JobProgressWriter, `Throws` the exception of `TryGetSingle`, `Fails` and
`StoreFails` a database call that throws. `Restart` empties the memory and ends the handlers.
`ReportStatus` and `BundleStatus` are what the two routes answer. The events the worker emits are
one of the sets `Emissions`, and each is posted once; one that is never handled was lost.

Abstractions. One flag `metrics` stands for the token estimates and the mean score, which one
event writes. `CurrentAgentRole`, `CurrentPhase` and `PrUrl` are left out: the handlers assign
them only from values of type `string`, and what arrives is a `JsonElement`. Events that change
none of the modelled state (`phase_started` and the like) are left out.

### JobStream

One job. `Publish` is the body of the lock in JobEventHub.Publish; `Persist` the rest of the
worker-event handler as far as the event row goes. `Replay`, `Snapshot`, `CheckTerminal` and
`Receive` are the four parts of SubscribeAsync, separated where another thread can come between;
`Disconnect` is the client or the abort of its request. `Yield` cuts what is written at the first
outcome. The set of seen keys of SubscribeAsync drops nothing in the model: the stored copy of an
event and the hub's copy differ in the timestamps the keys are made of. Rows are in the order of
their commits; LoadEventsAsync orders them by a CreatedAt that is set before the save
(`JobProgressWriter.cs:62`), so two rows stamped in one order and saved in the other are left out.
`got` records what a connection was written, `alone` whether another one was ever open beside it.

### JobQueue

`place`, `holder` and `deliveries` are the queue: Service Bus is external and modelled by
`Unlock`, `Settle` and `LockLapses`. `Receive`, `CompleteInvalid` (a cancel message has no options
and fails validation), `Prepare`/`PrepareFails` (the clone), `ResolveCredentials` (whose failure
is swallowed), `RunPhase`/`PhaseFails`, `Complete` and `Fail` are processMessage and
runBrownfieldJob; `Crash` ends the worker process anywhere. A worker whose lock has lapsed does
not know it and goes on. `Post`, `Arrive` and `Lose` are the event relay, `Cancel` the API's write
of "cancelled". A clone is refused where an earlier delivery left its directory. AbandonOnError is
a constant, FALSE as in `index.ts`. That a run may have used mock agents is not recorded.

### KnowledgeStore and Calibration

KnowledgeStore has no Spec of its own: Calibration extends it and drives it, for a job runs one
of them at a time. `WriteManifest`, `WriteShard` are the bootstrap (the order of the code:
manifest first); `StartBatch`, `ApplyPatch`, `FinishBatch` are applyApprovedPatches with
`ApplyOnePatch` for each of the four operations. A name is a relativePath or a path, `FileOf`
is the file the code derives from it, `EntryIndex` finds an entry by either. Two names may stand
for one file, as the code drops a leading `.sdd/knowledge/`; a patch by one of them then changes
the file under the entry of the other. `EntriesHaveFiles` is about the `Plain` names, which do not
have that. `GeneratedAssumption`: the bootstrap gives each of its shards names of its own. Every
read, write and unlink may fail while `failures < MaxFailures`; a failed write leaves the file
unchanged, empty (which the code takes for absent when it reads) or damaged. A text is its size; a
shard of size 0 is written in a form that parseShardMarkdown rejects, so it becomes `Damaged`. With a real agent the bootstrap files are
written by the agent, which is in WorkerJob. `Calibration` adds `SkipCommit`, `StartCommit`,
`Curate`, `Audit`, `StartApply`, `Apply`, `NothingToApply`, `AgentFails`, `FileFails`, `FinishWalk`.
Proposals and verdicts are any of a given set; a verdict answers a patch at most once (the code
counts every ruling of a verdict, so one that repeats itself would make its counts larger).

`CommitWalk` is the abstract walk: commits are handled in order, one with a key is processed once
and no other is, a walk that ends well has handled them all, and every walk ends. Calibration and
WorkerJob implement it (INSTANCE ... WITH): `position` is the number of commits handled,
`processed` their summaries or records, `outcome` is read off the program counter.

### WorkerJob and the packages it calls

One run of runBrownfieldJob; `pc` is the stage. The packages are modules it EXTENDS.

- `Clone` ... `RunArchitect` are bootstrapKnowledgeAtHead. `CommitWalker` has `ShallowClone`,
  `Log`, `WalkCommits`, `ChangedPaths` and `ExtractJiraKey`; git is external and a history is a
  sequence of commits, so `HistoryOf` is what git knows after `--depth 1`. `StackDetect` scans one
  entry a step (`ScanStep`): a directory may be unreadable, and the scan stops at its limit.
  `AtlassianClient` is requestWithRetry of both clients, one answer a step.
- `StartWalk` ... `WriteReport` are runCommitWalkPhase and processJiraLinkedCommit. `RunHistorian`
  contains resolveTextArtifact: a file in the workspace wins over one in the repository, and that
  one over the answer.
- `RunCalibrator` ... `ApplyPatches` are runCalibrationLoop. The answers are chosen from given
  sets of texts: valid, invalid, without JSON, with JSON the parser loses (`spoiled`). What is made
  of them is in `AgentAnswers` (ExtractJson, the clamping and filtering of each artifact, and the
  schemas of handoff-validator.ts), the overlap in `PathMetrics`.
- `Pack`, `UploadBundle`, `OpenPullRequest` are the rest: `BundlePacker` has which files are
  vendored, listed and packed, and `CollectWorkspaceFiles` which are delivered: the small ones, in
  no directory named `.git` or `node_modules` (`InSkipped`), up to the cap. `StageFails` is an exception anywhere.

Abstractions. A path is a sequence of names, a spec the commit it describes and the paths it
mentions, bare or quoted; a score is a number of thousandths, rounded as the code rounds. The
architect (`bootstrap-pipeline.ts:162`) and the historian (`commit-walk-pipeline.ts:213`) work in
the clone, and the worker copies what they write: the architect of a real job writes any of
`AgentStores`. Calibrator, prober, curator and auditor work in the workspace itself
(`calibration-pipeline.ts:75`, 109, 146, 178): `RunSession` lets a real one leave any of `LeftFiles`
there, which are packed and delivered where they lie in the way. That it changes or removes a file
of the worker (the manifest, a shard, a spec, a report) is left out: `KnownShardPaths` and the
reports stay what the worker made them. The patches of a real curator change the entries of the
manifest here and the files in Calibration. Between two awaits of one run only its own agent
touches the workspace: jobs have workspaces of their own.

`specs[k]` has one entry for each Jira key, as the code has one output path for each key.

A filter is `Chosen` of the places it keeps, a sum is `ListSum`, and a batch of patches is
`Patched`: recursive functions over the places of a list, which the proofs can unfold.

### PullRequestDelivery and GrowingBranch

`Attempts` are calls of openPullRequestWithFiles for one job. GitHub is external (`Commit`,
`History`, `FastForward`): a commit is its index with its parents and its set of files, and its
history is the least set that contains it and is closed under parents. Each action
of an attempt (`GetRef`, `CreateCommit`, `CreateRef`, `UpdateRef`, `CreatePr`, `FindPr`) is one
request that takes effect; `LoseRequest` loses it before, and the `Retry` in the other actions
after its effect. Developers push to both branches and close the pull request; they neither delete
the branch nor merge.

`GrowingBranch` is what this is for: the branch only grows, its tip has the files of the repository
and of the bundle, a commit reported as delivered is on the branch, and every attempt ends.
PullRequestDelivery implements it with `held` the history of the branch.

### Credentials

One organization with a vault. `install`, `del`, `pc` are the program counters of installs,
deletes and resolves; `held` the bundle in a handler's memory. `GrantRefresh` is the token
endpoint (external): it numbers its answers, and if it rotates (chosen at the start) it accepts
only the newest refresh token. `TokensExpire` moves `freshFrom`: access tokens with smaller
numbers are within two minutes of their end, which is what `IsStale` tests. `AbortResolve` and its
likes stop a handler at any await: a throw, an aborted request, or the end of the process.
Confluence connections are made like Jira connections and never resolved, so `Jiras` stands for
both. Secret names are unique and never used again. The model assumes that the API may write to
the vault, which the code needs; the role given by `src/infra/bicep/main.bicep:38` allows reading
only.


## 3. What is checked

All runs are exhaustive within their bounds.

| Run | States | Question |
| --- | --- | --- |
| `job_service` | 150,536 | Do slots, rows, messages, events and statuses agree under every interleaving, failing save and restart? |
| `job_stream` | 157,469 | Does a stream that has the hub to itself have no gap and end when the job does? |
| `job_queue` | 80,353 | Is a job acknowledged only when done, and every message settled? |
| `calibration` | 661,364 | Do files and manifest stay in step, do only approved shards change, and is it a CommitWalk? |
| `worker_job` | 70,917 | Is every commit calibrated against its own spec, and does the bundle hold what the job did? |
| `pull_request` | 30,451 | Does the delivery, with retries and lost answers, only grow its branch, and does every attempt end? |
| `credentials` | 363,276 | Do rows have their secrets and does the chain of refresh tokens hold? |
| `job_progress` | 710,814 | Do overlapping and reordered events of a job leave the right counts, runs and results? |
| `stream_shared`, `pr_retry`, `no_score`, `shallow_walk` | | Does the code keep what a document or comment of the repository says? It does not: see below. |

### Properties

`job_service`: `NoSlotLeak` (every slot counted belongs to somebody), `CapUnlessDoubleRelease` (the
limit binds rows), `TellsInOrder` (a message has a row, the event table never runs ahead of the
row, and the row never runs ahead of the hub), `StatusPromise` (refinement), `SlotsDrain` (slots
are given back).

`job_stream`: `NoGapWhenAlone` (nothing is lost where the copy of the history ends and the channel
begins), `EndsOnlyOnOutcome`, `OutcomeEndsStream` (an outcome ends the stream, after a restart if it is
among the rows that are replayed). They hold for a connection beside which no other
was open. With a second one they fail, which is what `stream_shared` shows.

`job_queue`: `AckedAfterOutcome`, `SecondOutcomeNeedsLapse` (a job ends twice only if a lock or a
settlement was lost), `MessagesAreSettled`, `CompletedJobIsReported`.

`calibration`: `EntriesHaveFiles`, `OnlyApprovedShardsChange`, `TokenTotals` (a batch
without skipped patches changes the token total of the manifest by the delta its summary claims,
or ends at a higher total if it was cut off at zero on the way), `ImplementsCommitWalk`
(refinement, with its liveness).

`worker_job`: `SpecsDescribeTheirCommit` (with mock agents the spec is the commit's own; a real
historian may leave an older one of the same key), `ReportsAreGrounded` (answers are to questions
that were asked and cite shards that are there, an audit is of patches that were proposed, and an
auditor that cannot be read approves of nothing), `InputsAreAccountedFor` (the walk takes the
newest commits, every page is fetched or missing, the profile counts every file that is not below
an excluded or unreadable directory, or says that it is truncated), `BundleHoldsTheWork`, `ImplementsCommitWalk`.

`pull_request`: `LostAnswersAreHarmless`, `ImplementsGrowingBranch` (refinement, with its liveness).

`credentials`: `NamedSecretsExist`, `GoneIsGone`, `ChainUnbroken`, `RefreshTokensGoForward`,
`HandedOutTokensWereFresh`, `RefusalHasACause` (a worker is told to reconnect only if the token is
missing or lost, or a concurrent resolve has just used it).

`job_progress`: `CountsAreRight` (counts are those of the events unless handlers overlapped, and
those of the walk after the end unless a count was saved late), `ResultsAreNotWithdrawn` (a report
or bundle stays readable but for a restart), `RunsAreRecordedOnce` (a mocked agent's run has one
row, closed by its own end, unless the end overtook the start).

Each passing run also checks the type invariant of its module.

### Where the code and its documents disagree

- `stream_shared`: the connections of a job read one channel, so each live event reaches one of
  them, and the others wait for an outcome that does not come.
- `pr_retry`: an attempt commits on the base branch, so it cannot fast-forward the branch of an
  earlier attempt; the comment at `client.ts:27` calls a retry safe.
- `no_score`: a job whose walk processes no commit reports `meanQaScore` null
  (`commit-walk-pipeline.ts:162`); `TryGetSingle` (`BrownfieldJobService.cs:550`) throws on a JSON
  null before the row is saved, so the job stays active, keeps its slot, and its report answers
  500. `docs/PLUGIN_USAGE.md:198` calls `job_completed` a terminal state.

- `shallow_walk`: the worker clones with `--depth 1` (`repo-clone.ts:43`), so the walk of a cloned
  repository handles the tip alone, and diffs it against the empty tree; a job that pins another
  commit fails. The README of the repository, line 202, says "For each commit in history (up to
  `commitDepth`)".

Noticed while modelling, and not the subject of a run:

- Two concurrent creates for one repository and branch both pass the duplicate query
  (`BrownfieldJobService.cs:141`) before either inserts; `apps/api/README.md:50` promises a 409.
- A pipeline that throws is dead-lettered and nothing emits `job_failed`: the row stays active and
  keeps its slot, though `docs/PLUGIN_USAGE.md:198` has clients wait for a terminal event.
- A cancelled job publishes a phase event, which ends no stream (`BrownfieldJobService.cs:243`).

- Two worker events that load the row while it is active both release its slot
  (`BrownfieldJobService.cs:485`; "exactly once" says its comment), so an organization can run more
  jobs than its limit: hence the premise of `CapUnlessDoubleRelease`.
- An outcome published between the copy of the history and the test of IsTerminal
  (`JobEventHub.cs:101`) closes a stream that never said how the job ended: hence
  `EndsOnlyOnOutcome` does not ask for the outcome.
- With real agents `agent_started` carries an id made by `agent-session.ts` and `agent_completed`
  the SDK's, so the started row is never closed and a second one is added: hence the premise of
  `RunsAreRecordedOnce`.
- An `audit_verdict` is posted every round and counts as a commit until `job_completed` corrects
  the number.
- The bundle packer joins `.cursor` to paths that begin with it (`bundle-packer/src/index.ts:126`),
  so the kit's `.cursor` files are not in the zip, which the README of the repository lists at line
  228; the pull request has them. `BundlePacker.KitPaths` does what the code does.
- The pull request leaves out every directory named `.git` or `node_modules` (`pr-delivery.ts:45`), at
  any depth; the bundle packer (`bundle-packer/src/index.ts:91`) and the copy of the kit do not. A
  shard or a kit file below one is packed and uploaded and missing from the pull request, hence the
  exception in `BundleHoldsTheWork`. So are files over 512,000 bytes and those beyond the 500th.
- ExtractJson strips a code fence before it parses (`response-parser.ts:26`): valid JSON with a fence
  in one of its strings is lost, and so is JSON after prose that has a brace.
- There is one spec path for each Jira key, and a file that is there wins over the answer: with
  real agents the second commit of a key is calibrated against the spec of the first, hence the
  disjunction in `SpecsDescribeTheirCommit`.
- `knowledge.shardCount` of a bundle is that of the bootstrap (`job-pipeline.ts:91`), not of the
  shards in it.
- An error of the output stream in packBundle has no listener, and ends the worker process.
- Patches are approved by their target, so a rejected patch of a shard is applied when another
  patch of it was approved; the token total of a job counts patches that were skipped.
- A credential whose secret was deleted but whose row was not saved cannot be deleted again; two
  resolves with one rotating refresh token tell the slower worker to reconnect.

### Bounds, and why they are enough

- `job_service`: two create requests of one organization for one target, two requests that may
  each be a cancel or any worker event of either job, a limit of one job and one agent run, one
  restart. Two jobs compete for one slot and two handlers for one row, which is what the code can
  get wrong; a third handler of either kind repeats what the second can do.
- `job_stream`: an API event and two worker events of which one is an outcome, two connections, a
  history of two and a replay of one: three events overflow both, so the outcome can be evicted,
  can be the one that evicts, and can be left out of the replay. `stream_shared` evicts nothing.
- `job_queue`: one remote job with a pull request, its cancel message, two workers, two
  deliveries: one that can be lost and the last one.
- `calibration`: two commits with or without a key, up to two rounds, seven proposals that append,
  replace, delete and weigh two generated shards (one over the cap), named in both ways, and a new
  one that has two names for one file; one failing file operation. Two failures would only repeat:
  a failure damages a file or ends the job.
- `worker_job`: four commits with a merge and a rename, two keys of which one is of two commits, a
  repository that may hold a spec, six jobs that differ in agents, clone, depth, order, keys,
  pages, issues and delivery, one retry of a request, a scan of at most three files over a tree of
  four with an excluded directory (complete if `src` cannot be read, else truncated), two pages of
  three, a cap of 13 files, one file too large for a pull request, and a shard and a file of an agent
  below a `node_modules` (delivered neither at the cap nor below it). Texts of real agents include
  one that is valid, one that misses fields, one out of bounds and one that does not parse. Every
  branch of the stages is taken, and the cap and the limits are reached.
- `pull_request`: two attempts in any order or side by side, one retry, two actions of developers.
- `credentials`: one credential of each kind, two deletes, two resolves, unbounded token numbers
  (one request grants at most one answer, so the state space is finite). Requests of one kind are
  interchangeable and no property is a liveness property, so symmetry is sound.

- `job_progress`: a job emits a skipped commit, two rounds of one processed commit, a bundle and
  its end; or the same without a processed commit; or two agent runs. One restart. Agent events
  and the others write disjoint state, so sets that mix them show nothing more.

CHECK_DEADLOCK is FALSE in all runs: requests are one-shot, and a system that has served them all
stops.

### Fairness

- JobService: a handler that has begun is scheduled until it returns (weak fairness of
  `CreateStep(j)` and `RequestStep(r)`): ASP.NET runs it on, and every await completes or throws.
  Nobody has to make a request, and the process need not restart.
- JobStream: an open connection is served. Nobody has to connect or publish.
- JobQueue: a busy worker goes on; an idle worker receives from the queue (strong fairness, for a
  worker that is busy cannot); a lock nobody renews lapses, and a post arrives or is lost. Nothing
  obliges a lock in use to lapse, a worker to crash or a user to cancel.
- Calibration and WorkerJob: the job is one sequence of awaits, each of which returns or throws; a
  request to Atlassian has its own timeout. That a stage fails is never obliged.
- PullRequestDelivery: a request is answered, lost or refused.
- Credentials states no liveness and assumes no fairness.


## 4. What is proved

TLAPS checks the following for every value of the constants that satisfies the named assumptions
of the modules, which TLC evaluates on every run. Every invariant and every action property of the
passing runs is a theorem, and so is the safety part of each refinement. The numbers of jobs,
requests, organizations, credentials, workers, connections, commits, attempts and restarts are
arbitrary, and so are the repositories, the trees, the patches and what agents write.

- `JobsAssumption`: Jobs and Requests are finite, Jobs is not empty, every job has an organization.
  `LimitsAssumption`: limits are positive. `BoundsAssumption`: buffers are.
- `IdsAssumption`, `EventsAssumption`, `QueueAssumption`: kinds of ids, and of messages, are
  disjoint; outcomes are worker events; a message has at least one delivery.
- `ProgressAssumption`: a job has finitely many events. `DeliveryAssumption`, `ClientAssumption`:
  the retries of a request are bounded, and None is no commit.
- `StoreAssumption`, `GeneratedAssumption`, `CalibrationAssumption`: every name has a file; content
  that cannot be read is no shard; the shards of the bootstrap have different names; a proposal is
  a list of patches.
- `TreeAssumption`, `StackAssumption`: a tree has a root, its paths are lists of names, and what is
  in a directory lies in all the directories above it; the scan has a positive limit.
- `JobAssumption`, `RepositoryAssumption`, `NothingAssumption`: options have the types the request
  schema gives them; a commit has a key of the job or none; no spec is the value that stands for
  none.
- `PathAssumption`, `AgentAssumption`, `FileAssumption`: there are finitely many paths; arrays in
  answers are arrays and the architect writes its documents; files of the kit and of agents have paths, and the
  mock shard is not called manifest.json.

### JobService

`TypeCorrect`, `ToldInOrder`, `SlotsAreAccountedFor`, `CapHolds`, `KeepsStatusPromise`.

- That a message has a row, the first part of `TellsInOrder`, needs to know that a create which has
  reached "inserted" has its row: `RowInv` adds `NoRowYet` (no row before the insert) and
  `RowsExist` (a row after it, and for every job a handler has loaded). The other two parts need
  what a handler has done before it stores its event: `OrderInv` adds that one that has saved
  finds the row settled (`WrittenIsSettled`, `SettledStays`) and that one that has published finds
  its event in the hub as long as no restart has emptied it (`PublishedIsInHub`).
- `NoSlotLeak` is inductive together with `RowInv`. The argument counts sets: a step that takes a
  slot adds a holder, one that releases a slot removes at most one (`GainOne`, `LoseOne`), and a
  commit that takes an active row away from the holders makes its handler one (`SlotsAtCommit`).
- `CapUnlessDoubleRelease` is not inductive: the counter must be known exactly. `CapInv` says that
  for an organization whose jobs were released at most once, and none while active, the counter
  *equals* the number of jobs that took a slot and have not given it back (`ExactCount`), and that
  a job before its insert was not released (`NotReleasedYet`). The active rows are among these
  jobs, and the counter is within the limit.
- `KeepsStatusPromise`: every step is a step of JobStatus or leaves `status` alone, from
  `TypeOK`, which bounds what a handler can write, and `RowsExist`.

### Credentials

`TypeCorrect`, `SecretsExist`, `DeletionIsFinal`, `ChainHolds`, `TokensGoForward`,
`HandedOutFresh`, `RefusalsAreCaused`.

- `SecretInv` relates the program counters of installs and deletes to rows and secrets
  (`RowsAndSecrets`): an install that has stored its secret is not yet in the table, a delete that
  has removed the secret is the only way a row can name one that is gone.
- `ChainInv` adds `Tokens`: the numbers in the stored bundle and in handlers' memory never exceed
  the endpoint's; what a resolve read is not newer than what is stored; and, the step that matters
  (`Sole`), at most one resolve at a time holds an unstored answer of a rotating endpoint, because
  the second one's refresh token is no longer accepted. Without `Sole`, a late store could
  overwrite a newer token, so neither `ChainUnbroken` nor `RefreshTokensGoForward` is inductive.
- `FreshInv` says for each resolve that the token it holds was fresh at its read or was granted
  after it.
- `CauseInv` explains a refusal: the refresh token is missing, its secret is torn, or another
  resolve holds a newer answer (`Newer`). That the other one is *newer* follows from `AllPaired`:
  a rotating endpoint gives the access and the refresh token of an answer one number, so a refresh
  token that is accepted no longer belongs to an older answer. That it is *concurrent* holds because
  a resolve that was over before had stored its answer, and the older bundle could no longer be
  read.

### JobQueue

`TypeCorrect`, `AcksFollowOutcomes`, `LocksGuardOutcomes`.

- The type invariant bounds the runs that end well by the deliveries, and that is the part which
  needs an argument: a worker that has lost its lock goes on, so the bound is not on locks.
  `RunsAreDeliveries` says that the runs of a job that ended, with the workers on one that has
  not, are at most its deliveries: a delivery adds a worker, a step moves or removes one
  (`PendingStep`). `DeliveriesLeft` says that a queued message has a delivery left, and
  `WorkersHaveMessages` that a worker past validation is on a job.
- `AckedAfterOutcome` needs what is on its way to an acknowledgement: `AckInv` adds that a
  finished worker's job, and the job of a posted `job_completed`, has ended.
- `SecondOutcomeNeedsLapse` rests on the lock. `SingleRun(j)`, claimed while nothing about `j` was
  lost, says that whoever has `j` holds its lock (so one worker has it), and that `j` is queued,
  or a worker on it unended or failing, only while no run of it ended. Without the second part a
  failing worker could give back a job that ended.

### JobStream

`TypeCorrect`, `NoGap`, `EndsOnOutcome`.

- The types need `HandlersOfWorkers`: only a worker event goes on from the hub to the table.
- `NoGapWhenAlone` speaks of connections that read the channel. `GapInv` says the same of a
  connection that has copied the history and not yet tested the flag, and that of two open
  connections neither counts as alone: otherwise the other one could take an event from the
  channel.
- `EndInv` adds `AllPublished`: whatever the table, the history and the channel hold, and the
  terminal flag, come from a publication, also after a restart has emptied the hub.

### JobProgress

`TypeCorrect`, `ResultsStay`, `RunsOnce`, `CountsHold`.

- `ResultInv` says that no handler has loaded more than the row has, and that what a returned
  request saved is in the row: an entity loaded early cannot undo a column another handler wrote,
  for a save writes only the columns its handler changed.
- `RunInv` is about the lookup that finds the row of a run and, a step later, closes it:
  `RowsFromStored` (one row for each stored event, closed by the end of the same run),
  `LookupsHold` (what a lookup found is of its run; if it found nothing, no row of the run
  appears before it stores its own) and `OneRowEach`.
- `CountInv` relates three moments of a handler: an event is counted at its save
  (`CountedOnSave`), and one that is alone, or the last to load, has read the counts of the row
  (`LoadedIsFresh`).

### PullRequestDelivery

`TypeCorrect`, `LostAnswersHarmless`, `ImplementsBranch`.

- `DeliveryInv`: the commits are one of the `Repositories` (a commit descends from earlier ones and
  keeps their files), the branch has the files of the bundle, and for each attempt the commit it
  made is there, and on the branch once the request that puts it there took effect (`AttemptInv`).
- `Grows` is what a step does to a repository: every commit stays, with its history, and the branch
  is not moved back. It is proved once for a new commit (`AfterCommit`, which rests on
  `AppendKeepsHistories`: what is appended is in nobody's history) and once for a moved branch.
  `ImplementsBranch`, the safety part of `GrowingBranch`, follows from it step by step.
- `HarmlessInv`: as long as nobody else has touched the branch, an attempt finds on it at most its
  own commit, so a request repeated after a lost answer meets what it did itself. Hence such an
  attempt fails only by giving up.

### Lists

The theorems of the library about induction take an operator as a parameter, which none of the
provers here can instantiate. The proofs about lists do the induction with a *set of numbers*:
`SetInduction` (a set that has 0 and with n also n + 1 has them all) follows from the
well-foundedness of the numbers, and `UpTo` is its form for 0..N. `Recursion` proves from them that
a recursive function over the places of a list exists, which is what unfolding `ListSum`, `Chosen`
or `Patched` needs. What they compute (bounds, ranges, prefixes, order) are lemmas by `UpTo`.

### Calibration

`ImplementsWalk`, `TypeCorrect`, `ApprovedChangesOnly`, `TotalsAreClaimed`, `EntriesAreFiled`.

- `ImplementsWalk`: Calibration implements the safety part of `CommitWalk` for any number of
  commits, whatever is proposed and approved and whichever file fails. `WalkInv` says that the walk
  stands at a commit of the history, a linked one inside the loop. `StepShape` reduces the actions
  of store and loop to the four moves the walk can make; `PlacesGrow` says that appending a summary
  appends its place.
- The types need the stage: `Typed` adds that the verdict answers the proposal of its round, that
  the store works exactly when the walk applies, and that no more summaries are written than
  commits handled.
- `ApprovedChangesOnly`: in a batch the patches to do are patches of this round's proposal with
  approved targets (`Selection`), and a patch changes no file but the one of its target.
- `TotalsAreClaimed`: `Running` relates the middle of a batch to its beginning. What is to do is
  the rest of the selection, and unless a patch was skipped the total is `TotalAfter` the first
  patches, which says how being cut off at zero raises it for good.
- `EntriesAreFiled`: `StoreInv` follows names. The path in a file was written under a name that
  stands for that file (`Original`), and so was the path in an entry (`Named`); no two entries
  share a plain name (`Apart`), so the entry a patch finds is the only one its file is of; and an
  entry fits its file (`Filed`). Without `Apart`, a patch could change the file of one entry and
  record it in another. During the bootstrap the manifest is ahead of the files, so there only the
  first `Written` entries have theirs.

### WorkerJob

`TypeCorrect`, `SpecsDescribe`, `JobImplementsWalk`, `InputsAccounted`, `Groundedness`,
`WorkIsDelivered`.

- `SpecsDescribe`: `SpecsDescribeTheirCommit` speaks of finished records only, and a spec outlives
  its commit in two places, so `AboutInv` follows it: every spec in the workspace or in the
  repository is of the current commit or already `Known` for its key (`FilesExplained`); what the
  calibrator took up is explained likewise (`CurrentExplained`); a mock historian has just written
  its own (`MockWritten`). The step that matters is the end of a commit (`RecordStep`): its record
  makes its spec known before the next commit with the same key begins.
- `JobImplementsWalk`: the job implements the safety part of `CommitWalk`. `StepKind` reduces its
  steps to those that are quiet and those that handle a commit, and `Walked` says that the records
  are those of the first commits of the walk and that a job past the walk has handled them all.
- `TypeCorrect`: that the scores, means and rates a job reports are within their bounds is an
  argument about rounding and sums (`RoundedRange`, `SumRange`, `MeanRange`) and about the rounds
  still allowed (`Scored`); that the scan reports at most its limit is one about lists.
- `InputsAccounted`: `Scanning` is the invariant of the search through the tree. Every file that
  counts was found, or lies below an entry still to visit (`Awaited`) or below a directory that
  could not be read (`Lost`), so a scan with nothing left to visit has found all the others. `Asked` says the same of the
  pages. That the walk takes the newest commits comes from the order in which git lists them
  (`ChosenDecreasing`, `WalkCommitsFacts`).
- `Groundedness`: `Grounded` carries from stage to stage what was cut down: the proposal cites
  questions asked and shards known, the verdict is about targets of the proposal, and one that
  could not be read (`Unread`) approves of nothing.
- `WorkIsDelivered`: `Reported` says that the reports of every commit handled are on file and stay
  there (`ReportsGrow`, `SpecsStay`), `OneShard` follows the store of a mock job (whose agents leave
  nothing else, `NothingLeft`), and `Packed` says
  that the bundle is that of the workspace and the blob and the pull request are made of it. The
  rest is about paths: which files of the workspace lie below which directory, and so which the packer
  collects.

### What is only model-checked

The liveness properties, as the prover has no reasoning about fairness: `SlotsDrain`,
`OutcomeEndsStream`, `MessagesAreSettled` and `CompletedJobIsReported`, and of the refinements
`ImplementsCommitWalk` (of Calibration and of WorkerJob) and `ImplementsGrowingBranch` the part that
says that every walk and every attempt ends. The four runs that end in a violation are
counterexamples, and there is nothing to prove of them.


## 5. Plan

Done, in this order: JobService and JobStatus (the core: every other part reports to it), then
JobStream, KnowledgeStore and Calibration, JobQueue, PullRequestDelivery, Credentials,
JobProgress and the proofs of JobService, Credentials, JobProgress, JobStream and JobQueue; then
WorkerJob with the packages it calls, the abstract CommitWalk and GrowingBranch with the
refinements to them; then the proofs of PullRequestDelivery, Calibration with its store, WorkerJob
and the rest of Credentials, after which no safety property is left to TLC alone.

Next:

1. Safety lemmas that a liveness argument would use (a handler that has begun always has a step
   to take), so that what TLC checks under fairness rests on less.
2. A composition of JobService and JobStream, should the API come to promise how the streams of a
   cancelled job end.
