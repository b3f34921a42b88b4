# liner-notes: a TLA+ verification project

TLA+ models of the liner-notes repository (`src/`), the TLC configurations that
check them on small instances, and TLAPS proofs of what matters most, for every
instance.  Source paths are relative to `services/graph-service/src/` unless
they begin with `infra/` or `scripts/`.

1. [The system](#1-the-system): its parts, their state, how they interact
2. [What is hard about it](#2-what-is-hard-about-it)
3. [The modules](#3-the-modules): how state and actions correspond to the code
4. [The runs](#4-the-runs): what each shows, its bounds, its fairness
5. [Where the code and its comments differ](#5-where-the-code-and-its-comments-differ)
6. [The proofs](#6-the-proofs)
7. [What is not modelled](#7-what-is-not-modelled)
8. [The plan](#8-the-plan)

## 1. The system

liner-notes is one Node process (`graph-service`) beside one Neo4j database, on
a single k3s node that sleeps at night.  It ingests a Discogs collection into a
graph, enriches it from seven external sources in twenty-one stages, and serves
read-only queries over it.  There is one replica with strategy `Recreate`
(`infra/k8s`), so at most one process runs at a time; all concurrency is
between promises of one event loop, between the process and the database, and
between invocations of the Lambda that switches the node on and off.

| Component | State | Operations | Interacts with |
| --- | --- | --- | --- |
| Stage scheduler, `ingestion/scheduler.ts` | settled, launched, held lanes, promises in flight | launch pass, `Promise.race`, abort | orchestrator (run callbacks), shutdown signal |
| Stage registry, `ingestion/stage-definitions.ts`, `ingestion/stages.ts` | constants: 23 stages, deps, lanes | derivation of `RELOAD_STAGES` | scheduler |
| Reload orchestrator, `ingestion/orchestrator.ts` | doneStages, ranStages, counters | `runReload`, `runOneStage`, `runVerifyGate` | scheduler, job repository, progress slot |
| Job repository, `db/job-repository.ts` | `ReloadJob` and `ReloadStage` nodes in Neo4j | create, mark, finish, prune, abort, resumable query | orchestrator, admin routes, boot |
| Reload progress, `ingestion/reload-progress.ts` | one module-level slot | mark active, inactive | orchestrator, admin guards |
| Job registry, `ingestion/job-state.ts` | in-memory status of ingestion and enrichments | start, complete, fail | admin guards, boot |
| Admin routes, `api/admin.ts` | none | ingest, enrich, reset, reload, abort, wipe | everything above |
| Boot and shutdown, `server.ts`, `index.ts`, `lifecycle/shutdown.ts` | abort signal, tracked jobs | onReady resume, SIGTERM drain | job repository, orchestrator, runner |
| Enrichment runner, `enrichment/run.ts` | shared index, counters, retry list | worker pool, retry sweep | stages, fetch loop, shutdown signal |
| Fetch loop and breaker, `ingestion/rate-limited-fetch.ts`, `ingestion/circuit-breaker.ts` | breaker state, attempt | admit, retry, record | API clients |
| Coverage gate, `ingestion/reload-verify.ts` | none | thresholds | orchestrator |
| Instance scheduler, `infra/terraform/lambda/instance_scheduler.py` | EC2, alarms and schedules in AWS | start, stop, on, off, auto, rearm | EventBridge, CloudWatch, SNS |
| Ingestion, `ingestion/ingest.ts`, `db/ingestion-repository.ts`, `ingestion/transforms.ts` | counters; the graph | page, fetch, transform, write a release | Discogs client, job registry |
| Enrichment stages, `enrichment/*.ts` and their `db/*-repository.ts` | stamps on the nodes | select candidates, resolve, write, mark attempted | runner, API clients, Neo4j |
| Read API, statistics, backup, `api/*.ts`, `db/repositories`, `backup/` | a cache of statistics; a dump | queries, export, restore | Neo4j, S3 |
| Changelog store, `scripts/changelog` | two assets of a draft release on GitHub, one release per version | update, reconcile, backfill, cut, baseline | CI workflows, `gh`, an operator's checkout |

How the parts meet in a reload: `POST /reload` looks for a job that is still
running, creates a `ReloadJob` node with one `ReloadStage` row per stage, sets
the progress slot, and detaches `runReload`.  `runReload` reads the rows, gives
the stages that are not done to `scheduleStages`, and every stage checkpoints
its row before and after its work.  The work of nearly every stage is
`runEnrichment`: a pool of workers over a list of candidates, each calling an
API client, which goes through the fetch loop and the breaker of its source.
The last stage, `verify`, judges the coverage of the stages that ran.
`finishReloadJob` writes the terminal status and prunes old jobs.  SIGTERM
aborts one process-wide signal that the scheduler and every worker look at; the
next pod's `onReady` finds a job that is still running and calls `runReload`
with it.

What makes each component correct:

- **scheduler**: stages that share a lane never overlap, deps first, never more
  than the slots, no free slot wasted on a stage that could run, earlier wins,
  no launch after the signal, and an end with nothing in flight;
- **registry**: the derived graph is acyclic, the bookends really run alone,
  the two-axis writer never meets another batched writer of its axes;
- **orchestrator and job repository**: the durable rows tell the truth at every
  moment a pod may die; a complete job has done every stage; a job ends;
- **admin routes, progress slot, job registry, boot**: one graph-writing job at
  a time, an interrupted one is always found again, and no flag is left set;
- **fetch loop and breaker**: every call ends, an open breaker spares the
  source, and a half-open one always has its probe;
- **runner**: every candidate once, counters that add up to what happened, and
  a bounded number of retries;
- **track stages**: a track's derived data is of one recording, a terminal
  marker is only on tracks that deserve it, data and stamps go with the
  identifiers they came from, and every selected track is counted once;
- **persons** (ingestion's credits, `mb-artist-id`, `nationality`,
  `track-recording-artists`, `person-reconciliation`): one fallback node per MBID, a
  country only on the key it was looked up for, and no link or credit of Discogs lost,
  whichever key found the node;
- **lyrics**: text, verdict, source and score of a track agree, and a clear takes
  only what Genius brought;
- **catalogue stages** (labels, masters, groups, Wikidata facts): what a later run
  will not look at again is there in full;
- **changelog store**: a merged pull request is recorded in the end, ships in one
  version, and what is published is never cut short;
- **instance scheduler**: a node that runs is monitored, a planned stop is
  silent, and no alarm stands that nobody was told of.

## 2. What is hard about it

The full list, line by line, is `hazards` in `PROJECT.json`.  In short:

- *Interleaving.*  Which stages overlap depends on the order the others settle;
  handlers that await the database read before and act after; workers share an
  index and counters; requests admitted before a breaker trips settle after it;
  Lambda invocations run side by side.
- *Crash and restart.*  A pod may die between any two checkpoint writes, and a
  resumed life reads what the dead one left.
- *Partial failure.*  A checkpoint write may fail after the work was done, and
  so may the write that records the failure; a Lambda call may fail between two
  regions; a release, a master or a reset is written by several autocommitted
  queries, and what stands after a few of them may look finished.
- *Identity.*  A person is found by Discogs id, by MBID or by name, and merged by
  whichever key the writer has; no constraint keeps two nodes apart.
- *Time.*  Retries share a budget; a probe may outlast its breaker; a drain
  races its timeout; a rearm polls while a stop is under way.
- *Stale state.*  The gate judges what this life ran; the progress slot is
  module state; the answer of a query is old by the time it is used; a stage
  reads its candidates once and writes each of them minutes later.
- *Ends.*  A schedule, a call, a run and a job must end.

## 3. The modules

| Module | Models | Lines of code |
| --- | --- | --- |
| `StageGraph` | the stages as the scheduler sees them, and what `validateStageGraph` checks | `ingestion/scheduler.ts` |
| `StageSchedule` | abstract: what `scheduleStages` promises | `ingestion/scheduler.ts` |
| `StageScheduler` | the loop of `scheduleStages` | `ingestion/scheduler.ts` |
| `StageSchedulerProofs` | theorems about it | |
| `ReloadStages` | the 23 stages, and `RELOAD_STAGES` | `ingestion/stage-definitions.ts`, `ingestion/stages.ts` |
| `ReloadGraph` | the loop on those stages | `ingestion/orchestrator.ts`, `ingestion/stages.ts` |
| `ReloadJob` | one reload through its lives | `ingestion/orchestrator.ts`, `db/job-repository.ts`, `server.ts` |
| `ReloadJobProofs` | theorems about it | |
| `GraphJobs` | all graph-writing jobs and the routes between them | `api/admin.ts`, `server.ts`, `ingestion/reload-progress.ts`, `ingestion/job-state.ts` |
| `GraphJobsProofs` | theorems about it | |
| `EnrichmentRun` | one enrichment run | `enrichment/run.ts` |
| `SourceClient` | the client of one source | `ingestion/rate-limited-fetch.ts`, `ingestion/circuit-breaker.ts` |
| `Lyrics` | verdicts on tracks, from the service and from a workstation | `enrichment/lyrics.ts`, `db/lyrics-repository.ts`, `ingestion/lrclib-client.ts`, `ingestion/genius-client.ts`, `scripts/lyrics-enrich-local.ts` (of the service) |
| `EnrichmentProofs` | theorems about the three | |
| `TrackEnrichment` | the seven track stages, side by side | `enrichment/track-*.ts`, `db/track-*-repository.ts`, `ingestion/musicbrainz-client.ts`, `ingestion/acousticbrainz-client.ts` |
| `TrackEnrichmentProofs` | theorems about it | |
| `PersonIdentity` | Artist and Musician nodes under ingestion and the stages that find persons | `db/ingestion-repository.ts`, `ingestion/ingest.ts`, `enrichment/artist-musicbrainz-id.ts`, `enrichment/artist-nationality.ts`, `enrichment/person-reconciliation.ts`, `enrichment/track-recording-artists.ts` and their repositories |
| `PersonIdentityProofs` | theorems about it | |
| `Catalogue` | labels, masters, groups, Wikidata facts | `enrichment/label-hierarchy.ts`, `master-data.ts`, `mb-release-events.ts`, `group-members.ts`, `artist-wikidata.ts`, `artist-influences.ts`, `band-membership.ts` and their repositories |
| `CatalogueProofs` | theorems about it | |
| `InstanceScheduler` | the power switch | `infra/terraform/lambda/instance_scheduler.py` |
| `ChangelogStore` | the changelog's store, its scripts and its workflows | `scripts/changelog/*.ts`, `.github/workflows/changelog*.yml` |
| `OperationsProofs` | theorems about the two | |

`StageGraph` is extended by the first two; `StageScheduler` is shown to
implement `StageSchedule`; `ReloadJob` takes `StageSchedule` by INSTANCE, so
that the orchestrator is checked against the scheduler's promise and not
against its loop; `ReloadGraph` extends `StageScheduler` and `ReloadStages`, and
`MCReloadGraph` gives the scheduler the graph of the one as its constants.  Every module also holds *slips*: operators marked "a slip"
that change one definition the way a plausible bug would.  No specification
uses them; they are the mutants each property is shown to catch.

### StageGraph, StageSchedule, StageScheduler

`Order` is the array, `Deps` and `Resources` the two fields of a
`SchedulableStage`.  The loop of `scheduleStages` is a phase: `scan` is one
position of the `for` loop per step (`Launch` and `PassOver` are its body,
`StopScan` its two breaks, `Fits` its three continues), `await` is the
`Promise.race`, `exit` the return.  A stage's promise settles in `RunSettles`;
`Reap` is what the loop does with the winner of the race.  The pass is
synchronous JavaScript, so promises settle and the signal fires in `await`
only.  `exit` keeps why the loop ended: `stuck` is the branch that logs
"scheduler stuck".

`StageSchedule` keeps `settled`, `inflight` and whether the schedule is `open`
and knows neither cursor nor held lanes.  The refinement maps `open` to
`~aborted` and the other two to themselves; its fairness is part of what is
checked.

### ReloadStages, ReloadGraph

Every `StageDefinition` with its deps, lanes and required client, `RELOAD_ORDER`
as in the code, and `RELOAD_STAGES` put together the way `stages.ts` does:
releases first, verify last with the names of all the others as its deps.
`ReloadGraph` is what `runReload` makes of it for `scheduleStages`: the array of
names, and by name the deps and the lanes.

### ReloadJob

Durable state is `job` (`ReloadJob.status`) and `row` (`ReloadStage.status`);
the rest is memory of `runReload` and is lost in `Crash`.  `step[s]` says at
which await `runOneStage` is for stage s:

| `step[s]` | the code waits for | left by |
| --- | --- | --- |
| `marking` | `markStageRunning` | `MarkRunning`, `MarkRunningFails` |
| `working` | the stage's `run` | `StageReturns`, `StageInterrupted`, `StageThrows` |
| `complete`, `skipped` | `markStageComplete`, `markStageSkipped` | `MarkStageComplete`, `MarkStageCompleteFails` |
| `failing` | `markStageFailed` in the catch | `MarkStageFailed` |
| `judging`, `passed`, `rejected`, `errored` | `getStats` and the writes of `runVerifyGate` | `Judge`, `GateThrows`, `GatePasses`, `GateFails`, `GateRecordFails` |

A failing database call (`Fault`) may or may not have taken effect.  Which
stage starts is `Schedule!MayStart`.  `ScheduleEnds` is the code after
`scheduleStages`: the early return on a shutdown, else the counters decide.
`origin` tells the two callers of `runReload` apart, because only the route's
catch records a job failed.  `FindRunningJob`, `AbortGuard` and
`AbortReloadJob` are `POST /reload/abort` with its two awaits.  What a stage
does is a choice of outcomes here; `EnrichmentRun` has its inside.  `judged` is
a history variable: what the last gate verdict looked at.

### GraphJobs

Jobs are numbered by `startedAt`.  `run[j]` is where the `runReload` that was
given job j is, `target[j]` the job it works on, which differs when j was wiped
and it created a fresh one; `active` is the slot of `reload-progress.ts`,
`ingesting` and `pipe` the job registry.  A route that awaits is a record in
`req`: which route, at which await, what its query answered (`seen`).  Routes
that decide synchronously are one action each (`PostIngest`, `PostEnrich`,
`PostPipelineReset`).  `Find`, `CreateJob`, `WipeGraph`, `AbortReloadJob` and
`ClearGeniusLyrics` are the queries, the `...Guard` actions what the handler
does with an answer.  `Boot` is `onReady`.  `overlap` is a history variable: it
becomes true when two handlers that await were open at once, or an abort came
while a resumed run was reading its job, the windows in which the guards are
known not to hold (section 5).

### EnrichmentRun

`phase` is the await `runEnrichment` itself is at; `hand[w]` what worker w of
`drainPool` holds and how far it is.  `next` is the index the workers share,
`collected` the list the pass fills (`retryableFailures` in the main pass,
`stillFailing` in a round).  `Tally` is the counting of `handleItem` and of the
sweep's callback, `Collects` the retry list.  `Resolve` and `Write` are
`processItem`; an error is transient or fatal by `retry.isRetryable`, and a
write that throws may have committed.  `stamped` is what the graph holds;
`tries` is a history variable, the outcomes of each item in order.

### SourceClient

`at[c]` is where call c is: the request itself, the backoff before a retry, or
the pause after an answer (when the outcome is recorded).  `state`,
`consecutiveFatals` and `sinceTrip` are the breaker's fields; the last two
saturate where the code only compares.  `RecordAlive`, `RecordTransient` and
`RecordFatal` are `record`; `Admit` and `AdmitProbe` are `allowRequest`.
`EndThrown` is the path that throws without a record.  `probe` and `lost` are
history variables: which calls were admitted as a recovery probe, and whether
one of them threw.

### TrackEnrichment

A run of a pipeline is its `running` flag (the `entry.state.running` of the admin
route) and `todo`, the candidates it read and has not settled.  The flag excludes
only a second run, or a reset, of the *same* pipeline; different ones run side by
side, and between the read of the candidates and a write by `elementId` anything
may have happened to the track.  A group `[key, tracks]` is one recording and the
tracks the lookup is fanned out to.

| Action | Code |
| --- | --- |
| `Start`, `Resets`, `RunEnds` | `POST /<name>/enrich`, `POST /<name>/reset`, the `finally` of the run |
| `WantsMbid`, `WithoutWork`, ..., `WithoutDeezer` | the `WHERE` of each candidate query; `NotThrottled` is its staleness window |
| `ResolveRelease`, `WriteRelease` | `resolve` and `write` of `track-musicbrainz`, one statement for the whole tracklist |
| `MergeTrackWorks` and the other three, `MarkAttempted` | `write` and `markAttempted` of the linking stages |
| `WriteFeatures`, `MarkExhausted`, `BatchFails`, `MarkFails` | the two writes of an AcousticBrainz batch, and its catch at either |
| `LookUpIsrc`, `LookUpFails`, `Flush`, `FlushFails` | the loop of `track-deezer` and its buffer |
| `ResetTrackMusicBrainz` ... | the `reset` functions; the cascade of the first |

Works, credits, studios and related recordings are all the recording they were
looked up for: what the properties tell apart is whose data a track carries, not
which names.  A track's ISRC is its recording's (`Registered`).  The answer of a
lookup is chosen freely within what the client can return; AcousticBrainz is
frozen, so `Analysed` is a constant.  `overlapped` is a history variable: the runs
that were in progress when `track-musicbrainz` was reset.  An ingestion refuses to start beside
an enrichment and never touches these properties of a track it meets again.

### PersonIdentity

`artists` is one node per Discogs id (a uniqueness constraint), `musicians` a pool
of nodes that nothing keeps apart.  A node's `credit` says per target who made the
`CREDITED_ON` edge, `same` the Artists it is `SAME_PERSON_AS`, and `country` the
*key* the country was looked up for, so that a country on the wrong person shows.

| Action | Code |
| --- | --- |
| `StartIngest`, `NextRelease` | `ingestReleases`: the list of releases, `getRelease` that answers or fails |
| `RunQuery`, `QueryFails` | one autocommitted query of `mergeReleaseGraph`, in the order of the code; a failure leaves the prefix written |
| `StartMbids`, `MbidsOfMusicians`, `ResolveMbid`, `ResetMbids` | the two candidate lists of `mb-artist-id`, its write by Discogs id, its reset |
| `StartRecordingArtists`, `CreditRecording`, `ResetRecordingArtists` | `track-recording-artists`: one statement that merges by MBID; the reset's single transaction |
| `StartNationality`, `CountriesOfMusicians`, `ResolveCountry` | `nationality`: the row read, `resolveCountry`'s precedence, `setMusicianNationality`'s |
| `ReconcileSamePersonLinks` | `person-reconciliation` |
| `ItemFails`, `EndRun`, `Restart` | a lookup that throws, the end of a run, the death of the service |

A `MERGE` is `Matched`: every node with the key, or one that was free.  The stamps
only throttle, so which of the eligible nodes a run takes up is left open.  An
ingestion runs alone (`busyWith` of the admin routes, both ways); pipelines run
beside each other.  `reset` of `nationality` removes the stamp only and is covered
by that freedom.

### Lyrics

A text is named by its source.  `todo[p]` holds the rows that process p has read:
the track and the voice signal *as it was*.  `ResolveLyrics` is the order of
`resolve` (LRCLIB, the voice signal, Genius), `GradeMatch` the gate of `match-confidence.ts`
whose arithmetic is abstracted to match or mismatch, and `WriteVerdict` the
three queries of the repository.  The `script` is `lyrics-enrich-local.ts`: the same function
from another process, without the staleness window and without the guards.
`RequestClear` and `ClearGeniusLyrics` are the two halves of
`POST /lyrics/clear-genius`, whose guard holds nothing.  `touched` and `raced` are
history variables: tracks that another process wrote after this run had read them,
and those this run then wrote all the same.

### Catalogue

Each stage has its stamps (`stamp`), its candidates (`Candidates`, one operator per
candidate query) and its run (`running`, `todo`).  `writing[s]` is what is left of
the queries of the item, or the reset, under way.  A list is put together from `Send`
(a query that is always sent) and `SendRows` (one the code leaves out for want of
rows) in the order of the code; `Query` takes the first.  `EnrichMaster`, `EnrichEvents`, `EnrichGroup`,
`EnrichLabel` and `EnrichWikidata` are the answers and the first decision;
`WriteMaster` and `WriteReleaseEvents` the queries; `LinkFacts` is
`artist-influences` and `band-membership`, one query each.  `NormalizeCountry` is
the table from a market's name to countries and regions.  `QueryFails` and `Dies`
cut a write off anywhere.  History variables: `answered` is the places an answer
stood for, `linkable` who was collected when a group was last checked, `torn` the
nodes a write or a reset was cut off at, `stale` the edges whose ground a reset has
taken.

### ChangelogStore

`lines`, `bad` and `manifest` are the two assets of the draft, `refs` and `published`
what is on GitHub besides.  `run[s]` is a script at one of its steps (`at`), in CI
or on a checkout (`s`); it holds the copies of both assets it read (`recs`, `vers`),
and writes them back by deleting and uploading each (`gone`, `owed`).  `queued` is
the one pending run that the concurrency group keeps.  The `Plan...` actions are the
five scripts between their read and their first write, over the helpers of `lib.ts`
(`Upsert`, `NeedSummary`, `StampVersion`, `BackfillVersionStamps`, `CalverTag`).
`Merge`, `Dispatch`, `Schedule` and `Age` are GitHub, the calendar and the operator.
What a summary says is abstracted; a published body is its set of pull requests and
the version before it.  `merges`, `mishaps`, `dispatches` and `locals` count down what
may still happen, and `locals` has the scripts a checkout may run; `Budgets` are the
values they start with.  Nothing in the code keeps a run on a checkout from one in CI,
and nothing in the model does; `crossed` is a history variable, set once a run writes
(`Writing`: from its release, or from the first asset it deletes, to its end) while
another relies on the store (`Relies`: from its reads to its end), and `recut` has the
tags whose release a second cut then edited.  A release that is there when a cut comes to
create its own makes it take a second tag, as a ref at another commit does (`Collides`).
The date of a version is how many other releases there were when
it was cut (`BuildCut`): that orders the versions as their timestamps do, also when a
baseline is published again because its first run died.  Its Init, Next, Spec and
variables have names of their own (`ChangelogInit`, `mishaps`, `losses`, ...), because
`OperationsProofs` extends it together with `InstanceScheduler`; an asset is a function
from the pull requests or tags it has (`Empty`, `Only`, `Over`).

### InstanceScheduler

`task[t]` is an invocation: the action it does, the call it is at, the regions
or schedules it has still `todo`, what happens after arming (`after`), and how
often Lambda retried it.  Each call to AWS is an action, each may fail while
`faults < MaxFaults`.  `AsyncRetries` is how often Lambda retries an asynchronous
invocation that raised.  EC2 (`Stopped`), CloudWatch (`Fires`, `Recovers`) and
EventBridge (`Nightly`) are external.  Four variables are history: `told`, whether
somebody was told of the alarm as it stands; `calm`, whether the node was put to sleep
by a stop that overlapped nothing; `forsaken`, the alarms an invocation left suppressed
when it gave up (`GivesUp`: it raises, and nobody retries it), until they are armed or
a start takes them over; `unheard`, the alarms in ALARM that an invocation left untold
when it gave up, and those that fired while suppressed over a running node, until a
poll sees them, they recover, or a page goes out.

## 4. The runs

Each run is `tlc -config X.cfg M`.  "States" are distinct states.

| Run | Module, cfg | Asks | States |
| --- | --- | --- | --- |
| `scheduler` | `MCStageScheduler` | the books of `scheduleStages`, its promise, its end | 1,137 |
| `reload_graph` | `MCReloadGraph` | the same loop on the real 23 stages, three at a time | 101,027 |
| `reload_job` | `MCReloadJob` | the checkpoints of a reload and its end | 642,552 |
| `graph_jobs` | `MCGraphJobs` | the admin routes, the resume and the flags | 860,652 |
| `enrichment_run` | `EnrichmentRun` | the pool, the counters, the sweep | 48,385 |
| `source_client` | `SourceClient` | the breaker under concurrent calls | 9,143 |
| `track_enrichment` | `MCTrackEnrichment` | whose data a track carries, and the counters | 713,115 |
| `person_identity` | `MCPersonIdentity` | which key's country, which link and credit a node carries | 1,570,487 |
| `lyrics` | `Lyrics`, `MCLyrics.cfg` | whether text, verdict and source agree | 21,273 |
| `catalogue` | `MCCatalogue` | whether what is marked done is complete | 1,362,926 |
| `instance_scheduler` | `MCInstanceScheduler` | overlapping invocations and failing calls | 3,277,371 |
| `changelog` | `MCChangelogStore` | what ships, and whether it is recorded | 545,945 |

All runs set `CHECK_DEADLOCK FALSE` because every one of these systems
may stop: a schedule or a run ends, a client is not called.  That they do not
stop too early is what the liveness properties are for.

### scheduler

A graph with every feature of the real one: a root, a lane that three stages
share, a stage with two lanes, one that waits for a stage other than the root,
a last stage that waits for all; two slots; from **every** set of stages already
done, a name that is no stage among them (a retired stage of an old job).  Six
stages are enough for a later stage to overtake an earlier one, for the slots
and for a lane to be what stops a launch, and for a two-lane stage to wait for
each of its lanes.  What does not depend on the graph is proved (section 6).

`WorkConserving` (while the loop waits with a slot free, no stage that could run
is left behind), `ImplementsPromise` (every behaviour is one of `StageSchedule`, fairness
included), `EveryStageSettles` (the loop ends, and without a shutdown it ends
with every stage settled).

Fairness: the loop goes on (one event loop, nothing in it blocks), and each
`run()` promise settles, because every request, query and sleep below it is
bounded.  Nothing makes the signal fire.

### reload_graph

`RunAlone` relates stages that share no lane: `verify` runs beside nothing
(`VerifyAlone`), `releases` beside nothing in a fresh job (`ReleasesFirst`), and
`person-reconciliation`, which writes two axes, neither beside `artist-genres` nor beside
`group-members` (`PersonReconciliationAlone`).  They follow from the deps of the whole
graph, so a new stage that forgets one breaks them.  Three slots are what
`infra/k8s/graph-service/deployment.yaml` sets `RELOAD_STAGE_CONCURRENCY` to
(`orchestrator.ts:44` defaults to 2).  Checked for a fresh job and for four resumed
ones, chosen so that a stage of the middle is left (`track-musicbrainz`), or a stage and
something downstream of it with a done stage between.  A resumed job knows direct deps
only: that is where the transitive argument of a comment may fail, and for the releases
it does.  The releases stage fails, which holds nobody back (a dep is an ordering edge),
`master-data` completes, and the pod dies before `mb-release-events` is done; the next
life runs the releases again and `mb-release-events` beside them.  The run has that job,
and `ReleasesFirst` says how far it goes: beside the releases run only stages that wait
for them through others alone, and those were all done in an earlier life.

### reload_job

Four stages: `releases`, one that needs an optional client and shares its lane,
one that has neither, and `verify`; two slots.  `MaxCrashes` 2 lets a resumed
life die too; `MaxFaults` 2 lets a checkpoint write fail and then the write that
records the failure; `MaxAborts` 1 is one operator.  A job has no counter that
a third crash or fault could carry further.

- `CompleteMeansDone`: a complete job has every row complete or skipped.
- `DoneStaysDone`: no later life runs a done stage again or rewrites its row.
- `GateJudgedThisLife`: the gate judged exactly what produced output.
- `JobEnds`: without failing calls every job ends, whatever
  dies on the way; with them it ends or is left to an idle pod (and
  `POST /reload/abort`).

Fairness: the process runs on; each stage's work settles; a pod that received
SIGTERM exits, because the drain has a timeout (`lifecycle/shutdown.ts`); a dead
pod is replaced, because Kubernetes restarts it.  Crashes, faults, aborts and
the shutdown signal itself have no fairness.

### graph_jobs

One request that may be any of the four routes that await (`MCFirst`), beside
a second one that wipes, one pipeline, ingestion; two reload jobs ever,
`Keep` 1 so that pruning really happens, one crash, one rejected run or boot
without credentials.  Two open requests are what the windows of the guards need;
the second is a reset because that is the one that destroys what others work on.

- `SerialReloads`: as long as no two handlers overlap, one live reload at most.
- `NothingStartsDuringReload`: no ingestion, enrichment or reset begins then.
- `WipeSparesEarlierReload`: a wipe never hits a reload that was live when it
  was asked for.
- `NoOrphanJob`: a job that blocks new reloads is being run, or about to be.
- `FlagNotLeaked` (without that condition): the slot never outlives its run.

### enrichment_run

Three candidates, two workers, two rounds, `Cap` 2 (so that three transient
failures are too many to sweep and two are not), one verdict without a handler.
Two workers on three items already reach every interleaving of draw, resolve and
write; two rounds are needed for an item to fail, recover or fail again.

`ClaimedOnce` (no item in two hands, and again only after a transient failure),
`CountsExact` (each counter is the number of items whose latest outcome it
counts, at every moment), `SummaryMatchesGraph` (what is not counted failed is
stamped, so the next run takes up the rest), `RunEnds`.

### source_client

Three callers, so that one can be left over from before the trip, one be the
probe and one be refused; `Threshold` 2 and `Cooldown` 2 are the least for which
a count and a wait are not the first step; with and without a cooldown.

`HalfOpenHasProbe`, `CallsSettle` (every call ends, and a half-open breaker is settled
unless its probe threw an error of its own).  Fairness: each request has a
timeout, each sleep ends, time passes.

### track_enrichment

Two tracks of one release share a tracklist and, when they resolve alike, a
lookup; two recordings, one in AcousticBrainz and one not, are what a track can be
moved between; four runs or resets (`MaxStarts`) allow a track to be resolved,
enriched, reset and enriched again, and two at a time (`MaxParallel`) every pair
of pipelines to overlap.  Batches of two let a batch be full, partial or mixed.
The tracks are symmetric; there is no liveness property.

- `OneRecording`: what a linking stage has attached to a track is of one
  recording.  The candidate query asks for tracks without an edge, but the write
  comes later; the running flag of each pipeline is what makes it hold.
- `ExhaustedIsConfirmed`: the terminal marker, which no run ever questions, is
  only on tracks found without any analysis, and never beside features.
- `CascadeComplete`: no stamp or data of works, AcousticBrainz and Deezer outlives
  the identifiers it came from, unless its run was in progress at the reset.
- `BooksBalance`: a selected track is waiting, buffered or counted exactly once,
  whichever write fails.

No fairness is assumed: every property is one of safety.

### person_identity

Two releases: one credits d1 on its track, the other is *released by* d1 and has a
credit without an id; MusicBrainz credits m1, which it links to d1, with both
tracks, and m2, which it does not, with the second; all go by one name, but for one
credit of d1.  So a person may come first as a credit, as an Artist,
as an MBID or as a name, in either order of releases, under either name, and beside a
same-named person of another MBID.  Three Musician nodes are what an id, an MBID and a
name without either need, or an id and two MBIDs.  Two ingestions let a second one
meet what pipelines wrote since; three runs or resets let a country be looked up,
the MBID be reset and another node take it; one death.

- `FallbackUnique`: an MBID is on at most one Musician without a Discogs id.
- `CountryOfOwnKey`: a country is on nodes of the key it was looked up for, though it
  is written long after the row was read: one of a Discogs id on the nodes of that id,
  one of an MBID on nodes without an id that have that MBID or, since its reset, none,
  one of a name on nodes of that name without an id.  Nodes, not persons: a country
  found by name is also on the MBID fallbacks of that name (section 5).
- `ReconciledLinksStay`: after `person-reconciliation`, and until the next
  ingestion, every collected person is linked to their Artist.
- `DiscogsCreditsKept`: no step removes a credit of Discogs or hands it to
  MusicBrainz, whose reset would delete it, except on a node that looks like a
  fallback (section 5).

### lyrics

One track, because no step relates two (section 6 proves both properties for any
number); five runs or clears, enough for a doubt, a text, a clear and a second text,
from either process; Genius on both sides.

- `FunnelHolds`: a track is resolved exactly when it has lyrics, and its source and
  score are those of the text.
- `LrclibLyricsKept`: no step removes or replaces lyrics of LRCLIB; the clear selects
  tracks by `lyricsSource`, which a doubtful match of Genius also sets.

Both except the tracks in `raced`, that two processes wrote from stale rows.

### catalogue

Two releases of one master, one with a group credited and the other with its member,
so that a second ingestion completes what the first could not; a market that is a
country, one that is a region and one that is both; four runs or resets, two
pipelines at a time, two failing queries or deaths.  `Scopes` checks pipelines apart
that read nothing the others write: of those in one set every overlap is reached.

- `DatedIsComplete`: a release with an original year, which no run takes up again,
  has its master with every place that came with the year.
- `EventsAreComplete`: a master with events, which no run takes up again, has its
  release group and every place of the answer, unless a write or a reset of it was
  cut off.
- `MarkersMatchEdges`: one parent per label and the stamp with it; the terminal
  marker only where no member could be linked; a checked group is linked to every
  member collected by then.
- `FactsAreBacked`: every edge drawn from Wikidata lists is one they still tell,
  unless they were reset.

No fairness is assumed in these three: every property is one of safety.

### instance_scheduler

Two invocations at a time (a third would only repeat a race of two), two alarms
(two regions: one may be done and the other not), two failing calls, whichever they
are.  `AsyncRetries` is 1 where Lambda has 2, so that two failures exhaust the retries
as three do there; the theorems are about any number of either.  Tasks and
alarms are symmetric; there is no liveness property, so the symmetry is sound.

- `MonitoredWhenRunning`: a node that runs when all is over has its alarms armed, but for
  those in `forsaken`.  The code's comment has no such exception (section 5); every
  other failure is repaired by the retry, the rollback or the pass that pages.
- `NoSilentAlarm`: an alarm in ALARM over a running node was told of, but for those in
  `unheard`.
- `QuietSleep`: a stop that overlaps nothing and does not fail ends in no notification.

### changelog

Two pull requests, two tags of a day and the baseline.  Two pull requests are what a
swept one and a missed one need.  What may happen besides is one of four budgets
(`MCBudgets`): CI by itself with two merges, two dispatches (runs by hand or of a deploy)
and a mishap (a run that dies at any step, or a damaged line); the scripts that set the
store up (backfill, baseline) on a checkout beside the hook's and the scheduled runs of
two merges, or of one with a mishap; the others (update, reconcile, cut) on a checkout
beside the runs of one merge and a dispatch, which may be of a cut.  Their sum is out of
TLC's reach in five minutes; the theorems have no such bound: any script any number of
times, on a checkout as in CI.

- `ShipsOnce`: two published versions share no pull request, unless the run of one
  died before its version was recorded, a line was damaged, an upload was cut short
  (`torn`), or two runs crossed (`crossed`).
- `ManifestKnowsReleases`: what is published is in the manifest with the same pull
  requests once no run is left, with the same exceptions.
- `PublishedBodyStable`: a published body never loses or gains a pull request, but for
  a baseline that was never recorded and a release that a second cut of its tag edits
  after the two crossed (`recut`); and until an upload is cut short or two runs cross,
  rendering it again changes nothing.  Two such cuts list different pull requests only
  with two merges, a dispatch and a cut on a checkout: beyond the run's budgets, within
  the theorem's.
- `EveryMergeRecorded`: every merge is recorded or leaves the window of 21 days first,
  though the group's single pending run may be replaced.

Fairness: the weekly schedule fires, a queued run starts, and the steps of a run in CI
go on; a run on a checkout may stall at any step, nothing makes a run die, and nothing
makes a merge, a dispatch or time happen.

## 5. Where the code and its comments differ

Met while modelling.  The models do what the code does, so where a property would
state the comment it excepts the case, by a history variable or in its text, and
`hazards` says so.

### Reloads, routes and clients

- `ingestion/orchestrator.ts:115` says `verify` reads a fully populated set of
  stages that ran.  After a failed stage, a passed `verify` and a pod death, the
  next life runs the failed stage again, skips `verify`, and completes the job with
  that stage unjudged.  `GateJudgedThisLife` is about one life.
- `ingestion/reload-progress.ts:13` says the 409 guard and the resume guarantee a
  single active job; `api/admin.ts:920` reads and awaits before it creates, so two
  requests start two.  `SerialReloads` holds outside that window (`overlap`).
- `ingestion/circuit-breaker.ts:135` promises a single recovery probe; `record`
  (line 164) does not know whose outcome it gets, so a request from before the trip
  settles the half-open state and others are admitted beside the probe.
- `enrichment/run.ts:200` and `enrichment/track-musicbrainz.ts:106` say a failed item
  is left unstamped; `searchRecording` (`ingestion/musicbrainz-client.ts:786`)
  answers null when its request fails or the breaker is open, so the track is
  stamped, and an identifier it had before is cleared.
- `ingestion/stages.ts:77` says no Artist-axis deadlock is possible because
  `artist-genres` is the only batched Artist writer; `artist-influences` and
  `band-membership` also write many artists in one statement, hold no lane, and
  run together.
- `instance_scheduler.py:256` says a node that still runs must stay monitored; the
  suppression at line 259 is before the `try` that rolls back, so a `power:off` whose
  second region fails to suppress leaves the first suppressed, and nobody retries it.
  A rollback that fails in the last retry does the same (`forsaken`).
- `instance_scheduler.py:211` says a rearm leaves the suppression of a later stop
  alone; only its deadline path looks at the instance.
- `instance_scheduler.py:222` arms what the poll of line 221 read as OK; an alarm
  that fires between the two notifies nobody, then or later (`unheard`).
- `db/track-musicbrainz-repository.ts:124` says the reset cascades to every
  enrichment keyed off the identifiers; recording credits, studios and lineage
  keep their edges and stamps.

### Persons

- `db/artist-nationality-repository.ts:150-153` says the write never spills onto a
  same-named node of another MBID and reserves the match by name for nodes without a
  key; the query has no such guard: a country found by name lands on every fallback of
  that name and replaces what was looked up for its MBID.
- `db/track-recording-artists-repository.ts:145` says its reset deletes only what
  the stage made; a Discogs credit without an id that `MERGE`d onto a fallback of
  that name is deleted with the node.
- `reset` of `mb-artist-id` takes the MBID off fallbacks too, which no stage resolves
  again and whose tracks are not selected again.
- `db/ingestion-repository.ts:2` calls all writes idempotent; a credit without a
  Discogs id goes by name, so a second ingestion may credit another node of that
  name.  Nothing that Discogs no longer tells is ever removed.

### Lyrics

- `db/lyrics-repository.ts:28` calls two verdicts terminal and excluded; a doubt of
  Genius leaves `lyricsSource` set, an instrumental verdict of LRCLIB keeps it, and
  `clear-genius` then removes the terminal verdict.
- An open breaker of LRCLIB reads as no record, so that a track with an instrumental
  voice signal gets a terminal verdict nobody looked up; it also outlives the signal.
- `db/lyrics-repository.ts:225` states the funnel, resolved if and only if lyrics are
  present; two processes that write one track in turn, each from a row it read
  before, break it (`raced`).
- `api/admin.ts:609` guards `clear-genius` and then awaits; a run may start between.

### Catalogue

- `db/mb-release-events-repository.ts:131` and `enrichment/mb-release-events.ts:104` say
  a crash in mid-write leaves the master selectable; after the country edges it is
  not, and its region edges and its stamp stay missing.
- `getReleaseEventsByReleaseGroupMbid` (`ingestion/musicbrainz-client.ts:455`) returns
  the pages it has when the breaker opens, and the stage stamps them as complete.
- The reset of `mb-release-events` removes markers first and edges second: cut off
  between, masters keep edges without a release group until the next reset.  That of
  `group-members` has the other order: cut off, groups look checked and have no
  members.
- The reset of `label-hierarchy` (`db/label-hierarchy-repository.ts:106`) deletes the
  edges of stamped labels, not all; `MarkersMatchEdges` shows there are no others.
- A Wikidata lookup that fails reads as unknown and is stamped; the edges of
  `artist-influences` and `band-membership` survive the reset of their ground, and
  `setGroupMembers` never unlinks a member who has left the roster.

### Changelog

- `.github/workflows/changelog-release.yml:11` says a cut is of the deployed commit;
  it tags that commit and sweeps every unreleased record, those merged later too.
- `backfill.ts:75` adds a lost record of a released pull request without a version,
  and a cut before the next reconcile ships it again.
- `lib.ts:446` says a dropped line is added again on the next pass; only within the
  21 days the pass looks at.
- `store.ts` reads, works and writes back without a check that the store is still what
  it read, and `.github/workflows/changelog.yml:28` groups the runs of CI only: a run on
  a checkout that crosses one in CI drops what that one wrote, and the next cut may
  ship it again (`crossed`).
- `release.ts:153` says a same-day tag collision takes the next tag, and a release that
  appears between `store.ts:456` and the create does; one that is there at the look is
  edited, so that of two crossed cuts the second may overwrite the body of the first
  (`recut`).
- `store.ts:227` takes any failure of its look for the draft for there being none.
- A cut whose run died after the tag makes the next of that day take another tag once,
  and two of them make it fail.

Less than a contradiction, and noted as hazards: `songwriter-reconciliation` relies on
transitive deps that a resumed job cuts short; an abort between the clearing of
the slot and `finishReloadJob` is overwritten; a late prune may delete its own
job; an abort in the moment a resumed run reads its job passes the guard; a
retried nightly start may follow a `power:off`.

## 6. The proofs

`StageSchedulerProofs` proves, for every list of stages, every graph, any number
of slots and every set already done, from `OrderAssumption` (the array lists
finitely many stages, none twice) and `GraphAssumption` (deps are stages):

| Theorem | Says |
| --- | --- |
| `TypeCorrect` | `Safety => []TypeOK` |
| `LanesExclusive` | `Safety => []LaneExclusion` |
| `HeldIsExact` | the held set is exactly the lanes of what is in flight |
| `NoStageMissed` | `Safety => []WorkConserving` |
| `NothingLeftInFlight` | at the exit nothing is in flight and all launched has settled |
| `NotStuck` | `ValidStageGraph(Deps)` gives `Safety => []NeverStuck` |
| `UpstreamFirst` | a stage runs neither beside nor before any it waits for, however indirectly |
| `Priority` | `Safety => EarlierWins` |
| `ShutdownStopsLaunches` | after the signal what is in flight only shrinks |
| `Implements` | `Safety => Promise!Safety` |
| `ScheduleComesToItsEnd` | `ValidStageGraph(Deps)` gives that every step brings the end nearer, and no wait is in vain |
| `ReloadNeverStuck` | `IsReload` gives `Safety => []NeverStuck` |
| `ReloadRunsAlone` | `IsReload` gives `Safety => []RunAlone` |

`LaneExclusion` is not inductive: the loop tests `held`, not the stages.  The
invariant adds `HeldExact` and that conflicting stages are never both in flight,
without which releasing one stage's lanes could free another's.
`WorkConserving` needs to say what the pass has done so far: every position
before the cursor holds a stage that does not fit, and launching only ever makes
fewer stages fit, so at the end of the pass nothing fits.  `NotStuck` is what
the comment at `scheduler.ts:103` claims, that a graph `validateStageGraph` accepts never
reaches the branch: of the stages that have not settled one waits for none of the
others, with nothing in flight no lane is held, so it fits, and the invariant says at
the end of the pass that nothing does.  The order of the array plays no part in it.
`EarlierWins` is the same
invariant read at a launch.  `Implements` maps a launch to `Start`, a reap to
`Settle`, the signal to `Close`, and all else to a stutter.

`UpstreamFirst` needs what one stage waits for through others, without a recursion:
`WaitsFor(t, s)` says that every set which holds t, and with each stage its deps, holds
s.  What was launched this life and waits for s finds s settled, because the last of its
deps on the way did.  `RerunWhole` excepts an s that a resumed job runs again although a
stage downstream of it was done, for there the edge that would hold back is gone.

The two theorems about the reload itself assume `IsReload`, that the scheduler is given
the 23 stages, and compute what they are: `STAGE_DEFINITION_BY_NAME` finds each
definition by its name since no two share one (`FoundByName`), the array lists them in
the order of `RELOAD_ORDER` (`ListBeforeVerify`, `ReloadList`), and every dep is earlier
in it (`ReloadSorted`, the repository's unit test).  A sorted array has no cycle
(`SortedIsValid`), hence `ReloadNeverStuck`.  For `ReloadRunsAlone` every stage waits for
the releases, most of them through others (`AllWaitForReleases`, then `UpstreamFirst`);
the verify gate and person reconciliation have direct deps on what they must not meet,
and need no assumption on the jobs resumed.

`ScheduleComesToItsEnd` is the part of `EveryStageSettles` that is not fairness.  The
stages not settled, the phases left of a round, the places left to look at and the runs
that have not ended are numbers, and the first of them a step changes it makes smaller
(`Nearer`), so that no behaviour can go on for ever; the loop waits only while a stage is
in flight, and leaves only with all of them settled or at a shutdown (`WaitsForSomething`,
which is where `NotStuck` is needed).

`ReloadJobProofs` proves, for every graph of stages, any number of slots and any
numbers of crashes, faults and aborts, from `OrderAssumption`, `VerifyAssumption`
(`verify` is a stage) and `BoundsAssumption`:

| Theorem | Says |
| --- | --- |
| `TypeCorrect` | `Spec => []TypeOK` |
| `CompleteIsDone` | `Spec => []CompleteMeansDone` |
| `DoneIsFinal` | `Spec => DoneStaysDone` |
| `GateSawAll` | `Spec => []GateJudgedThisLife` |
| `ReloadComesToItsEnd` | every step of a life brings its end nearer, and no job is left behind without a reason |

The code decides a job's status by a count: the stages it counted this life, and
those earlier lives had done, against the number of stages.  So the invariant is
about a count: `counted` plus the number of stages found done is at most the
number that settled or are recording a failure, hence when the sum reaches the
number of stages every stage settled; and without a failure and without an
interruption a settled stage has a row that is complete or skipped (`BooksInv`).
`LifeInv` says where that may be relied on: there is no schedule before the rows
were read or after the life ended, and what a life took as done is done in the
durable rows.  `EndInv` says that a status that is about to be written was
decided so.  An abort from the operator may fall between any two of these steps;
it rewrites running rows only, and its own job status is never `complete`.

`GateSawAll` is about a pod's first life, in which nothing is taken as done from
before.  What `ran` holds has settled with a complete row, and as long as no failure
is counted nothing else has one (`RanInv`): a failing write can leave a row complete
of a stage that did not run to its end, but then the job fails.  The gate is the last
stage to start, so what it passed it judged over all that ran (`LastInv`), and a job
is complete only after it (`JudgedInv`).

`ReloadComesToItsEnd` is the part of `JobEnds` that is not fairness.  Each stage has a way
through `runOneStage`, the process has one, and so have the requests from outside; a step
takes one of them on and sends none back, failures and their catches included
(`LifeNearer`), and only a pod death starts over, from the checkpoints (`JobNearer`).
Where it comes to rest the job has ended, or the process is shutting down, or a call has
failed (`LeftBehind`).

`GraphJobsProofs` proves, for any number of requests, jobs and deaths of the pod, from
`GraphJobsAssumption`:

| Theorem | Says |
| --- | --- |
| `TypeCorrect` | `Spec => []TypeOK` |
| `FlagStandsForRun` | `Spec => []FlagNotLeaked` |
| `OneReloadAtATime` | `Spec => []SerialReloads` |
| `EveryJobIsRun` | `Spec => []NoOrphanJob` |
| `NothingStarts` | `Spec => NothingStartsDuringReload` |
| `WipeSparesReloads` | `Spec => WipeSparesEarlierReload` |

The invariant is in two parts.  `Flags` holds however the handlers interleave: the
slot in memory names the target of a live run, a job just created is one handler's,
and a pod that is down has neither runs nor requests.  That is all `FlagNotLeaked`
needs.  `Alone` holds until two handlers overlap, or an abort falls into the read of
a resumed run (`overlap`, the race section 5 describes): then what a handler saw
before an await is still so after it - that no job runs, that the job it created is
the only one, that no run is live when it aborts (`AnswerHolds`).  The properties
that need a serial history have `~overlap` in their statement, as they do in the
runs.  `OneRunning` excludes a rejected run and a boot without credentials, the two
ways a job is left running without a run.

`EnrichmentProofs` proves, for any number of items, workers and retry rounds, from
`EnrichmentRunAssumption`:

| Theorem | Says |
| --- | --- |
| `TypeCorrect` | `Spec => []TypeOK` |
| `NoDoubleDraw` | `Spec => []ClaimedOnce` |
| `CountersAreExact` | `Spec => []CountsExact` |
| `SummaryIsOfGraph` | `Spec => []SummaryMatchesGraph` |
| `RunComesToItsEnd` | every step brings the end of the run nearer, and no pass waits in vain |

`ClaimedOnce` alone says nothing of what is still queued.  The invariant says that an
item is in one place only, left in the queue, in one hand, or gathered for the next
round (`OnePlace`), and that the place fixes how often it was tried and that every
try failed for a passing reason (`PlaceCountsTries`).  Hence no item is tried more
often than the rounds allow, a round's verdict replaces exactly one failure in the
counters, and `count` is the number of items by their latest outcome at every step,
not only at the end.  `NoneLost` says that an item with no outcome is still on its
way, so that the summary of a run that was not cut short covers all.

`RunComesToItsEnd` counts what is before a run: its passes and pauses, and in a pass three
steps for an item in the queue, two for one that is resolved and one for one that is
written.  The sum stays a number because the index the workers share stops behind the
last item (`IndexInRange`).  A round that failed to clear the items it swept, or a worker
left waiting for an item another one has, would show here for every number of workers.

The same module proves of `SourceClient`, for any number of callers, any threshold,
cooldown and retry budget, from `SourceClientAssumption`:

| Theorem | Says |
| --- | --- |
| `ClientTypeCorrect` | `ClientSafety => []ClientTypeOK` |
| `ProbeBehindHalfOpen` | `ClientSafety => []HalfOpenHasProbe` |
| `NoReopening` | `ClientSafety => OpenForTheRun` |
| `CallsComeToAnEnd` | an open call has its own number of steps left, and nobody adds to it |

These need one strengthening, `WaitsWithinBudget`: a call that waits for a retry
has an attempt left.  Without it the retry would leave the attempts' type.

And of `Lyrics`, for any number of tracks, runs and clears, with and without Genius,
from `LyricsAssumption` (the value for "not set" is no other value):

| Theorem | Says |
| --- | --- |
| `LyricsTypeCorrect` | `LyricsSpec => []LyricsTypeOK` |
| `Funnel` | `LyricsSpec => []FunnelHolds` |
| `LrclibKept` | `LyricsSpec => LrclibLyricsKept` |

`FunnelHolds` is not inductive: a write that replaces the status of a track with a text
would break it, and nothing in the write prevents that.  The invariant says what a run
may still believe of the rows it read: a row's track has no lyrics unless another
process wrote it since (`RowsOpen`), and a run has one row per track (`OneRowEach`), so
that settling one row spoils no other.  `LrclibKept` needs the funnel itself: a track
whose text is of LRCLIB has LRCLIB as its source, and the clear passes it by.

`PersonIdentityProofs` proves, for any releases, credits and answers of MusicBrainz and
any number of ingestions, runs, resets and deaths, from `PersonIdentityAssumption`
(among it that "no value" is no id, MBID or name, and no origin of a credit):

| Theorem | Says |
| --- | --- |
| `TypeCorrect` | `Spec => []TypeOK` |
| `OneFallbackEach` | `Spec => []FallbackUnique` |
| `CountriesOfOwnKey` | `Spec => []CountryOfOwnKey` |
| `LinksStay` | `Spec => []ReconciledLinksStay` |
| `DiscogsKept` | `Spec => DiscogsCreditsKept` |

Ten queries write Musicians, each found by a key of its own, and all four properties are
about what such a write may do to a node.  So one fact is proved of every step
(`EveryStepEvolves`) and the properties follow from it without looking at the queries
again.  `Evolves` says that a node that was there keeps its Discogs id, its links and its
credits of Discogs, and without such an id also its name, and its MBID unless a reset
takes it; that a country that is new is the one of the node's own key; that a node that
was not there has no country and, with an MBID, is the first of that MBID; and that only
a fallback is ever deleted.  A credit by name meets only nodes of that name and a lookup
by MBID only nodes without a Discogs id, which is why a country stays on nodes of the key
it was looked up for although nodes may have changed between the lookup and the write.  `LinksStay` adds that from a
reconciliation to the next ingestion nothing is ingested (`LinksInv`), hence no Artist
and no Musician with a Discogs id is new (`AddsNoPerson`, `SameArtists`).

`TrackEnrichmentProofs` proves, for any tracks, releases, recordings and batch sizes and
any number of runs and resets, from `TrackEnrichmentAssumption`:

| Theorem | Says |
| --- | --- |
| `TypeCorrect` | `Spec => []TypeOK` |
| `LinksAreOfOneRecording` | `Spec => []OneRecording` |
| `MarkerIsTerminal` | `Spec => []ExhaustedIsConfirmed` |
| `ResetIsComplete` | `Spec => []CascadeComplete` |
| `BooksAlwaysBalance` | `Spec => []BooksBalance` |

A query adds edges without looking whether there are others, so `OneRecording` rests
on the candidates: a run holds a track in one place, once (`HeldOnce`), and what made
it a candidate still holds when its write comes, whatever the other pipelines and
resets did in between (`LinksOnce`, `StillWithout`).  The cascade of a reset clears
what hangs on a track it clears; a run that selected the track before may write
after, and `HeldIsResolved` says that this is possible only for a pipeline the reset
overlapped (`overlapped`), which is what `CascadeComplete` excepts.  `BooksBalance`
is inductive with `HeldOnce`: an item counted is an item that leaves the place it was
held in.

`CatalogueProofs` proves, for every collection, every set of answers, any number of
runs and resets, all pipelines at once, and any number of failing queries and deaths,
from `CatalogueAssumption` (node sets of different kinds are apart, and `None` is in
none of them):

| Theorem | Says |
| --- | --- |
| `TypeCorrect` | `Spec => []TypeOK` |
| `DatedAreComplete` | `Spec => []DatedIsComplete` |
| `EventsComplete` | `Spec => []EventsAreComplete` |
| `MarkersAreRight` | `Spec => []MarkersMatchEdges` |
| `FactsBacked` | `Spec => []FactsAreBacked` |

The properties hold of a write only when it is over, so the invariant is about what
is still to come.  Every query of a list is about one item, and the list ends with
the query that marks the item done, which occurs nowhere else in it (`List`).  Until
then what is missing of the answer is among the rows of the queries left
(`Coming`): as one is executed its rows pass from `Coming` to the graph, and when
only the marking query is left nothing is missing (`MasterInv`, `EventInv`).  A write
cut off never comes to that query; for a master's year that is enough, for release
events the edges themselves exclude the master from the next run, which is why the
property excepts what is booked in `torn`.  A reset is two queries, and between them
markers and edges disagree (`GroupInv`, and the last disjunct in `EventInv`).
`MasterInv` also needs that no two items wait for one master, and that what waits has
no year.  `LabelInv` is its part of `MarkersMatchEdges`; `WikidataInv` adds to
`FactsAreBacked` that an artist without an item has no lists, and that whoever waits to
be looked up has no item, so that no write takes an item under an edge drawn from it.

`OperationsProofs` proves of the power switch, for any number of invocations at a time and
of alarms, of retries and of failing calls, from `InstanceSchedulerAssumption`:

| Theorem | Says |
| --- | --- |
| `TypeCorrect` | `Spec => []TypeOK` |
| `Monitored` | `Spec => []MonitoredWhenRunning` |
| `NothingSilent` | `Spec => []NoSilentAlarm` |
| `Quiet` | `Spec => QuietSleep` |

Neither of the first two properties says anything while an invocation is under way, so
the invariant says whose job the gap is.  An alarm that is off while the node runs, and
not in `forsaken`, is *watched*: some invocation is at a call from which it will stop the
node, or arm that alarm (`Watches`).  An alarm in ALARM that nobody was told of, and
not in `unheard`, is *owed*: some invocation is at a call from which it will find it OK,
or page (`Owes`).  A call that fails hands this on, to the retry, the rollback or the
pass that pages; only one that fails with nobody left to hand to adds to the
exceptions (`GivesUpKept`).  One lemma per call shows that the step keeps what it watched
and owed and takes charge of what it switches off or starts (`Kept`); one more shows that
such a step keeps the invariant, whichever invocations overlap.  For `Quiet`: while a
stop is calm it is the only invocation, and the alarms it got past are off (`CalmAlone`).

Of the changelog store it proves, for any number of pull requests, tags, runs, dying
runs and damaged lines, from `ChangelogAssumption`:

| Theorem | Says |
| --- | --- |
| `ChangelogTypeCorrect` | `ChangelogSpec => []ChangelogTypeOK` |
| `ChangelogShipsOnce` | `ChangelogSpec => []ShipsOnce` |
| `ChangelogKnowsReleases` | `ChangelogSpec => []ManifestKnowsReleases` |
| `ChangelogBodyStable` | `ChangelogSpec => PublishedBodyStable` |

None of the three says anything of a run in progress, and that is where it is decided,
so the invariant is about the runs there are.  Until two cross (`crossed \/ StoreIInv`)
nobody writes while another relies on the store, and of every run that nobody else's
writing disturbs (`Undisturbed`) the invariant says what it holds (`Whole`).  A
run that only reads or merely starts beside one that writes is disturbed, and nothing is
said of it until the other has ended; by then the store is whole again.  What holds of the
releases and the manifest whoever runs is kept apart (`Books`, with `ShipsOnce` itself in
`Once`).  What an undisturbed run has
read still says the truth of the releases: every version in its copy was published with
those pull requests and renders to the body it has (`VersionsTrue`), and every pull
request of a release carries a version in its copy (`CopyTrue`).  A cut lists what
carries none, so nothing twice.  `VersionsTrue` is what makes rendering again harmless,
and it survives a new version only because that one is dated after all others and so is
the one before of none of them (`PreviousKept`); one lemma says that the latest of some
versions exists and depends on their dates alone (`LatestIsOne`, `LatestKept`).  What a
run has not uploaded yet is still owed (`HalfWritten`), so that at its end the store has
what the copy had; a run that dies before leaves its release to the exceptions the
properties name (`orphans`, `torn`).  A run of a pull request that is not merged writes a
line that will not validate; that line is of no release (`MalformedAside`).  That a
body keeps its pull requests needs less and holds for crossing runs too: whatever copy
of the manifest a run got, its entries are what was published (`Faithful`), a cut is of a
tag that is free and stays so unless two cuts cross (`recut`), and a baseline is the only
one, since only a checkout makes it (`BodyIInv`).  TLC checked these invariants too, before they were proved.  The attempt corrected the model: with the
number of all releases for a date, a baseline published for the second time was as old
as the next version, which more runs by hand than the run allows would have shown.

`LaneExclusion`, `NeverStuck`, `EarlierWins` and `OpenForTheRun`, and the types of all
these modules, are proved and not run besides.

What stays with TLC, and why:

- *Liveness and fairness.*  `EveryStageSettles`, `JobEnds`, `CallsSettle`, `RunEnds`,
  `EveryMergeRecorded`, and that the scheduler implements the fairness of its promise
  (`Implements` is the safety part): TLAPS has no support for ENABLED, on which weak
  fairness rests.  For the first four the theorems about coming to an end prove the rest
  of the argument: that a measure falls with every step, and where it may come to rest.
  What they leave to fairness is that a step is taken.  That a half-open breaker is
  settled (the second half of `CallsSettle`) rests on `ProbeBehindHalfOpen` and on the
  end of that call.

No module declares a RECURSIVE operator, so nothing that a theorem uses is computed by
induction over data.

## 7. What is not modelled

- **Neo4j itself**: a query is one atomic step that takes effect or fails; where
  its transactions may deadlock, the lanes are what is checked.
- **Three stages**: `artist-profiles` is one query and one stamp per artist;
  `artist-genres` and `songwriter-reconciliation` are a single aggregate over the
  graph each, idempotent, without a state of their own to go wrong.
- **Release transforms**: roles, formats, durations and images only shape properties
  of nodes; what other parts decide by (ids, names, markets) is in the models.
- **The paging of a collection, and the stages the legacy `/ingest` runs afterwards.**
- **Delays**: backoff, rate limits and timeouts take any number of steps.
- **Observability**: log lines, metrics, the counters overlaid on the reload's
  status, and the read models of jobs.
- **The drain of a shutdown**: `ReloadJob` has its outcome (the process exits with
  stages under way or without), not its two phases and its timeout.
- **Coverage gate**: its verdict is a choice of `ReloadJob`; the thresholds are not.
- **Statistics, backup and restore**: a cache with a timer, and an export and an import
  with guards; each stands apart from the rest (section 8).
- **Read API, client parsing, developer scripts, declarative infrastructure**:
  no state that changes; see `components` in `PROJECT.json`.
- **Credentials and authentication**: only whether a boot or a stage has the
  client it needs.

## 8. The plan

Done, in this order, because each is what the next relies on: the scheduler, the stage
graph, the reload job, the routes, the client, the runner, the power switch, the track
stages, the changelog store, the persons, the lyrics, the catalogue; and the proofs of
all of these.

### Modules that could follow

| Module | State | Promise | Composes |
| --- | --- | --- | --- |
| `Shutdown` | tracked jobs, the drain, its timeout, the driver | nothing writes after the driver is closed unless the timeout passed | `ReloadJob` |
| `StatsCache` | cached answer, its age, the snapshot timer | an answer is never older than its window and one refresh is in flight | `GraphJobs` |
| `BackupRestore` | dump, batches, the guards | a restore that reports success is the export | `GraphJobs` |
| `ReleaseTransforms` | none: operators over roles, positions, dates | reference definitions over bounded inputs | `PersonIdentity` |

### Proofs to come

Every invariant and every action property of the runs is a theorem (section 6), and of the
liveness properties of the scheduler, the reload, the client and the runner all but the
fairness.  What is left is a measure like theirs for `EveryMergeRecorded`.
