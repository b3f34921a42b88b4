------------------------------ MODULE GraphJobs ------------------------------
(***************************************************************************)
(* The jobs that write the graph and the admin routes that keep them       *)
(* apart: the orchestrated reload, the ingestion, the standalone           *)
(* enrichments and their resets, the wipe of the graph, and the cold-start *)
(* resume (api/admin.ts, server.ts, ingestion/reload-progress.ts,          *)
(* ingestion/job-state.ts, db/job-repository.ts).                          *)
(*                                                                         *)
(* A route that awaits the database is a handler of several steps: the     *)
(* synchronous code before the await, the query, and the code after it,    *)
(* with everything else free to happen in between.  ReloadJob has the      *)
(* stages and checkpoints of one reload; here a reload is as long as its   *)
(* flag and its ReloadJob node matter.                                     *)
(***************************************************************************)
EXTENDS Integers, FiniteSets

CONSTANTS
    Requests,     \* requests that may be open at the same time
    Routes,       \* [request -> the asynchronous routes it may call]
    Pipelines,    \* standalone enrichments
    Keep,         \* RELOAD_JOB_HISTORY_KEEP
    MaxJobs,      \* bound on reload jobs ever created
    MaxCrashes,   \* bound on pod deaths
    MaxFaults     \* bound on rejected runs and boots without credentials

AsyncRoutes == {"reload", "reset", "abort", "clear-genius"}

ASSUME GraphJobsAssumption ==
    /\ Routes \in [Requests -> SUBSET AsyncRoutes]
    /\ Keep \in Nat /\ MaxJobs \in Nat /\ MaxCrashes \in Nat /\ MaxFaults \in Nat

Jobs  == 1 .. MaxJobs   \* in the order of startedAt
NoJob == 0
Terminal == {"complete", "failed"}

VARIABLES
    job,        \* ReloadJob.status, "absent" before it is created
    run,        \* what the runReload that was given this jobId does
    target,     \* the jobId it works on
    origin,     \* who called it, "route" or "boot"
    active,     \* activeJobId, NoJob for null
    ingesting,  \* the ingestion's job state is "running"
    pipe,       \* what holds the running flag of every pipeline
    req,        \* the open handlers
    pod,        \* "up", "draining" after a shutdown signal, "down"
    overlap,    \* history: two handlers that await were open at the same time,
                \* or an abort while a resumed run was reading its job
    crashes, faults

vars == <<job, run, target, origin, active, ingesting, pipe, req, pod, overlap, crashes, faults>>
bounds == <<overlap, crashes, faults>>
runs   == <<run, target, origin>>

Closed == [op |-> "none", at |-> "closed", seen |-> NoJob, before |-> {}]

Live == {j \in Jobs : run[j] \in {"reading", "creating", "scheduling"}}
Scheduling == {j \in Jobs : run[j] = "scheduling"}

Init ==
    /\ job = [j \in Jobs |-> "absent"]
    /\ run = [j \in Jobs |-> "none"]
    /\ target = [j \in Jobs |-> j]
    /\ origin = [j \in Jobs |-> "route"]
    /\ active = NoJob
    /\ ingesting = FALSE
    /\ pipe = [p \in Pipelines |-> "idle"]
    /\ req = [r \in Requests |-> Closed]
    /\ pod = "up"
    /\ overlap = FALSE
    /\ crashes = 0 /\ faults = 0

Up == pod \in {"up", "draining"}

-----------------------------------------------------------------------------
(* busyWith, with what the caller does not ignore. *)
ReloadActive == active # NoJob
EnrichBusy   == \E p \in Pipelines : pipe[p] # "idle"
Busy         == ingesting \/ ReloadActive \/ EnrichBusy

(* The jobs of the database, newest first. *)
Running == {j \in Jobs : job[j] = "running"}
Newest(S) == CHOOSE j \in S : \A k \in S : k <= j
findResumableReloadJob == IF Running = {} THEN NoJob ELSE Newest(Running)

NextJob == {j \in Jobs : job[j] = "absent" /\ \A k \in 1 .. (j - 1) : job[k] # "absent"}
createReloadJob(j) == job' = [job EXCEPT ![j] = "running"]

(* markReloadInactive clears the flag of its own job only. *)
ClearedBy(j) == IF active = j THEN NoJob ELSE active

ResumedRunReads == \E j \in Jobs : run[j] = "reading" /\ origin[j] = "boot"

Open(r, op, at) ==
    /\ Up
    /\ req[r] = Closed
    /\ op \in Routes[r]
    /\ req' = [req EXCEPT ![r] =
                 [op |-> op, at |-> at, seen |-> NoJob, before |-> Live]]
    /\ overlap' = (\/ overlap
                   \/ \E q \in Requests : req[q] # Closed
                   \/ op = "abort" /\ ResumedRunReads)
    /\ UNCHANGED <<job, runs, active, ingesting, pipe, pod, crashes, faults>>

At(r, op, at) == req[r].op = op /\ req[r].at = at
Go(r, at) == req' = [req EXCEPT ![r].at = at]
Close(r) == req' = [req EXCEPT ![r] = Closed]

-----------------------------------------------------------------------------
(* The routes that decide without an await. *)
PostIngest ==
    /\ Up
    /\ ~ingesting /\ ~ReloadActive /\ ~EnrichBusy
    /\ ingesting' = TRUE
    /\ UNCHANGED <<job, runs, active, pipe, req, pod, bounds>>

(* completeJob or failJob. *)
IngestEnds ==
    /\ Up
    /\ ingesting
    /\ ingesting' = FALSE
    /\ UNCHANGED <<job, runs, active, pipe, req, pod, bounds>>

(* A slip: an enrichment does not look for a reload. *)
PostEnrichDuringReload(p) ==
    /\ Up
    /\ ~ingesting
    /\ pipe[p] = "idle"
    /\ pipe' = [pipe EXCEPT ![p] = "enriching"]
    /\ UNCHANGED <<job, runs, active, ingesting, req, pod, bounds>>

PostEnrich(p) ==
    /\ Up
    /\ ~ReloadActive /\ ~ingesting
    /\ pipe[p] = "idle"
    /\ pipe' = [pipe EXCEPT ![p] = "enriching"]
    /\ UNCHANGED <<job, runs, active, ingesting, req, pod, bounds>>

PostPipelineReset(p) ==
    /\ Up
    /\ ~ingesting /\ ~ReloadActive
    /\ pipe[p] = "idle"
    /\ pipe' = [pipe EXCEPT ![p] = "resetting"]
    /\ UNCHANGED <<job, runs, active, ingesting, req, pod, bounds>>

PipelineEnds(p) ==
    /\ Up
    /\ pipe[p] # "idle"
    /\ pipe' = [pipe EXCEPT ![p] = "idle"]
    /\ UNCHANGED <<job, runs, active, ingesting, req, pod, bounds>>

-----------------------------------------------------------------------------
(* The routes that await the database, up to their first await. *)
PostReload(r) ==
    /\ ~ingesting /\ ~EnrichBusy
    /\ Open(r, "reload", "finding")

PostReset(r) ==
    /\ ~Busy
    /\ Open(r, "reset", "finding")

PostClearGenius(r) ==
    /\ ~Busy
    /\ Open(r, "clear-genius", "clearing")

PostAbort(r) ==
    /\ Open(r, "abort", "finding")

(* The query of findResumableReloadJob, for the three routes that use it. *)
Find(r) ==
    /\ Up
    /\ req[r].at = "finding"
    /\ req' = [req EXCEPT ![r].at = "found", ![r].seen = findResumableReloadJob]
    /\ UNCHANGED <<job, runs, active, ingesting, pipe, pod, bounds>>

(* Slips: the answer of the database is not looked at. *)
ReloadGuardUnchecked(r) ==
    /\ Up
    /\ At(r, "reload", "found")
    /\ Go(r, "creating")
    /\ UNCHANGED <<job, runs, active, ingesting, pipe, pod, bounds>>

ResetGuardUnchecked(r) ==
    /\ Up
    /\ At(r, "reset", "found")
    /\ Go(r, "wiping")
    /\ UNCHANGED <<job, runs, active, ingesting, pipe, pod, bounds>>

(* POST /reload goes on: 409 for a running job, else create one. *)
ReloadGuard(r) ==
    /\ Up
    /\ At(r, "reload", "found")
    /\ IF req[r].seen # NoJob THEN Close(r) ELSE Go(r, "creating")
    /\ UNCHANGED <<job, runs, active, ingesting, pipe, pod, bounds>>

CreateJob(r) ==
    /\ Up
    /\ At(r, "reload", "creating")
    /\ \E j \in NextJob :
         /\ createReloadJob(j)
         /\ req' = [req EXCEPT ![r].at = "created", ![r].seen = j]
    /\ UNCHANGED <<runs, active, ingesting, pipe, pod, bounds>>

(* The flag is set before the 202, and the run is detached. *)
StartReload(r) ==
    /\ Up
    /\ At(r, "reload", "created")
    /\ active' = req[r].seen
    /\ run' = [run EXCEPT ![req[r].seen] = "reading"]
    /\ origin' = [origin EXCEPT ![req[r].seen] = "route"]
    /\ Close(r)
    /\ UNCHANGED <<job, target, ingesting, pipe, pod, bounds>>

(* POST /reset goes on. *)
ResetGuard(r) ==
    /\ Up
    /\ At(r, "reset", "found")
    /\ IF req[r].seen # NoJob THEN Close(r) ELSE Go(r, "wiping")
    /\ UNCHANGED <<job, runs, active, ingesting, pipe, pod, bounds>>

(* wipeGraph deletes every node, the checkpoints included. *)
WipeGraph(r) ==
    /\ Up
    /\ At(r, "reset", "wiping")
    /\ job' = [j \in Jobs |-> IF job[j] = "absent" THEN "absent" ELSE "deleted"]
    /\ Close(r)
    /\ UNCHANGED <<runs, active, ingesting, pipe, pod, bounds>>

ClearGeniusLyrics(r) ==
    /\ Up
    /\ At(r, "clear-genius", "clearing")
    /\ Close(r)
    /\ UNCHANGED <<job, runs, active, ingesting, pipe, pod, bounds>>

(* POST /reload/abort goes on: 404, 409 for a live reload, else abort. *)
AbortGuard(r) ==
    /\ Up
    /\ At(r, "abort", "found")
    /\ IF req[r].seen = NoJob \/ ReloadActive THEN Close(r) ELSE Go(r, "aborting")
    /\ UNCHANGED <<job, runs, active, ingesting, pipe, pod, bounds>>

(* abortReloadJob matches a running job only. *)
AbortReloadJob(r) ==
    /\ Up
    /\ At(r, "abort", "aborting")
    /\ LET j == req[r].seen IN
         job' = IF job[j] = "running" THEN [job EXCEPT ![j] = "failed"] ELSE job
    /\ Close(r)
    /\ UNCHANGED <<runs, active, ingesting, pipe, pod, bounds>>

-----------------------------------------------------------------------------
(* runReload.  The job it was given may be gone: then it starts a new one. *)
ReadJob(j) ==
    /\ Up
    /\ run[j] = "reading"
    /\ IF job[j] = "deleted"
         THEN run' = [run EXCEPT ![j] = "creating"] /\ UNCHANGED active
         ELSE run' = [run EXCEPT ![j] = "scheduling"] /\ active' = j
    /\ UNCHANGED <<job, target, origin, ingesting, pipe, req, pod, bounds>>

CreateFreshJob(j) ==
    /\ Up
    /\ run[j] = "creating"
    /\ \E k \in NextJob :
         /\ createReloadJob(k)
         /\ target' = [target EXCEPT ![j] = k]
         /\ active' = k
    /\ run' = [run EXCEPT ![j] = "scheduling"]
    /\ UNCHANGED <<origin, ingesting, pipe, req, pod, bounds>>

(* The finally of the schedule; a shutdown skips finishReloadJob. *)
ScheduleEnds(j) ==
    /\ Up
    /\ run[j] = "scheduling"
    /\ active' = ClearedBy(target[j])
    /\ run' = [run EXCEPT ![j] = IF pod = "draining" THEN "none" ELSE "finishing"]
    /\ UNCHANGED <<job, target, origin, ingesting, pipe, req, pod, bounds>>

(* The SET of finishReloadJob matches the node if it is still there. *)
CloseOut(k, status) ==
    job' = IF job[k] = "deleted" THEN job ELSE [job EXCEPT ![k] = status]

FinishReloadJob(j) ==
    /\ Up
    /\ run[j] = "finishing"
    /\ \E status \in Terminal : CloseOut(target[j], status)
    /\ run' = [run EXCEPT ![j] = "pruning"]
    /\ UNCHANGED <<target, origin, active, ingesting, pipe, req, pod, bounds>>

(* pruneTerminalReloadJobs: all terminal jobs but the newest go. *)
Kept == IF Keep < 1 THEN 1 ELSE Keep
Ended == {j \in Jobs : job[j] \in Terminal}
Prunable == {j \in Ended : Cardinality({k \in Ended : k > j}) >= Kept}

Prune(j) ==
    /\ Up
    /\ run[j] = "pruning"
    /\ job' = [k \in Jobs |-> IF k \in Prunable THEN "deleted" ELSE job[k]]
    /\ run' = [run EXCEPT ![j] = "none"]
    /\ UNCHANGED <<target, origin, active, ingesting, pipe, req, pod, bounds>>

(* A slip: the route's catch leaves the flag set. *)
RunRejectsKeepingFlag(j) ==
    /\ Up
    /\ run[j] \in {"reading", "creating", "finishing"}
    /\ faults < MaxFaults
    /\ faults' = faults + 1
    /\ run' = [run EXCEPT ![j] = IF origin[j] = "route" THEN "recovering" ELSE "none"]
    /\ UNCHANGED <<job, target, origin, active, ingesting, pipe, req, pod, overlap, crashes>>

(* The database fails runReload outside any stage.  The route's catch      *)
(* clears the flag of the job it created and records that job failed; the  *)
(* boot's catch only logs.                                                 *)
RunRejects(j) ==
    /\ Up
    /\ run[j] \in {"reading", "creating", "finishing"}
    /\ faults < MaxFaults
    /\ faults' = faults + 1
    /\ IF origin[j] = "route"
         THEN active' = ClearedBy(j) /\ run' = [run EXCEPT ![j] = "recovering"]
         ELSE run' = [run EXCEPT ![j] = "none"] /\ UNCHANGED active
    /\ UNCHANGED <<job, target, origin, ingesting, pipe, req, pod, overlap, crashes>>

Recover(j) ==
    /\ Up
    /\ run[j] = "recovering"
    /\ CloseOut(j, "failed")
    /\ run' = [run EXCEPT ![j] = "pruning"]
    /\ UNCHANGED <<target, origin, active, ingesting, pipe, req, pod, bounds>>

-----------------------------------------------------------------------------
(* requestShutdown; routes are served until the drain is over. *)
Shutdown ==
    /\ pod = "up"
    /\ crashes < MaxCrashes
    /\ pod' = "draining"
    /\ UNCHANGED <<job, runs, active, ingesting, pipe, req, bounds>>

Crash ==
    /\ Up
    /\ crashes < MaxCrashes
    /\ crashes' = crashes + 1
    /\ pod' = "down"
    /\ run' = [j \in Jobs |-> "none"]
    /\ target' = [j \in Jobs |-> j]
    /\ origin' = [j \in Jobs |-> "route"]
    /\ active' = NoJob
    /\ ingesting' = FALSE
    /\ pipe' = [p \in Pipelines |-> "idle"]
    /\ req' = [r \in Requests |-> Closed]
    /\ UNCHANGED <<job, overlap, faults>>

(* A slip: onReady only has the empty-graph safety net. *)
BootWithoutResume ==
    /\ pod = "down"
    /\ pod' = "up"
    /\ ingesting' \in BOOLEAN
    /\ UNCHANGED <<job, runs, active, pipe, req, bounds>>

(* onReady: resume the newest running job, else ingest if the graph holds  *)
(* no release (what the graph holds is not modelled).                      *)
Boot ==
    /\ pod = "down"
    /\ pod' = "up"
    /\ LET j == findResumableReloadJob IN
         IF j # NoJob
           THEN /\ run' = [run EXCEPT ![j] = "reading"]
                /\ origin' = [origin EXCEPT ![j] = "boot"]
                /\ UNCHANGED ingesting
           ELSE /\ ingesting' \in BOOLEAN
                /\ UNCHANGED <<run, origin>>
    /\ UNCHANGED <<job, target, active, pipe, req, bounds>>

(* onReady without Discogs credentials starts nothing. *)
BootWithoutCredentials ==
    /\ pod = "down"
    /\ faults < MaxFaults
    /\ faults' = faults + 1
    /\ pod' = "up"
    /\ UNCHANGED <<job, runs, active, ingesting, pipe, req, overlap, crashes>>

-----------------------------------------------------------------------------
Handler(r) ==
    \/ PostReload(r) \/ PostReset(r) \/ PostClearGenius(r) \/ PostAbort(r)
    \/ Find(r)
    \/ ReloadGuard(r) \/ CreateJob(r) \/ StartReload(r)
    \/ ResetGuard(r) \/ WipeGraph(r)
    \/ ClearGeniusLyrics(r)
    \/ AbortGuard(r) \/ AbortReloadJob(r)

Run(j) ==
    \/ ReadJob(j) \/ CreateFreshJob(j)
    \/ ScheduleEnds(j)
    \/ FinishReloadJob(j) \/ Prune(j)
    \/ RunRejects(j) \/ Recover(j)

Next ==
    \/ PostIngest \/ IngestEnds
    \/ \E p \in Pipelines : PostEnrich(p) \/ PostPipelineReset(p) \/ PipelineEnds(p)
    \/ \E r \in Requests : Handler(r)
    \/ \E j \in Jobs : Run(j)
    \/ Shutdown \/ Crash \/ Boot \/ BootWithoutCredentials

Spec == Init /\ [][Next]_vars

-----------------------------------------------------------------------------
(* "POST /reload's 409 guard + cold-start resume guarantee a single active *)
(* job" (reload-progress.ts).                                              *)
SingleLiveReload == Cardinality(Live) <= 1

(* As long as no two handlers that await overlap, that is so: the guards,  *)
(* the checkpoint and the resume agree on the one reload there is, through *)
(* aborts, wipes, rejected runs and pod deaths.                            *)
SerialReloads == ~overlap => SingleLiveReload

(* While a reload works on its stages, no ingestion, enrichment or         *)
(* pipeline reset is started.                                              *)
NothingStartsDuringReload ==
    [][Scheduling # {} /\ ~overlap =>
         /\ ingesting' => ingesting
         /\ \A p \in Pipelines : pipe'[p] # "idle" => pipe[p] # "idle"]_vars

(* The reload-active flag never outlives the run it stands for: it would   *)
(* refuse every admin route until the pod restarts.                        *)
FlagNotLeaked ==
    active # NoJob => \E j \in Live : active \in {j, target[j]}

(* A job that refuses new reloads is being run, or is about to be, unless  *)
(* a run was rejected or a boot had no credentials.                        *)
NoOrphanJob ==
    pod = "up" /\ faults = 0 /\ ~overlap =>
        \A k \in Running :
            \/ \E j \in Jobs : run[j] # "none" /\ target[j] = k
            \/ \E r \in Requests : At(r, "reload", "created") /\ req[r].seen = k

(* A wipe never hits a reload that was live when the wipe was asked for;   *)
(* only one that overlaps an abort or another wipe could.                  *)
WipeSparesEarlierReload ==
    [][\A r \in Requests :
         At(r, "reset", "wiping") /\ req'[r] = Closed /\ pod' = pod /\ ~overlap =>
            req[r].before \cap Live = {}]_vars

=============================================================================
