------------------------------ MODULE ReloadJob ------------------------------
(***************************************************************************)
(* One orchestrated reload, from POST /reload to its terminal status:      *)
(* runReload and its stages (ingestion/orchestrator.ts), the checkpoints   *)
(* they write to Neo4j (db/job-repository.ts), the shutdown signal, the    *)
(* death of the pod at any moment, and the resume at the next boot         *)
(* (server.ts).                                                            *)
(*                                                                         *)
(* Durable state is job and row; everything else lives in the process and  *)
(* is lost with it.  An action ends where the code awaits a checkpoint     *)
(* write or a stage's own work.  A failing write may or may not have taken *)
(* effect.  Which stages start is left to the promise of the scheduler.    *)
(***************************************************************************)
EXTENDS StageGraph

CONSTANTS
    Verify,        \* the coverage gate, the last stage
    NeedsClient,   \* stages that return null when an optional client is absent
    MaxCrashes,    \* bound on pod deaths
    MaxFaults,     \* bound on failing database calls
    MaxAborts      \* bound on POST /reload/abort calls that act

ASSUME VerifyAssumption ==
    /\ Verify \in Stages
    /\ Deps[Verify] = Stages \ {Verify}
    /\ Resources[Verify] = {}

ASSUME BoundsAssumption == MaxCrashes \in Nat /\ MaxFaults \in Nat /\ MaxAborts \in Nat

Done     == {"complete", "skipped"}
Terminal == {"complete", "failed"}

VARIABLES
    job,        \* ReloadJob.status
    row,        \* ReloadStage.status of every stage
    proc,       \* what the process does with the job
    origin,     \* who called runReload: "route" or "boot"
    clients,    \* the optional clients are configured
    done,       \* doneStages
    ran,        \* ranStages
    settled,    \* the scheduler's settled set
    step,       \* where runOneStage is for every stage, "idle" if not running
    counted,    \* stagesRun + stagesSkipped + stagesFailed
    failures,   \* stagesFailed
    verdict,    \* the status runReload is about to record
    aborted,    \* isShuttingDown()
    aborting,   \* where a POST /reload/abort is: "no", "found", "acting"
    judged,     \* history: the stages whose coverage the recorded gate judged
    crashes, faults, aborts

durable == <<job, row>>
memory  == <<origin, clients, done, ran, settled, step, counted, failures, verdict>>
history == <<judged, crashes, faults, aborts>>
signals == <<aborted, aborting>>
vars    == <<durable, proc, memory, signals, history>>

Inflight == {s \in Stages : step[s] # "idle"}

Schedule == INSTANCE StageSchedule WITH inflight <- Inflight, open <- ~aborted

(* createReloadJob has committed: the job runs, all its stages pending. *)
Init ==
    /\ job = "running"
    /\ row = [s \in Stages |-> "pending"]
    /\ proc = "reading"
    /\ origin = "route"
    /\ clients \in BOOLEAN
    /\ done = {} /\ ran = {} /\ settled = {}
    /\ step = [s \in Stages |-> "idle"]
    /\ counted = 0 /\ failures = 0
    /\ verdict = "none"
    /\ aborted = FALSE /\ aborting = "no"
    /\ judged = {}
    /\ crashes = 0 /\ faults = 0 /\ aborts = 0

-----------------------------------------------------------------------------
(* Checkpoint writes. *)
SetRow(s, status) == row' = [row EXCEPT ![s] = status]

(* A database call fails; the write took effect or it did not. *)
Fault(s, status) ==
    /\ faults < MaxFaults
    /\ faults' = faults + 1
    /\ SetRow(s, status) \/ UNCHANGED row

GoTo(s, next) == step' = [step EXCEPT ![s] = next]

(* The run() promise of s settles, and the scheduler moves on. *)
SettleStage(s) ==
    /\ GoTo(s, "idle")
    /\ settled' = settled \cup {s}

-----------------------------------------------------------------------------
(* runReload up to the schedule: read the job, skip the stages whose rows   *)
(* say so.                                                                  *)
ReadSkipping(statuses) ==
    /\ proc = "reading"
    /\ done' = {s \in Stages : row[s] \in statuses}
    /\ ran' = {s \in Stages : row[s] = "complete"}
    /\ settled' = done'
    /\ proc' = "scheduling"
    /\ UNCHANGED <<durable, origin, clients, step, counted, failures, verdict, signals, history>>

(* Slips: a resume that also skips failed stages, or that runs skipped ones *)
(* again.                                                                   *)
ReadJobSkippingFailed == ReadSkipping(Done \cup {"failed"})
ReadJobRerunningSkipped == ReadSkipping({"complete"})

ReadJob == ReadSkipping(Done)

(* getReloadJob rejects: the boot path only logs, the route's catch        *)
(* records the job failed.                                                 *)
ReadJobFails ==
    /\ proc = "reading"
    /\ faults < MaxFaults
    /\ faults' = faults + 1
    /\ proc' = IF origin = "route" THEN "recovering" ELSE "idle"
    /\ UNCHANGED <<durable, memory, signals, judged, crashes, aborts>>

-----------------------------------------------------------------------------
(* runOneStage.                                                            *)
Start(s) ==
    /\ proc = "scheduling"
    /\ Schedule!MayStart(s)
    /\ GoTo(s, "marking")
    /\ UNCHANGED <<durable, proc, origin, clients, done, ran, settled, counted, failures,
                   verdict, signals, history>>

MarkRunning(s) ==
    /\ step[s] = "marking"
    /\ SetRow(s, "running")
    /\ GoTo(s, IF s = Verify THEN "judging" ELSE "working")
    /\ UNCHANGED <<job, proc, origin, clients, done, ran, settled, counted, failures,
                   verdict, signals, history>>

(* The catch of runOneStage: count the failure, then record it. *)
Catch(s) ==
    /\ GoTo(s, "failing")
    /\ counted' = counted + 1
    /\ failures' = failures + 1
    /\ UNCHANGED <<origin, clients, done, ran, settled, verdict>>

MarkRunningFails(s) ==
    /\ step[s] = "marking"
    /\ Fault(s, "running")
    /\ Catch(s)
    /\ UNCHANGED <<job, proc, signals, judged, crashes, aborts>>

StageThrows(s) ==
    /\ step[s] = "working"
    /\ Catch(s)
    /\ UNCHANGED <<durable, proc, signals, history>>

(* The stage returns after the shutdown signal: partial counts, row left   *)
(* running, nothing counted.                                               *)
StageInterrupted(s) ==
    /\ step[s] = "working"
    /\ aborted
    /\ SettleStage(s)
    /\ UNCHANGED <<durable, proc, origin, clients, done, ran, counted, failures, verdict,
                   signals, history>>

(* The stage returns counts, or null when its client is not configured.    *)
StageReturns(s) ==
    /\ step[s] = "working"
    /\ ~aborted
    /\ GoTo(s, IF s \in NeedsClient /\ ~clients THEN "skipped" ELSE "complete")
    /\ UNCHANGED <<durable, proc, origin, clients, done, ran, settled, counted, failures,
                   verdict, signals, history>>

(* A slip: the stage is recorded complete, but not among those that ran. *)
MarkStageCompleteUnseen(s) ==
    /\ step[s] \in Done
    /\ SetRow(s, step[s])
    /\ counted' = counted + 1
    /\ SettleStage(s)
    /\ UNCHANGED <<job, proc, origin, clients, done, ran, failures, verdict, signals, history>>

MarkStageComplete(s) ==
    /\ step[s] \in Done
    /\ SetRow(s, step[s])
    /\ counted' = counted + 1
    /\ ran' = IF step[s] = "complete" THEN ran \cup {s} ELSE ran
    /\ SettleStage(s)
    /\ UNCHANGED <<job, proc, origin, clients, done, failures, verdict, signals, history>>

MarkStageCompleteFails(s) ==
    /\ step[s] \in Done
    /\ Fault(s, step[s])
    /\ Catch(s)
    /\ UNCHANGED <<job, proc, signals, judged, crashes, aborts>>

(* markStageFailed in the catch, whose own failure is swallowed. *)
MarkStageFailed(s) ==
    /\ step[s] = "failing"
    /\ \/ SetRow(s, "failed") /\ UNCHANGED faults
       \/ Fault(s, "failed")
    /\ SettleStage(s)
    /\ UNCHANGED <<job, proc, origin, clients, done, ran, counted, failures, verdict,
                   signals, judged, crashes, aborts>>

-----------------------------------------------------------------------------
(* runVerifyGate: read the statistics, judge the stages that ran, record.  *)
Judge ==
    /\ step[Verify] = "judging"
    /\ \E outcome \in {"passed", "rejected"} : GoTo(Verify, outcome)
    /\ judged' = ran
    /\ UNCHANGED <<durable, proc, origin, clients, done, ran, settled, counted, failures,
                   verdict, signals, crashes, faults, aborts>>

(* getStats, or a write of the gate's result, throws: the gate records     *)
(* itself as errored.                                                      *)
GateThrows ==
    /\ \/ step[Verify] = "judging" /\ faults < MaxFaults /\ faults' = faults + 1 /\ UNCHANGED row
       \/ step[Verify] = "passed" /\ Fault(Verify, "complete")
       \/ step[Verify] = "rejected" /\ Fault(Verify, "failed")
    /\ GoTo(Verify, "errored")
    /\ UNCHANGED <<job, proc, origin, clients, done, ran, settled, counted, failures,
                   verdict, signals, judged, crashes, aborts>>

GatePasses ==
    /\ step[Verify] = "passed"
    /\ SetRow(Verify, "complete")
    /\ counted' = counted + 1
    /\ SettleStage(Verify)
    /\ UNCHANGED <<job, proc, origin, clients, done, ran, failures, verdict, signals, history>>

GateFails ==
    /\ step[Verify] \in {"rejected", "errored"}
    /\ SetRow(Verify, "failed")
    /\ counted' = counted + 1
    /\ failures' = failures + 1
    /\ SettleStage(Verify)
    /\ UNCHANGED <<job, proc, origin, clients, done, ran, verdict, signals, history>>

(* Recording the error fails too: it reaches the catch of runOneStage. *)
GateRecordFails ==
    /\ step[Verify] = "errored"
    /\ Fault(Verify, "failed")
    /\ Catch(Verify)
    /\ UNCHANGED <<job, proc, signals, judged, crashes, aborts>>

-----------------------------------------------------------------------------
(* scheduleStages returns when nothing runs and nothing can start. *)
ScheduleIsOver ==
    /\ Inflight = {}
    /\ \A s \in Stages : ~Schedule!MayStart(s)

allSettled == counted + Cardinality(done) >= Cardinality(Stages)

Conclude ==
    /\ proc' = "finishing"
    /\ verdict' = IF failures > 0 \/ ~allSettled THEN "failed" ELSE "complete"

(* The end of runReload: a shutdown leaves the job running for the next    *)
(* boot; otherwise the counters decide its status.                         *)
ScheduleEnds ==
    /\ proc = "scheduling"
    /\ ScheduleIsOver
    /\ IF aborted
         THEN proc' = "idle" /\ UNCHANGED verdict
         ELSE Conclude
    /\ UNCHANGED <<durable, origin, clients, done, ran, settled, step, counted, failures,
                   signals, history>>

(* finishReloadJob: an unconditional SET, then a prune whose failure is    *)
(* swallowed.                                                              *)
FinishReloadJob ==
    /\ proc = "finishing"
    /\ job' = verdict
    /\ proc' = "idle"
    /\ UNCHANGED <<row, memory, signals, history>>

(* finishReloadJob rejects: the boot path only logs; the route's catch     *)
(* records the job failed.                                                 *)
FinishFails ==
    /\ proc = "finishing"
    /\ faults < MaxFaults
    /\ faults' = faults + 1
    /\ job' \in {job, verdict}
    /\ proc' = IF origin = "route" THEN "recovering" ELSE "idle"
    /\ UNCHANGED <<row, memory, signals, judged, crashes, aborts>>

(* The route's catch: finishReloadJob(jobId, 'failed'), best effort. *)
Recover ==
    /\ proc = "recovering"
    /\ proc' = "idle"
    /\ \/ job' = "failed" /\ UNCHANGED faults
       \/ faults < MaxFaults /\ faults' = faults + 1 /\ job' \in {job, "failed"}
    /\ UNCHANGED <<row, memory, signals, judged, crashes, aborts>>

-----------------------------------------------------------------------------
(* requestShutdown, on SIGTERM. *)
Shutdown ==
    /\ proc # "down"
    /\ ~aborted
    /\ crashes < MaxCrashes
    /\ aborted' = TRUE
    /\ UNCHANGED <<durable, proc, memory, aborting, history>>

(* The pod dies: after the drain, at its timeout, or without any warning. *)
Crash ==
    /\ proc # "down"
    /\ crashes < MaxCrashes
    /\ crashes' = crashes + 1
    /\ proc' = "down"
    /\ done' = {} /\ ran' = {} /\ settled' = {}
    /\ step' = [s \in Stages |-> "idle"]
    /\ counted' = 0 /\ failures' = 0
    /\ verdict' = "none"
    /\ aborted' = FALSE /\ aborting' = "no"
    /\ UNCHANGED <<durable, origin, clients, judged, faults, aborts>>

(* The next pod: onReady resumes a job that is still running. *)
BootTo(next) ==
    /\ proc = "down"
    /\ proc' = next
    /\ origin' = "boot"
    /\ clients' \in BOOLEAN
    /\ UNCHANGED <<durable, done, ran, settled, step, counted, failures, verdict, signals,
                   judged, crashes, aborts>>

(* A slip: the boot does not look for an interrupted reload. *)
BootWithoutResume == BootTo("idle") /\ UNCHANGED faults

Boot ==
    /\ BootTo(IF job = "running" THEN "reading" ELSE "idle")
    /\ UNCHANGED faults

(* The pod has lost its Discogs credentials: the job is left running. *)
BootWithoutCredentials ==
    /\ faults < MaxFaults
    /\ faults' = faults + 1
    /\ BootTo("idle")

(* POST /reload/abort: findResumableReloadJob, then the guard on            *)
(* isReloadActive(), then abortReloadJob.  runReload sets the flag once it  *)
(* has read the job (the route of a fresh job sets it before) and clears    *)
(* it before finishReloadJob.                                               *)
ReloadActive == proc = "scheduling" \/ (proc = "reading" /\ origin = "route")

FindRunningJob ==
    /\ proc # "down" /\ aborting = "no"
    /\ job = "running"
    /\ aborts < MaxAborts
    /\ aborts' = aborts + 1
    /\ aborting' = "found"
    /\ UNCHANGED <<durable, proc, memory, aborted, judged, crashes, faults>>

AbortGuard ==
    /\ aborting = "found"
    /\ aborting' = IF ReloadActive THEN "no" ELSE "acting"
    /\ UNCHANGED <<durable, proc, memory, aborted, history>>

(* abortReloadJob matches only a job that is still running. *)
AbortReloadJob ==
    /\ aborting = "acting"
    /\ aborting' = "no"
    /\ IF job = "running"
         THEN /\ job' = "failed"
              /\ row' = [s \in Stages |-> IF row[s] = "running" THEN "failed" ELSE row[s]]
         ELSE UNCHANGED durable
    /\ UNCHANGED <<proc, memory, aborted, history>>

-----------------------------------------------------------------------------
StageStep(s) ==
    \/ MarkRunning(s) \/ MarkRunningFails(s)
    \/ StageReturns(s) \/ StageInterrupted(s) \/ StageThrows(s)
    \/ MarkStageComplete(s) \/ MarkStageCompleteFails(s)
    \/ MarkStageFailed(s)

GateStep == Judge \/ GateThrows \/ GatePasses \/ GateFails \/ GateRecordFails

JobStep ==
    \/ ReadJob \/ ReadJobFails
    \/ ScheduleEnds
    \/ FinishReloadJob \/ FinishFails \/ Recover

StartSome == \E s \in Stages : Start(s)

Next ==
    \/ JobStep
    \/ StartSome
    \/ \E s \in Stages : StageStep(s)
    \/ GateStep
    \/ Shutdown \/ Crash \/ Boot \/ BootWithoutCredentials
    \/ FindRunningJob \/ AbortGuard \/ AbortReloadJob

(* The process runs on, a dead pod is replaced, and a stage that drains    *)
(* settles.  Nothing makes the pod die or a call fail.  A shutdown is      *)
(* followed by the exit of the process.                                    *)
Fairness ==
    /\ WF_vars(JobStep)
    /\ WF_vars(StartSome)
    /\ \A s \in Stages : WF_vars(StageStep(s))
    /\ WF_vars(GateStep)
    /\ WF_vars(Boot)
    /\ WF_vars(aborted /\ Crash)

Safety == Init /\ [][Next]_vars
Spec == Safety /\ Fairness

-----------------------------------------------------------------------------
StepNames == {"idle", "marking", "working", "complete", "skipped", "failing"}
GateSteps == {"judging", "passed", "rejected", "errored"}
ProcNames == {"down", "reading", "scheduling", "finishing", "recovering", "idle"}

(* Type correctness of the checkpoints and of the orchestrator's memory. *)
TypeOK ==
    /\ job \in Terminal \cup {"running"}
    /\ row \in [Stages -> Done \cup {"pending", "running", "failed"}]
    /\ proc \in ProcNames
    /\ origin \in {"route", "boot"}
    /\ clients \in BOOLEAN
    /\ done \in SUBSET Stages
    /\ ran \in SUBSET Stages
    /\ settled \in SUBSET Stages
    /\ step \in [Stages -> StepNames \cup GateSteps]
    /\ \A s \in Stages \ {Verify} : step[s] \in StepNames
    /\ step[Verify] \notin {"working", "complete", "skipped"}
    /\ counted \in Nat /\ failures \in Nat
    /\ verdict \in Terminal \cup {"none"}
    /\ aborted \in BOOLEAN /\ aborting \in {"no", "found", "acting"}
    /\ judged \in SUBSET Stages
    /\ crashes \in Nat /\ faults \in Nat /\ aborts \in Nat

(* A job recorded complete has every stage recorded complete or skipped,   *)
(* through every crash, resume, failed write and operator abort.           *)
CompleteMeansDone == job = "complete" => \A s \in Stages : row[s] \in Done

(* A checkpoint that says done is final: no later life of the job runs the *)
(* stage again or rewrites its row.                                        *)
DoneStaysDone ==
    [][\A s \in Stages :
         row[s] \in Done /\ step[s] = "idle" => row'[s] = row[s] /\ step'[s] = "idle"]_vars

(* A job completed in one life had the coverage of every stage that        *)
(* produced output judged by the gate.                                     *)
GateJudgedThisLife ==
    job = "complete" /\ crashes = 0 =>
        judged = {s \in Stages \ {Verify} : row[s] = "complete"}

(* Without failing calls, every job ends, whatever pods die on the way.    *)
(* With them it ends, or is left to an idle pod and the operator.          *)
JobEnds ==
    /\ [](faults = 0) => <>(job \in Terminal)
    /\ <>[](job \in Terminal \/ proc = "idle")

=============================================================================
