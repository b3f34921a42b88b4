----------------------------- MODULE GraphJobsProofs -----------------------------
(***************************************************************************)
(* The admin routes, the reloads and the boot, for any number of requests, *)
(* jobs and pod deaths.  One invariant is about the flag and the runs and  *)
(* holds however the handlers interleave; the other is about what a        *)
(* handler may still rely on between its awaits, as long as no two of them *)
(* overlap.                                                                *)
(***************************************************************************)
EXTENDS GraphJobs, FiniteSetTheorems, WellFoundedInduction, TLAPS

Statuses == {"absent", "running", "deleted"} \cup Terminal
RunStates == {"none", "reading", "creating", "scheduling", "finishing", "pruning", "recovering"}
Awaits == {"finding", "found", "creating", "created", "wiping", "clearing", "aborting"}
Handlers == [op : AsyncRoutes, at : Awaits, seen : Jobs \cup {NoJob}, before : SUBSET Jobs]

TypeOK ==
    /\ job \in [Jobs -> Statuses]
    /\ run \in [Jobs -> RunStates]
    /\ target \in [Jobs -> Jobs]
    /\ origin \in [Jobs -> {"route", "boot"}]
    /\ active \in Jobs \cup {NoJob}
    /\ ingesting \in BOOLEAN
    /\ pipe \in [Pipelines -> {"idle", "enriching", "resetting"}]
    /\ req \in [Requests -> {Closed} \cup Handlers]
    /\ pod \in {"up", "draining", "down"}
    /\ overlap \in BOOLEAN
    /\ crashes \in Nat /\ faults \in Nat

(* The runs of the pod, and the jobs that are theirs. *)
Begins == {"reading", "creating"}

RunsOwnJobs ==
    /\ \A j \in Jobs : run[j] # "none" => job[j] # "absent"
    /\ \A j \in Jobs : run[j] \in Begins => target[j] = j
    /\ \A j \in Jobs : job[j] = "absent" => target[j] = j
    /\ \A i \in Jobs : target[i] # i => job[target[i]] # "absent"

(* A job that was created and is not run yet is one handler's. *)
Creates(r) == At(r, "reload", "created")

CreatedIsFresh ==
    \A r \in Requests : Creates(r) =>
        /\ req[r].seen \in Jobs
        /\ LET j == req[r].seen IN run[j] = "none" /\ target[j] = j /\ job[j] # "absent"
        /\ \A q \in Requests : Creates(q) /\ req[q].seen = req[r].seen => q = r

FlagIsTarget ==
    /\ active # NoJob => \E j \in Live : target[j] = active
    /\ \A j \in Jobs : run[j] \in Begins /\ origin[j] = "boot" => active # j

DownIsClean ==
    pod = "down" =>
        /\ active = NoJob
        /\ \A j \in Jobs : run[j] = "none" /\ target[j] = j
        /\ \A r \in Requests : req[r] = Closed

(* What holds between the awaits of a handler while it is the only one. *)
OneHandler ==
    \A q, r \in Requests : req[q] # Closed /\ req[r] # Closed => q = r

OneLive ==
    /\ \A i, j \in Live : i = j
    /\ \A j \in Jobs : target[j] = j /\ run[j] # "creating"
    /\ \A j \in Live : job[j] = "running"
    /\ \A j \in Live : run[j] = "scheduling" \/ origin[j] = "route" => active = j

AnswerHolds(r) ==
    /\ req[r].at = "found" /\ req[r].seen = NoJob => Running = {}
    /\ req[r].at \in {"creating", "wiping"} => Running = {}
    /\ req[r].at = "created" => Running = {req[r].seen} /\ req[r].op = "reload"
    /\ req[r].at \in {"created", "aborting"} => Live = {}
    /\ req[r].op = "abort" => ~ResumedRunReads

Alone == ~overlap => OneHandler /\ OneLive /\ \A r \in Requests : AnswerHolds(r)

PrunedIsOver == ~overlap => \A j \in Jobs : run[j] = "pruning" => job[j] # "running"

(* Without a rejected run or a boot without credentials. *)
OneRunning ==
    ~overlap /\ faults = 0 =>
        /\ \A i, k \in Running : i = k
        /\ pod = "up" => \A k \in Running :
             run[k] # "none" \/ \E r \in Requests : Creates(r) /\ req[r].seen = k

Flags == RunsOwnJobs /\ CreatedIsFresh /\ FlagIsTarget /\ DownIsClean

IInv == TypeOK /\ Flags /\ Alone /\ PrunedIsOver /\ OneRunning

-----------------------------------------------------------------------------
(* NoJob is no job.                                                        *)
LEMMA JobsAreNumbers ==
  /\ Jobs \subseteq Nat /\ NoJob \notin Jobs /\ IsFiniteSet(Jobs)
  /\ MaxJobs \in Nat
  <1>1. MaxJobs \in Nat
    BY GraphJobsAssumption DEF GraphJobsAssumption
  <1> QED BY <1>1, FS_Interval DEF Jobs, NoJob

(* Some running job is the newest, so the resume picks a running one.      *)
LEMMA ResumesRunning ==
  ASSUME Running # {}
  PROVE  findResumableReloadJob \in Running
  <1> DEFINE Newer(j) == {k \in Running : k > j}
             T == {Newer(j) : j \in Running}
             R == StrictSubsetOrdering(Running)
  <1>1. Running \subseteq Nat /\ IsFiniteSet(Running)
    BY JobsAreNumbers, FS_Subset DEF Running
  <1>2. IsWellFoundedOn(R, SUBSET Running)
    BY <1>1, FS_StrictSubsetOrderingWellFounded, FS_FiniteSubsetsOfFinite
  <1>3. T \subseteq SUBSET Running /\ T # {}
    OBVIOUS
  <1>4. PICK N \in T : \A M \in T : ~(<<M, N>> \in R)
    <2> HIDE DEF T, R
    <2> QED BY <1>2, <1>3, WFMin
  <1>5. PICK j \in Running : N = Newer(j)
    BY <1>4
  <1>6. ASSUME NEW k \in Running, k > j PROVE FALSE
    <2>1. Newer(k) \subseteq Newer(j) /\ k \in Newer(j) /\ k \notin Newer(k)
      <3>1. k \in Nat /\ j \in Nat /\ \A i \in Running : i \in Nat
        BY <1>1
      <3>2. \A i \in Nat : i > k => i > j
        BY <1>6, <3>1
      <3>3. ~(k > k)
        BY <3>1
      <3> QED BY <1>6, <3>1, <3>2, <3>3
    <2>2. <<Newer(k), Newer(j)>> \in R
      BY <2>1 DEF StrictSubsetOrdering
    <2> QED BY <1>4, <1>5, <2>2
  <1>7. \A k \in Running : k <= j
    BY <1>1, <1>6
  <1> QED BY <1>7 DEF findResumableReloadJob, Newest

(* A step that starts and ends no job and no run and keeps every handler.  *)
LEMMA SameJobs ==
  ASSUME IInv, UNCHANGED <<job, run, target, origin, active, req>>,
         UNCHANGED <<overlap, faults>>,
         pod' = pod \/ pod' = "draining"
  PROVE  Flags' /\ Alone' /\ PrunedIsOver' /\ OneRunning'
  <1> USE DEF IInv, Flags
  <1>1. /\ Live' = Live /\ Running' = Running /\ ResumedRunReads' = ResumedRunReads
        /\ \A r : Creates(r)' = Creates(r)
    BY DEF Live, Running, ResumedRunReads, Creates, At
  <1>2. RunsOwnJobs' /\ CreatedIsFresh' /\ FlagIsTarget' /\ DownIsClean'
    BY <1>1 DEF RunsOwnJobs, CreatedIsFresh, FlagIsTarget, DownIsClean
  <1>3. Alone'
    BY <1>1 DEF Alone, OneHandler, OneLive, AnswerHolds
  <1>4. PrunedIsOver' /\ OneRunning'
    BY <1>1 DEF PrunedIsOver, OneRunning
  <1> QED BY <1>2, <1>3, <1>4

(* The routes that decide without an await, and the ends of their work.    *)
LEMMA RoutesKeep ==
  ASSUME IInv,
         \/ PostIngest \/ IngestEnds
         \/ \E p \in Pipelines : PostEnrich(p) \/ PostPipelineReset(p) \/ PipelineEnds(p)
         \/ Shutdown \/ UNCHANGED vars
  PROVE  IInv'
  <1>1. /\ UNCHANGED <<job, run, target, origin, active, req>> /\ UNCHANGED <<overlap, faults>>
        /\ pod' = pod \/ pod' = "draining"
    BY DEF PostIngest, IngestEnds, PostEnrich, PostPipelineReset, PipelineEnds, Shutdown,
       vars, runs, bounds
  <1>2. TypeOK'
    BY DEF IInv, TypeOK, PostIngest, IngestEnds, PostEnrich, PostPipelineReset, PipelineEnds,
       Shutdown, vars, runs, bounds
  <1> QED BY <1>1, <1>2, SameJobs DEF IInv

(* A step of one handler that starts and ends no job and no run, and where *)
(* the handler holds no job it created.                                    *)
LEMMA SameRuns ==
  ASSUME IInv, NEW r \in Requests, ~Creates(r), ~Creates(r)',
         UNCHANGED <<job, run, target, origin, active, faults, pod>>, pod # "down",
         overlap => overlap',
         \A q \in Requests \ {r} : req'[q] = req[q]
  PROVE  Flags' /\ PrunedIsOver' /\ OneRunning'
  <1> USE DEF IInv, Flags
  <1>1. /\ Live' = Live /\ Running' = Running
        /\ \A q \in Requests \ {r} : Creates(q)' = Creates(q)
    BY DEF Live, Running, Creates, At
  <1>2. RunsOwnJobs' /\ FlagIsTarget' /\ DownIsClean'
    BY <1>1 DEF RunsOwnJobs, FlagIsTarget, DownIsClean
  <1>3. CreatedIsFresh'
    BY <1>1 DEF CreatedIsFresh
  <1>4. PrunedIsOver'
    BY DEF PrunedIsOver
  <1>5. OneRunning'
    BY <1>1 DEF OneRunning, TypeOK
  <1> QED BY <1>2, <1>3, <1>4, <1>5

(* A request is answered up to its first await: nothing was read yet.      *)
LEMMA OpenKeeps ==
  ASSUME IInv, NEW r \in Requests, NEW op \in AsyncRoutes, NEW at \in {"finding", "clearing"},
         Open(r, op, at)
  PROVE  IInv'
  <1> USE DEF IInv
  <1> DEFINE h == [op |-> op, at |-> at, seen |-> NoJob, before |-> Live]
  <1>1. /\ UNCHANGED <<job, run, target, origin, active, faults, pod>>
        /\ UNCHANGED <<ingesting, pipe, crashes>>
        /\ req' = [req EXCEPT ![r] = h] /\ req[r] = Closed /\ pod # "down"
        /\ overlap' = (\/ overlap
                       \/ \E q \in Requests : req[q] # Closed
                       \/ op = "abort" /\ ResumedRunReads)
    BY DEF Open, Up, runs
  <1>2. h \in Handlers
    BY DEF Handlers, Awaits, Live
  <1>3. /\ req'[r] = h /\ \A q \in Requests \ {r} : req'[q] = req[q]
        /\ h.at \notin {"created", "found", "creating", "wiping", "aborting"} /\ h.op = op
    BY <1>1 DEF TypeOK
  <1> HIDE DEF h
  <1>4. TypeOK'
    BY <1>1, <1>2 DEF TypeOK
  <1>5. ~Creates(r) /\ ~Creates(r)'
    BY <1>1, <1>3 DEF Creates, At, Closed
  <1>6. Flags' /\ PrunedIsOver' /\ OneRunning'
    BY <1>1, <1>3, <1>5, SameRuns
  <1>7. Alone'
    <2> SUFFICES ASSUME ~overlap' PROVE  OneHandler' /\ OneLive' /\ \A q \in Requests : AnswerHolds(q)'
      BY DEF Alone
    <2>1. ~overlap /\ OneHandler /\ OneLive /\ \A q \in Requests : AnswerHolds(q)
      BY <1>1 DEF Alone
    <2>2. \A q \in Requests : req[q] = Closed
      BY <1>1
    <2>3. Live' = Live /\ Running' = Running /\ ResumedRunReads' = ResumedRunReads
      BY <1>1 DEF Live, Running, ResumedRunReads
    <2>4. OneHandler'
      BY <1>3, <2>2 DEF OneHandler
    <2>5. OneLive'
      BY <1>1, <2>1, <2>3 DEF OneLive
    <2>6. \A q \in Requests : AnswerHolds(q)'
      BY <1>1, <1>3, <2>1, <2>3 DEF AnswerHolds
    <2> QED BY <2>4, <2>5, <2>6
  <1> QED BY <1>4, <1>6, <1>7

(* The same of the handlers' knowledge: a step of one handler, alone, that *)
(* starts and ends nothing leaves the rest as it was.                      *)
LEMMA SameAlone ==
  ASSUME IInv, NEW r \in Requests, req[r] # Closed, AnswerHolds(r)' \/ overlap,
         UNCHANGED <<job, run, target, origin, active, overlap>>,
         \A q \in Requests \ {r} : req'[q] = req[q]
  PROVE  Alone'
  <1> SUFFICES ASSUME ~overlap
               PROVE  OneHandler' /\ OneLive' /\ \A q \in Requests : AnswerHolds(q)'
    BY DEF Alone
  <1>1. OneHandler /\ OneLive /\ \A q \in Requests : AnswerHolds(q)
    BY DEF IInv, Alone
  <1>2. Live' = Live /\ Running' = Running /\ ResumedRunReads' = ResumedRunReads
    BY DEF Live, Running, ResumedRunReads
  <1>3. OneHandler' /\ OneLive'
    BY <1>1, <1>2 DEF OneHandler, OneLive
  <1>4. \A q \in Requests \ {r} : AnswerHolds(q)'
    BY <1>1, <1>2 DEF AnswerHolds
  <1> QED BY <1>3, <1>4

(* The query of findResumableReloadJob: no answer means that no job runs.  *)
LEMMA FindKeeps ==
  ASSUME IInv, NEW r \in Requests, Find(r)
  PROVE  IInv'
  <1> USE DEF IInv
  <1> DEFINE h == [req[r] EXCEPT !.at = "found", !.seen = findResumableReloadJob]
  <1>1. /\ UNCHANGED <<job, run, target, origin, active, faults, pod, overlap>>
        /\ UNCHANGED <<ingesting, pipe, crashes>>
        /\ req[r].at = "finding" /\ pod # "down"
        /\ req' = [req EXCEPT ![r] = h]
    BY DEF Find, Up, runs, bounds
  <1>2. req[r] \in Handlers /\ req[r] # Closed
    BY <1>1 DEF TypeOK, Closed
  <1>3. Running # {} => findResumableReloadJob \in Running
    BY ResumesRunning
  <1>4. findResumableReloadJob \in Jobs \cup {NoJob} /\ (findResumableReloadJob = NoJob => Running = {})
    BY <1>3, JobsAreNumbers DEF Running, findResumableReloadJob
  <1>5. /\ h \in Handlers /\ h.at = "found" /\ h.op = req[r].op
        /\ h.seen = findResumableReloadJob
    BY <1>2, <1>4 DEF Handlers, Awaits
  <1>6. req'[r] = h /\ \A q \in Requests \ {r} : req'[q] = req[q]
    BY <1>1 DEF TypeOK
  <1> HIDE DEF h
  <1>7. TypeOK'
    BY <1>1, <1>5 DEF TypeOK
  <1>8. Flags' /\ PrunedIsOver' /\ OneRunning'
    BY <1>1, <1>5, <1>6, SameRuns DEF Creates, At
  <1>9. AnswerHolds(r)' \/ overlap
    <2> SUFFICES ASSUME ~overlap PROVE AnswerHolds(r)'
      OBVIOUS
    <2>1. AnswerHolds(r)
      BY DEF Alone
    <2>2. Live' = Live /\ Running' = Running /\ ResumedRunReads' = ResumedRunReads
      BY <1>1 DEF Live, Running, ResumedRunReads
    <2> QED BY <1>4, <1>5, <1>6, <2>1, <2>2 DEF AnswerHolds
  <1>10. Alone'
    BY <1>1, <1>2, <1>6, <1>9, SameAlone
  <1> QED BY <1>7, <1>8, <1>10

(* A handler that goes on to its next await, or answers and is closed, and *)
(* had created no job.                                                     *)
LEMMA MoveKeeps ==
  ASSUME IInv, NEW r \in Requests, req[r].at \in {"found", "clearing"}, pod # "down",
         UNCHANGED <<job, run, target, origin, active, faults, pod, overlap>>,
         UNCHANGED <<ingesting, pipe, crashes>>,
         \/ Close(r)
         \/ \E at \in {"creating", "wiping", "aborting"} :
              /\ Go(r, at)
              /\ at \in {"creating", "wiping"} => req[r].at = "found" /\ req[r].seen = NoJob
              /\ at = "aborting" => req[r].op = "abort" /\ ~ReloadActive
  PROVE  IInv'
  <1> USE DEF IInv
  <1>1. req[r] \in Handlers /\ req[r] # Closed
    BY DEF TypeOK, Closed
  <1>2. \A q \in Requests \ {r} : req'[q] = req[q]
    BY DEF Close, Go, TypeOK
  <1>3. Live' = Live /\ Running' = Running /\ ResumedRunReads' = ResumedRunReads
    BY DEF Live, Running, ResumedRunReads
  <1>4. CASE Close(r)
    <2>1. req'[r] = Closed /\ TypeOK'
      BY <1>4 DEF Close, TypeOK
    <2>2. Flags' /\ PrunedIsOver' /\ OneRunning'
      BY <1>2, <2>1, SameRuns DEF Creates, At, Closed
    <2>3. AnswerHolds(r)'
      BY <2>1 DEF AnswerHolds, Closed
    <2> QED BY <1>1, <1>2, <2>1, <2>2, <2>3, SameAlone
  <1>5. ASSUME NEW at \in {"creating", "wiping", "aborting"}, Go(r, at),
               at \in {"creating", "wiping"} => req[r].at = "found" /\ req[r].seen = NoJob,
               at = "aborting" => req[r].op = "abort" /\ ~ReloadActive
        PROVE  IInv'
    <2> DEFINE h == [req[r] EXCEPT !.at = at]
    <2>1. h \in Handlers /\ h.at = at /\ h.op = req[r].op /\ h.seen = req[r].seen
      BY <1>1 DEF Handlers, Awaits
    <2>2. req' = [req EXCEPT ![r] = h] /\ req'[r] = h
      BY <1>5 DEF Go, TypeOK
    <2> HIDE DEF h
    <2>3. TypeOK'
      BY <2>1, <2>2 DEF TypeOK
    <2>4. Flags' /\ PrunedIsOver' /\ OneRunning'
      BY <1>2, <2>1, <2>2, SameRuns DEF Creates, At
    <2>5. AnswerHolds(r)' \/ overlap
      <3> SUFFICES ASSUME ~overlap PROVE AnswerHolds(r)'
        OBVIOUS
      <3>1. AnswerHolds(r) /\ OneLive
        BY DEF Alone
      <3>2. at = "aborting" => Live = {}
        <4> SUFFICES ASSUME at = "aborting", NEW j \in Live PROVE FALSE
          OBVIOUS
        <4>1. ~ResumedRunReads /\ active = NoJob
          BY <1>5, <3>1 DEF AnswerHolds, ReloadActive
        <4>2. j \in Jobs /\ run[j] \in {"reading", "scheduling"}
          BY <3>1 DEF Live, OneLive
        <4>3. run[j] = "scheduling" \/ origin[j] = "route"
          BY <4>1, <4>2 DEF ResumedRunReads, TypeOK
        <4> QED BY <3>1, <4>1, <4>2, <4>3, JobsAreNumbers DEF OneLive
      <3>3. at \in {"creating", "wiping"} => Running = {}
        BY <1>5, <3>1 DEF AnswerHolds
      <3>4. req[r].op = "abort" => ~ResumedRunReads
        BY <3>1 DEF AnswerHolds
      <3>5. at # "found" /\ at # "created"
        OBVIOUS
      <3> QED BY <1>3, <2>1, <2>2, <3>2, <3>3, <3>4, <3>5 DEF AnswerHolds
    <2> QED BY <1>1, <1>2, <2>3, <2>4, <2>5, SameAlone
  <1> QED BY <1>4, <1>5

(* POST /reload creates its job: none is running, and nobody has this one. *)
LEMMA CreateJobKeeps ==
  ASSUME IInv, NEW r \in Requests, CreateJob(r)
  PROVE  IInv'
  <1> USE DEF IInv, Flags
  <1>1. PICK j \in NextJob :
          /\ job' = [job EXCEPT ![j] = "running"]
          /\ req' = [req EXCEPT ![r].at = "created", ![r].seen = j]
    BY DEF CreateJob, createReloadJob
  <1>2. /\ UNCHANGED <<run, target, origin, active, ingesting, pipe, pod>>
        /\ UNCHANGED <<overlap, crashes, faults>>
        /\ req[r].op = "reload" /\ req[r].at = "creating" /\ pod # "down"
    BY DEF CreateJob, runs, bounds, Up, At
  <1>3. j \in Jobs /\ job[j] = "absent"
    BY DEF NextJob
  <1> DEFINE h == [req[r] EXCEPT !.at = "created", !.seen = j]
  <1>4. req[r] \in Handlers /\ req[r] # Closed
    BY <1>2 DEF TypeOK, Closed
  <1>5. h \in Handlers /\ h.at = "created" /\ h.op = "reload" /\ h.seen = j
    BY <1>2, <1>3, <1>4 DEF Handlers, Awaits
  <1>6. /\ req' = [req EXCEPT ![r] = h] /\ req'[r] = h
        /\ \A q \in Requests \ {r} : req'[q] = req[q]
    BY <1>1 DEF TypeOK
  <1> HIDE DEF h
  <1>7. run[j] = "none" /\ target[j] = j
    BY <1>3 DEF RunsOwnJobs
  <1>8. job'[j] = "running" /\ \A i \in Jobs \ {j} : job'[i] = job[i]
    BY <1>1, <1>3 DEF TypeOK
  <1>9. Live' = Live /\ Running' = Running \cup {j} /\ ResumedRunReads' = ResumedRunReads
    BY <1>2, <1>3, <1>8 DEF Live, Running, ResumedRunReads
  <1>10. TypeOK'
    BY <1>1, <1>2, <1>3, <1>5, <1>6 DEF TypeOK, Statuses
  <1>11. RunsOwnJobs'
    BY <1>2, <1>3, <1>8 DEF RunsOwnJobs, TypeOK
  <1>12. CreatedIsFresh'
    <2> SUFFICES ASSUME NEW s \in Requests, Creates(s)'
                 PROVE  /\ req'[s].seen \in Jobs
                        /\ LET i == req'[s].seen IN run'[i] = "none" /\ target'[i] = i /\ job'[i] # "absent"
                        /\ \A q \in Requests : Creates(q)' /\ req'[q].seen = req'[s].seen => q = s
      BY DEF CreatedIsFresh
    <2>1. \A q \in Requests \ {r} : Creates(q)' => Creates(q) /\ req[q].seen \in Jobs \ {j}
      BY <1>3, <1>6 DEF Creates, At, CreatedIsFresh
    <2>2. CASE s = r
      BY <1>2, <1>3, <1>5, <1>6, <1>7, <1>8, <2>1, <2>2
    <2>3. CASE s # r
      BY <1>2, <1>5, <1>6, <1>8, <2>1, <2>3 DEF CreatedIsFresh
    <2> QED BY <2>2, <2>3
  <1>13. FlagIsTarget' /\ DownIsClean'
    BY <1>2, <1>9 DEF FlagIsTarget, DownIsClean
  <1>14. PrunedIsOver'
    BY <1>2, <1>7, <1>8 DEF PrunedIsOver
  <1>15. ASSUME ~overlap PROVE Running' = {j} /\ Live = {} /\ OneHandler /\ OneLive
    <2>1. Running = {} /\ OneHandler /\ OneLive
      BY <1>2, <1>15 DEF Alone, AnswerHolds
    <2>2. Live = {}
      BY <2>1 DEF OneLive, Running, Live
    <2> QED BY <1>9, <2>1, <2>2
  <1>16. Alone'
    <2> SUFFICES ASSUME ~overlap
                 PROVE  OneHandler' /\ OneLive' /\ \A q \in Requests : AnswerHolds(q)'
      BY <1>2 DEF Alone
    <2>1. OneHandler'
      BY <1>4, <1>6, <1>15 DEF OneHandler
    <2>2. OneLive'
      BY <1>2, <1>9, <1>15 DEF OneLive
    <2>3. \A q \in Requests \ {r} : req'[q] = Closed
      BY <1>4, <1>6, <1>15 DEF OneHandler
    <2>4. AnswerHolds(r)'
      BY <1>5, <1>6, <1>9, <1>15 DEF AnswerHolds
    <2>5. \A q \in Requests \ {r} : AnswerHolds(q)'
      BY <2>3 DEF AnswerHolds, Closed
    <2> QED BY <2>1, <2>2, <2>4, <2>5
  <1>17. OneRunning'
    BY <1>2, <1>5, <1>6, <1>15 DEF OneRunning, Creates, At
  <1> QED BY <1>10, <1>11, <1>12, <1>13, <1>14, <1>16, <1>17

(* The run is detached: its flag is up before the answer.                  *)
LEMMA StartReloadKeeps ==
  ASSUME IInv, NEW r \in Requests, StartReload(r)
  PROVE  IInv'
  <1> USE DEF IInv, Flags
  <1>1. Creates(r) /\ pod # "down"
    BY DEF StartReload, Creates, Up
  <1>2. PICK j \in Jobs : j = req[r].seen
    BY <1>1 DEF CreatedIsFresh
  <1>3. /\ run[j] = "none" /\ target[j] = j /\ job[j] # "absent"
        /\ \A q \in Requests : Creates(q) /\ req[q].seen = j => q = r
    BY <1>1, <1>2 DEF CreatedIsFresh
  <1>4. /\ active' = j /\ run' = [run EXCEPT ![j] = "reading"]
        /\ origin' = [origin EXCEPT ![j] = "route"]
        /\ req' = [req EXCEPT ![r] = Closed]
        /\ UNCHANGED <<job, target, ingesting, pipe, pod, overlap, crashes, faults>>
    BY <1>2 DEF StartReload, Close, bounds
  <1>5. /\ run'[j] = "reading" /\ \A i \in Jobs \ {j} : run'[i] = run[i]
        /\ origin'[j] = "route" /\ \A i \in Jobs \ {j} : origin'[i] = origin[i]
        /\ req'[r] = Closed /\ \A q \in Requests \ {r} : req'[q] = req[q]
    BY <1>4 DEF TypeOK
  <1>6. Live' = Live \cup {j} /\ Running' = Running
    BY <1>4, <1>5 DEF Live, Running
  <1>7. TypeOK'
    BY <1>4 DEF TypeOK, RunStates
  <1>8. RunsOwnJobs'
    BY <1>3, <1>4, <1>5 DEF RunsOwnJobs
  <1>9. CreatedIsFresh'
    <2>1. \A q \in Requests : Creates(q)' => q # r /\ Creates(q)
      BY <1>5 DEF Creates, At, Closed
    <2> QED BY <1>3, <1>4, <1>5, <2>1 DEF CreatedIsFresh
  <1>10. FlagIsTarget' /\ DownIsClean'
    BY <1>1, <1>3, <1>4, <1>5, <1>6 DEF FlagIsTarget, DownIsClean
  <1>11. PrunedIsOver'
    BY <1>4, <1>5 DEF PrunedIsOver
  <1>12. ASSUME ~overlap
         PROVE  /\ Running = {j} /\ Live = {} /\ OneLive
                /\ \A q \in Requests : req'[q] = Closed
    <2>1. req[r] # Closed
      BY <1>1 DEF Creates, At, Closed
    <2>2. Running = {j} /\ Live = {} /\ OneHandler /\ OneLive
      BY <1>1, <1>2, <1>12 DEF Alone, AnswerHolds, Creates, At
    <2> QED BY <1>5, <2>1, <2>2 DEF OneHandler
  <1>13. Alone'
    <2> SUFFICES ASSUME ~overlap
                 PROVE  OneHandler' /\ OneLive' /\ \A q \in Requests : AnswerHolds(q)'
      BY <1>4 DEF Alone
    <2>1. OneHandler' /\ \A q \in Requests : AnswerHolds(q)'
      BY <1>12 DEF OneHandler, AnswerHolds, Closed
    <2>2. OneLive'
      BY <1>4, <1>5, <1>6, <1>12 DEF OneLive, Running
    <2> QED BY <2>1, <2>2
  <1>14. OneRunning'
    BY <1>4, <1>5, <1>6, <1>12 DEF OneRunning
  <1> QED BY <1>7, <1>8, <1>9, <1>10, <1>11, <1>13, <1>14

(* A handler ends with a write on the jobs: the wipe deletes them all, the *)
(* abort fails the one it found.                                           *)
LEMMA WriteKeeps ==
  ASSUME IInv, NEW r \in Requests, WipeGraph(r) \/ AbortReloadJob(r)
  PROVE  IInv'
  <1> USE DEF IInv, Flags
  <1>1. /\ UNCHANGED <<run, target, origin, active, ingesting, pipe, pod>>
        /\ UNCHANGED <<overlap, crashes, faults>>
        /\ req' = [req EXCEPT ![r] = Closed] /\ pod # "down"
        /\ req[r].at \in {"wiping", "aborting"}
    BY DEF WipeGraph, AbortReloadJob, Close, runs, bounds, Up, At
  <1>2. /\ job' \in [Jobs -> Statuses]
        /\ \A j \in Jobs : /\ job'[j] = "absent" <=> job[j] = "absent"
                           /\ job'[j] = "running" => job[j] = "running"
    BY DEF WipeGraph, AbortReloadJob, TypeOK, Statuses, Terminal
  <1>3. req'[r] = Closed /\ \A q \in Requests \ {r} : req'[q] = req[q]
    BY <1>1 DEF TypeOK
  <1>4. Live' = Live /\ Running' \subseteq Running
    BY <1>1, <1>2 DEF Live, Running
  <1>5. ~Creates(r) /\ \A q \in Requests : Creates(q)' => Creates(q) /\ q # r
    BY <1>1, <1>3 DEF Creates, At, Closed
  <1>6. TypeOK'
    BY <1>1, <1>2 DEF TypeOK
  <1>7. RunsOwnJobs'
    BY <1>1, <1>2 DEF RunsOwnJobs, TypeOK
  <1>8. CreatedIsFresh'
    BY <1>1, <1>2, <1>3, <1>5 DEF CreatedIsFresh
  <1>9. FlagIsTarget' /\ DownIsClean' /\ PrunedIsOver'
    BY <1>1, <1>2, <1>4 DEF FlagIsTarget, DownIsClean, PrunedIsOver
  <1>10. Alone'
    <2> SUFFICES ASSUME ~overlap
                 PROVE  OneHandler' /\ OneLive' /\ \A q \in Requests : AnswerHolds(q)'
      BY <1>1 DEF Alone
    <2>1. OneHandler /\ OneLive /\ AnswerHolds(r) /\ req[r] # Closed
      BY <1>1 DEF Alone, Closed
    <2>2. \A q \in Requests : req'[q] = Closed
      BY <1>3, <2>1 DEF OneHandler
    <2>3. Live = {}
      BY <1>1, <2>1 DEF AnswerHolds, OneLive, Running, Live
    <2>4. OneLive'
      BY <1>1, <1>4, <2>1, <2>3 DEF OneLive
    <2> QED BY <2>2, <2>4 DEF OneHandler, AnswerHolds, Closed
  <1>11. OneRunning'
    <2>1. \A q \in Requests : Creates(q) => Creates(q)' /\ req'[q] = req[q]
      BY <1>3, <1>5 DEF Creates, At
    <2> QED BY <1>1, <1>4, <2>1 DEF OneRunning
  <1> QED BY <1>6, <1>7, <1>8, <1>9, <1>10, <1>11

(* Every step of a handler.                                                *)
LEMMA HandlerKeeps ==
  ASSUME IInv, NEW r \in Requests, Handler(r)
  PROVE  IInv'
  <1>1. CASE PostReload(r) \/ PostReset(r) \/ PostClearGenius(r) \/ PostAbort(r)
    BY <1>1, OpenKeeps DEF PostReload, PostReset, PostClearGenius, PostAbort, AsyncRoutes
  <1>2. CASE ReloadGuard(r) \/ ResetGuard(r) \/ ClearGeniusLyrics(r) \/ AbortGuard(r)
    <2>1. /\ req[r].at \in {"found", "clearing"} /\ pod # "down"
          /\ UNCHANGED <<job, run, target, origin, active, faults, pod, overlap>>
          /\ UNCHANGED <<ingesting, pipe, crashes>>
      BY <1>2 DEF ReloadGuard, ResetGuard, ClearGeniusLyrics, AbortGuard, At, Up, runs, bounds
    <2>2. \/ Close(r)
          \/ Go(r, "creating") /\ req[r].at = "found" /\ req[r].seen = NoJob
          \/ Go(r, "wiping") /\ req[r].at = "found" /\ req[r].seen = NoJob
          \/ Go(r, "aborting") /\ req[r].op = "abort" /\ ~ReloadActive
      BY <1>2 DEF ReloadGuard, ResetGuard, ClearGeniusLyrics, AbortGuard, At
    <2> QED BY <2>1, <2>2, MoveKeeps
  <1> QED BY <1>1, <1>2, FindKeeps, CreateJobKeeps, StartReloadKeeps, WriteKeeps DEF Handler

-----------------------------------------------------------------------------
(* A step of one run starts no reload and no job: what the handlers know   *)
(* of the jobs is still so.                                                *)
LEMMA RunAlone ==
  ASSUME IInv, ~overlap, UNCHANGED <<target, origin, req, overlap>>,
         \A i \in Jobs : run'[i] # "creating" /\ (run'[i] = "reading" => run[i] = "reading"),
         Live' \subseteq Live,
         \A i \in Live' : job'[i] = "running",
         \A i \in Live' : run'[i] = "scheduling" \/ origin[i] = "route" => active' = i,
         \A k \in Jobs : job'[k] = "running" => job[k] = "running",
         \A k \in Jobs : job[k] = "running" /\ run[k] = "none" => job'[k] = "running"
  PROVE  Alone'
  <1>1. OneHandler /\ OneLive /\ \A r \in Requests : AnswerHolds(r)
    BY DEF IInv, Alone
  <1>2. OneHandler'
    BY <1>1 DEF OneHandler
  <1>3. OneLive'
    BY <1>1 DEF OneLive
  <1>4. Running' \subseteq Running /\ (ResumedRunReads' => ResumedRunReads)
    BY DEF Running, ResumedRunReads
  <1>5. ASSUME NEW r \in Requests PROVE AnswerHolds(r)'
    <2>1. AnswerHolds(r)
      BY <1>1
    <2>2. ASSUME req[r].at = "created" PROVE Running' = {req[r].seen}
      <3>1. Running = {req[r].seen} /\ req[r].op = "reload"
        BY <2>1, <2>2 DEF AnswerHolds
      <3>2. req[r].seen \in Jobs /\ run[req[r].seen] = "none"
        BY <2>2, <3>1 DEF IInv, Flags, CreatedIsFresh, Creates, At
      <3> QED BY <1>4, <3>1, <3>2 DEF Running
    <2> QED BY <1>4, <2>1, <2>2 DEF AnswerHolds
  <1> QED BY <1>2, <1>3, <1>5 DEF Alone

(* A run reads its job: it raises the flag again, or starts over.          *)
LEMMA ReadJobKeeps ==
  ASSUME IInv, NEW j \in Jobs, ReadJob(j)
  PROVE  IInv'
  <1> USE DEF IInv, Flags
  <1>1. /\ run[j] = "reading" /\ pod # "down"
        /\ UNCHANGED <<job, target, origin, ingesting, pipe, req, pod, overlap, crashes, faults>>
    BY DEF ReadJob, Up, bounds
  <1>2. \/ /\ job[j] = "deleted" /\ run' = [run EXCEPT ![j] = "creating"] /\ active' = active
        \/ /\ job[j] # "deleted" /\ run' = [run EXCEPT ![j] = "scheduling"] /\ active' = j
    BY DEF ReadJob
  <1>3. /\ run'[j] \in {"creating", "scheduling"} /\ \A i \in Jobs \ {j} : run'[i] = run[i]
        /\ active' \in {j, active}
    BY <1>2 DEF TypeOK
  <1>4. Live' = Live /\ j \in Live /\ Running' = Running /\ target[j] = j
    BY <1>1, <1>3 DEF Live, Running, RunsOwnJobs, Begins
  <1>5. TypeOK'
    BY <1>1, <1>2 DEF TypeOK, RunStates
  <1>6. RunsOwnJobs'
    BY <1>1, <1>3, <1>4 DEF RunsOwnJobs, Begins
  <1>7. CreatedIsFresh'
    BY <1>1, <1>3 DEF CreatedIsFresh, Creates, At
  <1>8. FlagIsTarget'
    <2>1. active' # NoJob => \E i \in Live' : target'[i] = active'
      BY <1>1, <1>3, <1>4 DEF FlagIsTarget
    <2>2. ASSUME NEW i \in Jobs, run'[i] \in Begins, origin'[i] = "boot" PROVE active' # i
      BY <1>1, <1>2, <1>3, <2>2 DEF FlagIsTarget, TypeOK, Begins
    <2> QED BY <2>1, <2>2 DEF FlagIsTarget
  <1>9. DownIsClean' /\ PrunedIsOver'
    BY <1>1, <1>3 DEF DownIsClean, PrunedIsOver
  <1>10. Alone'
    <2>1. CASE overlap
      BY <1>1, <2>1 DEF Alone
    <2>2. CASE ~overlap
      <3>1. OneLive
        BY <2>2 DEF Alone
      <3>2. job[j] = "running" /\ Live = {j}
        BY <1>4, <3>1 DEF OneLive
      <3>3. run'[j] = "scheduling" /\ active' = j
        BY <1>2, <1>3, <3>2 DEF TypeOK
      <3>4. /\ \A i \in Jobs : run'[i] # "creating" /\ (run'[i] = "reading" => run[i] = "reading")
            /\ \A i \in Live' : job'[i] = "running" /\ active' = i
        BY <1>1, <1>3, <1>4, <3>1, <3>2, <3>3 DEF OneLive
      <3> QED BY <1>1, <1>4, <2>2, <3>4, RunAlone
    <2> QED BY <2>1, <2>2
  <1>11. OneRunning'
    <2>1. \A k \in Running : run[k] # "none" => run'[k] # "none"
      BY <1>3 DEF Running
    <2>2. \A r : Creates(r)' = Creates(r)
      BY <1>1 DEF Creates, At
    <2> QED BY <1>1, <1>4, <2>1, <2>2 DEF OneRunning
  <1> QED BY <1>5, <1>6, <1>7, <1>8, <1>9, <1>10, <1>11

(* A run whose job is gone creates another: handlers overlapped before.    *)
LEMMA CreateFreshKeeps ==
  ASSUME IInv, NEW j \in Jobs, CreateFreshJob(j)
  PROVE  IInv'
  <1> USE DEF IInv, Flags
  <1>1. /\ run[j] = "creating" /\ pod # "down"
        /\ UNCHANGED <<origin, ingesting, pipe, req, pod, overlap, crashes, faults>>
        /\ run' = [run EXCEPT ![j] = "scheduling"]
    BY DEF CreateFreshJob, Up, bounds
  <1>2. PICK k \in NextJob :
          /\ job' = [job EXCEPT ![k] = "running"]
          /\ target' = [target EXCEPT ![j] = k] /\ active' = k
    BY DEF CreateFreshJob, createReloadJob
  <1>3. k \in Jobs /\ job[k] = "absent" /\ run[k] = "none" /\ k # j
    BY <1>1, <1>2 DEF NextJob, RunsOwnJobs
  <1>4. /\ run'[j] = "scheduling" /\ \A i \in Jobs \ {j} : run'[i] = run[i]
        /\ target'[j] = k /\ \A i \in Jobs \ {j} : target'[i] = target[i]
        /\ job'[k] = "running" /\ \A i \in Jobs \ {k} : job'[i] = job[i]
    BY <1>1, <1>2, <1>3 DEF TypeOK
  <1>5. overlap
    BY <1>1 DEF Alone, OneLive
  <1>6. TypeOK'
    BY <1>1, <1>2, <1>3 DEF TypeOK, RunStates, Statuses
  <1>7. RunsOwnJobs'
    BY <1>1, <1>3, <1>4 DEF RunsOwnJobs, Begins, TypeOK
  <1>8. CreatedIsFresh'
    BY <1>1, <1>3, <1>4 DEF CreatedIsFresh, Creates, At
  <1>9. FlagIsTarget'
    <2>1. j \in Live' /\ target'[j] = active'
      BY <1>2, <1>4 DEF Live
    <2>2. ASSUME NEW i \in Jobs, run'[i] \in Begins PROVE active' # i
      <3>1. i # j /\ run[i] # "none"
        BY <1>4, <2>2 DEF Begins
      <3> QED BY <1>2, <1>3, <3>1
    <2> QED BY <2>1, <2>2 DEF FlagIsTarget
  <1>10. DownIsClean' /\ PrunedIsOver' /\ Alone' /\ OneRunning'
    BY <1>1, <1>5 DEF DownIsClean, PrunedIsOver, Alone, OneRunning
  <1> QED BY <1>6, <1>7, <1>8, <1>9, <1>10

(* A run leaves its stages, with its flag cleared, or rejects outside of   *)
(* them: then its flag is cleared by the route, and the boot never had one *)
(* to clear.                                                               *)
LEMMA RunLeaves ==
  ASSUME IInv, NEW j \in Jobs, ScheduleEnds(j) \/ RunRejects(j)
  PROVE  IInv'
  <1> USE DEF IInv, Flags
  <1>1. /\ UNCHANGED <<job, target, origin, ingesting, pipe, req, pod, overlap, crashes>>
        /\ pod # "down" /\ faults' \in {faults, faults + 1}
        /\ run[j] \in {"reading", "creating", "scheduling", "finishing"}
    BY DEF ScheduleEnds, RunRejects, Up, bounds
  <1>2. \E s \in {"none", "finishing", "recovering"} : run' = [run EXCEPT ![j] = s]
    BY DEF ScheduleEnds, RunRejects
  <1>3. /\ run'[j] \in {"none", "finishing", "recovering"}
        /\ \A i \in Jobs \ {j} : run'[i] = run[i]
    BY <1>2 DEF TypeOK
  <1>4. active' \in {active, NoJob}
    BY DEF ScheduleEnds, RunRejects, ClearedBy
  <1>5. Live' = Live \ {j} /\ Running' = Running
    BY <1>1, <1>3 DEF Live, Running
  <1>6. TypeOK'
    BY <1>1, <1>2, <1>4 DEF TypeOK, RunStates
  <1>7. RunsOwnJobs'
    BY <1>1, <1>3 DEF RunsOwnJobs, Begins
  <1>8. CreatedIsFresh'
    BY <1>1, <1>3 DEF CreatedIsFresh, Creates, At
  <1>9. active' # NoJob => ~(j \in Live /\ target[j] = active)
    <2>1. CASE ScheduleEnds(j)
      BY <2>1 DEF ScheduleEnds, ClearedBy
    <2>2. CASE RunRejects(j)
      <3>1. j \in Live => run[j] \in Begins /\ target[j] = j
        BY <2>2 DEF RunRejects, Live, RunsOwnJobs, Begins
      <3>2. CASE origin[j] = "route"
        BY <2>2, <3>1, <3>2 DEF RunRejects, ClearedBy
      <3>3. CASE origin[j] = "boot"
        BY <3>1, <3>3 DEF FlagIsTarget
      <3> QED BY <3>2, <3>3 DEF TypeOK
    <2> QED BY <2>1, <2>2
  <1>10. FlagIsTarget'
    <2>1. active' # NoJob => \E i \in Live' : target'[i] = active'
      BY <1>1, <1>4, <1>5, <1>9 DEF FlagIsTarget
    <2>2. ASSUME NEW i \in Jobs, run'[i] \in Begins, origin'[i] = "boot" PROVE active' # i
      BY <1>1, <1>3, <1>4, <2>2, JobsAreNumbers DEF FlagIsTarget, Begins
    <2> QED BY <2>1, <2>2 DEF FlagIsTarget
  <1>11. DownIsClean' /\ PrunedIsOver'
    BY <1>1, <1>3 DEF DownIsClean, PrunedIsOver
  <1>12. Alone'
    <2>1. CASE overlap
      BY <1>1, <2>1 DEF Alone
    <2>2. CASE ~overlap
      <3>1. OneLive
        BY <2>2 DEF Alone
      <3>2. ASSUME NEW i \in Live', run'[i] = "scheduling" \/ origin[i] = "route"
            PROVE  active' = i
        <4>1. i \in Live /\ i # j /\ active = i
          BY <1>3, <1>5, <3>1, <3>2 DEF OneLive, Live
        <4>2. active' = ClearedBy(j) \/ active' = active
          BY <3>1 DEF ScheduleEnds, RunRejects, OneLive
        <4> QED BY <4>1, <4>2 DEF ClearedBy
      <3>3. /\ \A i \in Jobs : run'[i] # "creating" /\ (run'[i] = "reading" => run[i] = "reading")
            /\ \A i \in Live' : job'[i] = "running"
        BY <1>1, <1>3, <1>5, <3>1 DEF OneLive
      <3> QED BY <1>1, <1>5, <2>2, <3>2, <3>3, RunAlone
    <2> QED BY <2>1, <2>2
  <1>13. OneRunning'
    <2>1. CASE ScheduleEnds(j)
      <3>1. faults' = faults /\ (pod = "up" => run'[j] = "finishing")
        BY <2>1 DEF ScheduleEnds, TypeOK, bounds
      <3>2. pod = "up" => \A k \in Running : run[k] # "none" => run'[k] # "none"
        BY <1>3, <3>1 DEF Running
      <3>3. \A r : Creates(r)' = Creates(r)
        BY <1>1 DEF Creates, At
      <3> QED BY <1>1, <1>5, <3>1, <3>2, <3>3 DEF OneRunning
    <2>2. CASE RunRejects(j)
      <3>1. faults' # 0
        BY <2>2 DEF RunRejects, TypeOK
      <3> QED BY <3>1 DEF OneRunning
    <2> QED BY <2>1, <2>2
  <1> QED BY <1>6, <1>7, <1>8, <1>10, <1>11, <1>12, <1>13

(* A run closes its job out and prunes the old ones: no reload is at work  *)
(* on any of them.                                                         *)
LEMMA RunCloses ==
  ASSUME IInv, NEW j \in Jobs, FinishReloadJob(j) \/ Recover(j) \/ Prune(j)
  PROVE  IInv'
  <1> USE DEF IInv, Flags
  <1>1. /\ UNCHANGED <<target, origin, active, ingesting, pipe, req, pod>>
        /\ UNCHANGED <<overlap, crashes, faults>> /\ pod # "down"
        /\ run[j] \in {"finishing", "recovering", "pruning"}
    BY DEF FinishReloadJob, Recover, Prune, Up, bounds
  <1>2. \/ run' = [run EXCEPT ![j] = "pruning"]
        \/ run' = [run EXCEPT ![j] = "none"] /\ run[j] = "pruning"
    BY DEF FinishReloadJob, Recover, Prune
  <1>3. /\ run'[j] \in {"pruning", "none"} /\ \A i \in Jobs \ {j} : run'[i] = run[i]
        /\ run'[j] = "none" => run[j] = "pruning"
    BY <1>2 DEF TypeOK
  <1>4. /\ job' \in [Jobs -> Statuses]
        /\ \A k \in Jobs : /\ job'[k] = "absent" => job[k] = "absent"
                           /\ job'[k] = "running" => job[k] = "running"
                           /\ job[k] = "absent" => job'[k] = "absent"
    <2>1. CASE Prune(j)
      BY <2>1 DEF Prune, Prunable, Ended, TypeOK, Statuses, Terminal
    <2>2. CASE FinishReloadJob(j) \/ Recover(j)
      <3>1. PICK k \in {j, target[j]}, s \in Terminal : CloseOut(k, s)
        BY <2>2 DEF FinishReloadJob, Recover, Terminal
      <3>2. k \in Jobs /\ job[k] # "absent"
        BY <1>1, <3>1 DEF TypeOK, RunsOwnJobs
      <3> QED BY <3>1, <3>2 DEF CloseOut, TypeOK, Statuses, Terminal
    <2> QED BY <2>1, <2>2
  <1>5. Live' = Live /\ Running' \subseteq Running
    BY <1>1, <1>3, <1>4 DEF Live, Running
  <1>6. ASSUME ~overlap
        PROVE  /\ \A k \in Jobs \ {j} : job[k] = "running" => job'[k] = "running"
               /\ run'[j] = "pruning" \/ run'[j] = "none" => job'[j] # "running"
    <2>1. target[j] = j
      BY <1>6 DEF Alone, OneLive
    <2>2. CASE Prune(j)
      <3>1. job[j] # "running"
        BY <1>6, <2>2 DEF Prune, PrunedIsOver
      <3> QED BY <1>4, <2>2, <3>1 DEF Prune, Prunable, Ended, Terminal, TypeOK
    <2>3. CASE FinishReloadJob(j) \/ Recover(j)
      <3>1. PICK s \in Terminal : CloseOut(j, s)
        BY <2>1, <2>3 DEF FinishReloadJob, Recover, Terminal
      <3> QED BY <3>1 DEF CloseOut, TypeOK, Terminal
    <2> QED BY <2>2, <2>3
  <1>7. TypeOK'
    BY <1>1, <1>2, <1>4 DEF TypeOK, RunStates
  <1>8. RunsOwnJobs'
    BY <1>1, <1>3, <1>4 DEF RunsOwnJobs, Begins, TypeOK
  <1>9. CreatedIsFresh'
    BY <1>1, <1>3, <1>4 DEF CreatedIsFresh, Creates, At
  <1>10. FlagIsTarget' /\ DownIsClean'
    BY <1>1, <1>3, <1>5 DEF FlagIsTarget, DownIsClean, Begins
  <1>11. PrunedIsOver'
    BY <1>1, <1>3, <1>4, <1>6 DEF PrunedIsOver
  <1>12. Alone'
    <2>1. CASE overlap
      BY <1>1, <2>1 DEF Alone
    <2>2. CASE ~overlap
      <3>1. OneLive
        BY <2>2 DEF Alone
      <3>2. \A i \in Live' : i \in Jobs \ {j} /\ job[i] = "running" /\ run'[i] = run[i]
        BY <1>1, <1>3, <1>5, <3>1 DEF OneLive, Live
      <3>3. \A i \in Live' : job'[i] = "running"
        BY <1>6, <2>2, <3>2
      <3>4. \A i \in Live' : run'[i] = "scheduling" \/ origin[i] = "route" => active' = i
        BY <1>1, <1>5, <3>1, <3>2 DEF OneLive
      <3>5. \A i \in Jobs : run'[i] # "creating" /\ (run'[i] = "reading" => run[i] = "reading")
        BY <1>3, <3>1 DEF OneLive
      <3>6. \A k \in Jobs : job[k] = "running" /\ run[k] = "none" => job'[k] = "running"
        BY <1>1, <1>6, <2>2
      <3> QED BY <1>1, <1>4, <1>5, <2>2, <3>3, <3>4, <3>5, <3>6, RunAlone
    <2> QED BY <2>1, <2>2
  <1>13. OneRunning'
    <2>1. \A k \in Running' : ~overlap => k # j /\ run'[k] = run[k]
      BY <1>3, <1>6 DEF Running
    <2> QED BY <1>1, <1>5, <2>1 DEF OneRunning, Creates, At
  <1> QED BY <1>7, <1>8, <1>9, <1>10, <1>11, <1>12, <1>13

-----------------------------------------------------------------------------
(* The pod dies: the database keeps the jobs, and nothing else is left.    *)
LEMMA CrashKeeps ==
  ASSUME IInv, Crash
  PROVE  IInv'
  <1> USE DEF IInv, Flags
  <1>1. /\ run' = [j \in Jobs |-> "none"] /\ target' = [j \in Jobs |-> j]
        /\ origin' = [j \in Jobs |-> "route"] /\ req' = [r \in Requests |-> Closed]
        /\ active' = NoJob /\ pod' = "down" /\ job' = job /\ overlap' = overlap /\ faults' = faults
    BY DEF Crash
  <1>2. TypeOK'
    <2>1. ingesting' = FALSE /\ pipe' = [p \in Pipelines |-> "idle"] /\ crashes' = crashes + 1
      BY DEF Crash
    <2>2. /\ req' \in [Requests -> {Closed} \cup Handlers]
          /\ pipe' \in [Pipelines -> {"idle", "enriching", "resetting"}]
          /\ target' \in [Jobs -> Jobs] /\ run' \in [Jobs -> RunStates]
          /\ origin' \in [Jobs -> {"route", "boot"}]
      BY <1>1, <2>1 DEF RunStates
    <2>3. job' \in [Jobs -> Statuses] /\ overlap' \in BOOLEAN /\ crashes' \in Nat /\ faults' \in Nat
      BY <1>1, <2>1 DEF TypeOK
    <2> QED BY <1>1, <2>1, <2>2, <2>3 DEF TypeOK
  <1>3. RunsOwnJobs' /\ CreatedIsFresh' /\ FlagIsTarget' /\ DownIsClean'
    BY <1>1 DEF RunsOwnJobs, CreatedIsFresh, FlagIsTarget, DownIsClean, Creates, At, Closed, Begins
  <1>4. Live' = {} /\ Running' = Running
    BY <1>1 DEF Live, Running
  <1>5. Alone' /\ PrunedIsOver'
    BY <1>1, <1>4 DEF Alone, OneHandler, OneLive, AnswerHolds, Closed, PrunedIsOver
  <1>6. OneRunning'
    BY <1>1, <1>4 DEF OneRunning
  <1> QED BY <1>2, <1>3, <1>5, <1>6

(* Another one starts: it resumes the running job, if there is one.        *)
LEMMA BootKeeps ==
  ASSUME IInv, Boot \/ BootWithoutCredentials
  PROVE  IInv'
  <1> USE DEF IInv, Flags
  <1>1. /\ pod = "down" /\ pod' = "up"
        /\ UNCHANGED <<job, target, active, pipe, req, overlap, crashes>>
        /\ active = NoJob /\ \A j \in Jobs : run[j] = "none" /\ target[j] = j
        /\ \A r \in Requests : req[r] = Closed
    BY DEF Boot, BootWithoutCredentials, DownIsClean, runs, bounds
  <1>2. \A r \in Requests : ~Creates(r)' /\ AnswerHolds(r)' /\ req'[r] = Closed
    BY <1>1 DEF Creates, At, Closed, AnswerHolds
  <1>3. CreatedIsFresh' /\ DownIsClean' /\ OneHandler' /\ Running' = Running
    BY <1>1, <1>2 DEF CreatedIsFresh, DownIsClean, OneHandler, Running
  <1>4. CASE Boot /\ Running # {}
    <2>1. PICK j \in Running : j = findResumableReloadJob
      BY <1>4, ResumesRunning
    <2>2. j \in Jobs /\ job[j] = "running" /\ j # NoJob
      BY <2>1, JobsAreNumbers DEF Running
    <2>3. /\ run' = [run EXCEPT ![j] = "reading"]
          /\ origin' = [origin EXCEPT ![j] = "boot"]
          /\ UNCHANGED <<ingesting, faults>>
      BY <1>4, <2>1, <2>2 DEF Boot, bounds
    <2>4. /\ run'[j] = "reading" /\ origin'[j] = "boot"
          /\ \A i \in Jobs \ {j} : run'[i] = "none"
      BY <1>1, <2>2, <2>3 DEF TypeOK
    <2>5. TypeOK'
      BY <1>1, <2>2, <2>3 DEF TypeOK, RunStates
    <2>6. RunsOwnJobs' /\ FlagIsTarget'
      BY <1>1, <2>2, <2>4, JobsAreNumbers DEF RunsOwnJobs, FlagIsTarget
    <2>7. Live' = {j}
      BY <2>2, <2>4 DEF Live
    <2>8. Alone' /\ PrunedIsOver'
      BY <1>1, <1>2, <1>3, <2>2, <2>4, <2>7 DEF Alone, OneLive, PrunedIsOver
    <2>9. OneRunning'
      BY <1>1, <1>3, <2>1, <2>3, <2>4 DEF OneRunning
    <2> QED BY <1>3, <2>5, <2>6, <2>8, <2>9
  <1>5. CASE BootWithoutCredentials \/ (Boot /\ Running = {})
    <2>1. /\ run' = run /\ origin' = origin
          /\ \/ faults' = faults /\ Running = {}
             \/ faults' = faults + 1
      BY <1>5 DEF Boot, BootWithoutCredentials, findResumableReloadJob, runs, bounds
    <2>2. TypeOK'
      BY <1>1, <1>5, <2>1 DEF TypeOK, Boot, BootWithoutCredentials, findResumableReloadJob, bounds
    <2>3. RunsOwnJobs' /\ FlagIsTarget'
      BY <1>1, <2>1 DEF RunsOwnJobs, FlagIsTarget, Begins
    <2>4. Live' = {}
      BY <1>1, <2>1 DEF Live
    <2>5. Alone' /\ PrunedIsOver'
      BY <1>1, <1>2, <1>3, <2>1, <2>4 DEF Alone, OneLive, PrunedIsOver
    <2>6. OneRunning'
      <3>1. CASE faults' = faults /\ Running = {}
        BY <1>3, <3>1 DEF OneRunning
      <3>2. CASE faults' = faults + 1
        BY <3>2 DEF OneRunning, TypeOK
      <3> QED BY <2>1, <3>1, <3>2
    <2> QED BY <1>3, <2>2, <2>3, <2>5, <2>6
  <1> QED BY <1>4, <1>5

(* Nothing was ever started.                                               *)
LEMMA Initially == Init => IInv
  <1> SUFFICES ASSUME Init PROVE IInv
    OBVIOUS
  <1>1. TypeOK
    BY DEF Init, TypeOK, Statuses, RunStates
  <1>2. Live = {} /\ Running = {}
    BY DEF Init, Live, Running
  <1>3. Flags
    BY DEF Init, Flags, RunsOwnJobs, CreatedIsFresh, FlagIsTarget, DownIsClean, Creates, At,
       Closed, Begins
  <1>4. Alone /\ PrunedIsOver /\ OneRunning
    BY <1>2 DEF Init, Alone, OneHandler, OneLive, AnswerHolds, Closed, PrunedIsOver, OneRunning
  <1> QED BY <1>1, <1>3, <1>4 DEF IInv

(* Every step of the routes, of a run and of the pod keeps the invariant.  *)
LEMMA Inductive == IInv /\ [Next]_vars => IInv'
  <1> SUFFICES ASSUME IInv, [Next]_vars PROVE IInv'
    OBVIOUS
  <1>1. ASSUME NEW j \in Jobs, Run(j) PROVE IInv'
    BY <1>1, ReadJobKeeps, CreateFreshKeeps, RunLeaves, RunCloses DEF Run
  <1> QED BY <1>1, RoutesKeep, HandlerKeeps, CrashKeeps, BootKeeps DEF Next

(* So it holds in every state the server reaches.                          *)
LEMMA Invariant == Spec => []IInv
  BY Initially, Inductive, PTL DEF Spec

-----------------------------------------------------------------------------
(* Every state the server reaches keeps its types.                         *)
THEOREM TypeCorrect == Spec => []TypeOK
  <1>1. IInv => TypeOK
    BY DEF IInv
  <1> QED BY <1>1, Invariant, PTL

(* The reload-active flag stands for a run that is there, however handlers *)
(* and runs interleave, reject or die: it never locks the admin routes for *)
(* nobody (markReloadActive, markReloadInactive, the route's catch).       *)
THEOREM FlagStandsForRun == Spec => []FlagNotLeaked
  <1>1. IInv => FlagNotLeaked
    BY DEF IInv, Flags, FlagIsTarget, FlagNotLeaked
  <1> QED BY <1>1, Invariant, PTL

(* As long as no two handlers overlapped there is one reload at a time:    *)
(* the 409 of POST /reload, the checkpoint and the resume agree.           *)
THEOREM OneReloadAtATime == Spec => []SerialReloads
  <1>1. IInv => SerialReloads
    <2> SUFFICES ASSUME IInv, ~overlap PROVE Cardinality(Live) <= 1
      BY DEF SerialReloads, SingleLiveReload
    <2>1. \A i, j \in Live : i = j
      BY DEF IInv, Alone, OneLive
    <2>2. CASE Live = {}
      BY <2>2, FS_EmptySet
    <2>3. CASE Live # {}
      <3>1. PICK j \in Live : Live = {j}
        BY <2>1, <2>3
      <3> QED BY <3>1, FS_Singleton
    <2> QED BY <2>2, <2>3
  <1> QED BY <1>1, Invariant, PTL

(* A running job is being run, or is about to be, unless a run was         *)
(* rejected or a boot could not resume: no job refuses reloads for nobody. *)
THEOREM EveryJobIsRun == Spec => []NoOrphanJob
  <1>1. IInv => NoOrphanJob
    <2> SUFFICES ASSUME IInv, pod = "up", faults = 0, ~overlap, NEW k \in Running
                 PROVE  \/ \E j \in Jobs : run[j] # "none" /\ target[j] = k
                        \/ \E r \in Requests : Creates(r) /\ req[r].seen = k
      BY DEF NoOrphanJob, Creates
    <2>1. target[k] = k /\ k \in Jobs
      BY DEF IInv, Alone, OneLive, Running
    <2> QED BY <2>1 DEF IInv, OneRunning
  <1> QED BY <1>1, Invariant, PTL

(* While a reload works on its stages every route that would start other   *)
(* work finds its flag.                                                    *)
THEOREM NothingStarts == Spec => NothingStartsDuringReload
  <1> DEFINE A == Scheduling # {} /\ ~overlap =>
                    /\ ingesting' => ingesting
                    /\ \A p \in Pipelines : pipe'[p] # "idle" => pipe[p] # "idle"
  <1>1. ASSUME IInv, [Next]_vars PROVE [A]_vars
    <2> SUFFICES ASSUME NEW j \in Scheduling, ~overlap, Next PROVE A
      BY <1>1
    <2>1. j \in Jobs /\ run[j] = "scheduling" /\ j \in Live
      BY DEF Scheduling, Live
    <2>2. ReloadActive /\ pod # "down"
      BY <1>1, <2>1, JobsAreNumbers DEF IInv, Flags, Alone, OneLive, DownIsClean, ReloadActive
    <2>3. ASSUME NEW r \in Requests, Handler(r) PROVE UNCHANGED <<ingesting, pipe>>
      BY <2>3 DEF Handler, PostReload, PostReset, PostClearGenius, PostAbort, Open, Find,
         ReloadGuard, CreateJob, StartReload, ResetGuard, WipeGraph, ClearGeniusLyrics,
         AbortGuard, AbortReloadJob
    <2>4. ASSUME NEW i \in Jobs, Run(i) PROVE UNCHANGED <<ingesting, pipe>>
      BY <2>4 DEF Run, ReadJob, CreateFreshJob, ScheduleEnds, FinishReloadJob, Prune,
         RunRejects, Recover
    <2>5. ASSUME NEW p \in Pipelines, PipelineEnds(p) PROVE A
      BY <1>1, <2>5 DEF PipelineEnds, IInv, TypeOK
    <2>6. ASSUME NEW p \in Pipelines, PostEnrich(p) \/ PostPipelineReset(p) PROVE A
      BY <2>2, <2>6 DEF PostEnrich, PostPipelineReset
    <2>7. CASE PostIngest \/ IngestEnds \/ Shutdown
      BY <2>2, <2>7 DEF PostIngest, IngestEnds, Shutdown
    <2>8. CASE Crash
      BY <2>8 DEF Crash
    <2>9. CASE Boot \/ BootWithoutCredentials
      BY <2>2, <2>9 DEF Boot, BootWithoutCredentials
    <2> QED BY <2>3, <2>4, <2>5, <2>6, <2>7, <2>8, <2>9 DEF Next
  <1> QED BY <1>1, Invariant, PTL DEF Spec, NothingStartsDuringReload

(* A wipe that was not overlapped runs when no reload is live at all: its  *)
(* guard's answer still holds when the query comes to run.                 *)
THEOREM WipeSparesReloads == Spec => WipeSparesEarlierReload
  <1> DEFINE A == \A r \in Requests :
                    At(r, "reset", "wiping") /\ req'[r] = Closed /\ pod' = pod /\ ~overlap =>
                      req[r].before \cap Live = {}
  <1>1. IInv => A
    <2> SUFFICES ASSUME IInv, ~overlap, NEW r \in Requests, At(r, "reset", "wiping")
                 PROVE  Live = {}
      OBVIOUS
    <2>1. Running = {} /\ OneLive
      BY DEF IInv, Alone, AnswerHolds, At
    <2> QED BY <2>1 DEF OneLive, Running, Live
  <1> QED BY <1>1, Invariant, PTL DEF WipeSparesEarlierReload

=============================================================================
