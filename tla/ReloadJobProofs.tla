-------------------------- MODULE ReloadJobProofs --------------------------
(***************************************************************************)
(* Proofs about a reload, for every stage graph, concurrency and set of    *)
(* optional stages, any number of pod deaths, failing calls and operator   *)
(* aborts: its types, that a job recorded complete has done every stage,   *)
(* that a stage recorded done is never touched again, and that the gate    *)
(* has judged all that ran.                                                *)
(***************************************************************************)
EXTENDS ReloadJob, FiniteSetTheorems, TLAPS

(* A checkpoint write leaves the rows well-typed, whether or not it fails. *)
Statuses == Done \cup {"pending", "running", "failed"}

(* A row gets a status, or stays.                                          *)
LEMMA RowTyped ==
    ASSUME TypeOK, NEW s \in Stages, NEW status \in Statuses,
           SetRow(s, status) \/ UNCHANGED row
    PROVE  row' \in [Stages -> Statuses]
  BY DEF TypeOK, SetRow, Statuses

(* The steps of a stage and of the gate. *)
StepsTyped(f) ==
    /\ f \in [Stages -> StepNames \cup GateSteps]
    /\ \A s \in Stages \ {Verify} : f[s] \in StepNames
    /\ f[Verify] \notin {"working", "complete", "skipped"}

(* A stage goes on to a step of its own.                                   *)
LEMMA StepTyped ==
    ASSUME TypeOK, NEW s \in Stages, NEW next, GoTo(s, next),
           \/ next \in {"idle", "marking", "failing"}
           \/ s = Verify /\ next \in GateSteps
           \/ s # Verify /\ next \in StepNames
    PROVE  StepsTyped(step')
  BY VerifyAssumption
     DEF TypeOK, GoTo, StepsTyped, StepNames, GateSteps, VerifyAssumption

-----------------------------------------------------------------------------
(* Every step of a stage keeps the types.                                  *)
LEMMA StageStepTyped ==
    ASSUME TypeOK, NEW s \in Stages, StageStep(s)
    PROVE  TypeOK'
<1> USE VerifyAssumption DEF VerifyAssumption
<1> SUFFICES /\ row' \in [Stages -> Statuses]
             /\ StepsTyped(step')
             /\ ran' \in SUBSET Stages /\ settled' \in SUBSET Stages
             /\ counted' \in Nat /\ failures' \in Nat /\ faults' \in Nat
             /\ UNCHANGED <<job, proc, origin, clients, done, verdict, signals,
                            judged, crashes, aborts>>
  BY DEF TypeOK, StepsTyped, Statuses, signals
<1>1. CASE MarkRunning(s)
  <2>1. StepsTyped(step')
    BY <1>1, StepTyped DEF MarkRunning, StepNames, GateSteps
  <2>2. row' \in [Stages -> Statuses]
    BY <1>1, RowTyped DEF MarkRunning, Statuses
  <2>. QED
    BY <1>1, <2>1, <2>2 DEF MarkRunning, TypeOK, history
<1>2. CASE StageReturns(s)
  <2>1. s # Verify
    BY <1>2 DEF StageReturns, TypeOK
  <2>2. StepsTyped(step')
    BY <1>2, <2>1, StepTyped DEF StageReturns, StepNames
  <2>. QED
    BY <1>2, <2>2 DEF StageReturns, TypeOK, durable, history, Statuses
<1>3. CASE StageInterrupted(s)
  BY <1>3, StepTyped DEF StageInterrupted, SettleStage, TypeOK, durable, history, Statuses
<1>4. CASE MarkStageComplete(s)
  <2>1. row' \in [Stages -> Statuses]
    BY <1>4, RowTyped DEF MarkStageComplete, Statuses
  <2>2. StepsTyped(step') /\ settled' \in SUBSET Stages
    BY <1>4, StepTyped DEF MarkStageComplete, SettleStage, TypeOK
  <2>. QED
    BY <1>4, <2>1, <2>2 DEF MarkStageComplete, TypeOK, history
<1>5. CASE MarkRunningFails(s) \/ StageThrows(s) \/ MarkStageCompleteFails(s)
  <2>1. row' \in [Stages -> Statuses] /\ faults' \in Nat
    BY <1>5, RowTyped
       DEF MarkRunningFails, StageThrows, MarkStageCompleteFails, Fault, TypeOK,
           durable, history, Statuses, Done
  <2>2. StepsTyped(step')
    BY <1>5, StepTyped DEF MarkRunningFails, StageThrows, MarkStageCompleteFails, Catch
  <2>. QED
    BY <1>5, <2>1, <2>2
       DEF MarkRunningFails, StageThrows, MarkStageCompleteFails, Catch, TypeOK,
           durable, history
<1>6. CASE MarkStageFailed(s)
  <2>1. row' \in [Stages -> Statuses] /\ faults' \in Nat
    BY <1>6, RowTyped DEF MarkStageFailed, Fault, TypeOK, Statuses
  <2>2. StepsTyped(step') /\ settled' \in SUBSET Stages
    BY <1>6, StepTyped DEF MarkStageFailed, SettleStage, TypeOK
  <2>. QED
    BY <1>6, <2>1, <2>2 DEF MarkStageFailed, TypeOK
<1>. QED
  BY <1>1, <1>2, <1>3, <1>4, <1>5, <1>6 DEF StageStep, StageThrows

(* Every step of the gate keeps the types.                                 *)
LEMMA GateStepTyped ==
    ASSUME TypeOK, GateStep
    PROVE  TypeOK'
<1> USE VerifyAssumption DEF VerifyAssumption
<1> SUFFICES /\ row' \in [Stages -> Statuses]
             /\ StepsTyped(step')
             /\ settled' \in SUBSET Stages /\ judged' \in SUBSET Stages
             /\ counted' \in Nat /\ failures' \in Nat /\ faults' \in Nat
             /\ UNCHANGED <<job, proc, origin, clients, done, ran, verdict, signals,
                            crashes, aborts>>
  BY DEF TypeOK, StepsTyped, Statuses, signals
<1>1. CASE Judge
  BY <1>1, StepTyped DEF Judge, TypeOK, durable, GateSteps, Statuses
<1>2. CASE GateThrows
  <2>1. row' \in [Stages -> Statuses] /\ faults' \in Nat
    BY <1>2, RowTyped DEF GateThrows, Fault, TypeOK, Statuses, Done
  <2>2. StepsTyped(step')
    BY <1>2, StepTyped DEF GateThrows, GateSteps
  <2>. QED
    BY <1>2, <2>1, <2>2 DEF GateThrows, TypeOK
<1>3. CASE GatePasses \/ GateFails
  <2>1. row' \in [Stages -> Statuses]
    BY <1>3, RowTyped DEF GatePasses, GateFails, Statuses, Done
  <2>2. StepsTyped(step') /\ settled' \in SUBSET Stages
    BY <1>3, StepTyped DEF GatePasses, GateFails, SettleStage, TypeOK
  <2>. QED
    BY <1>3, <2>1, <2>2 DEF GatePasses, GateFails, TypeOK, history
<1>4. CASE GateRecordFails
  <2>1. row' \in [Stages -> Statuses] /\ faults' \in Nat
    BY <1>4, RowTyped DEF GateRecordFails, Fault, TypeOK, Statuses
  <2>2. StepsTyped(step')
    BY <1>4, StepTyped DEF GateRecordFails, Catch
  <2>. QED
    BY <1>4, <2>1, <2>2 DEF GateRecordFails, Catch, TypeOK
<1>. QED
  BY <1>1, <1>2, <1>3, <1>4 DEF GateStep

-----------------------------------------------------------------------------
(* A verdict is there before it is recorded: what keeps job in its type.   *)
TypeInv ==
    /\ TypeOK
    /\ proc = "finishing" => verdict # "none"

(* The first state, and every step.                                        *)
LEMMA TypeInvInit == Init => TypeInv
<1> SUFFICES ASSUME Init PROVE TypeInv
  OBVIOUS
<1>1. step[Verify] = "idle" /\ step \in [Stages -> StepNames]
  BY VerifyAssumption DEF Init, VerifyAssumption, StepNames
<1>2. row \in [Stages -> Done \cup {"pending", "running", "failed"}]
  BY DEF Init
<1>. QED
  BY <1>1, <1>2 DEF Init, TypeInv, TypeOK, StepNames, GateSteps, ProcNames, Terminal

(* Every step keeps the types.                                             *)
LEMMA TypeInvNext == TypeInv /\ [Next]_vars => TypeInv'
<1> SUFFICES ASSUME TypeInv, [Next]_vars PROVE TypeInv'
  OBVIOUS
<1>0. TypeOK
  BY DEF TypeInv
<1>1. CASE JobStep
  <2> USE <1>0 DEF TypeInv, TypeOK, ProcNames
  <2>1. CASE ReadJob
    BY <2>1 DEF ReadJob, ReadSkipping, durable, signals, history
  <2>2. CASE ReadJobFails
    BY <2>2 DEF ReadJobFails, durable, memory, signals
  <2>3. CASE ScheduleEnds
    BY <2>3 DEF ScheduleEnds, Conclude, durable, signals, history, Terminal
  <2>4. CASE FinishReloadJob
    BY <2>4 DEF FinishReloadJob, memory, signals, history, Terminal
  <2>5. CASE FinishFails
    BY <2>5 DEF FinishFails, memory, signals, Terminal
  <2>6. CASE Recover
    BY <2>6 DEF Recover, memory, signals, Terminal
  <2>. QED
    BY <1>1, <2>1, <2>2, <2>3, <2>4, <2>5, <2>6 DEF JobStep
<1>2. ASSUME NEW s \in Stages, Start(s) PROVE TypeInv'
  <2>1. StepsTyped(step')
    BY <1>0, <1>2, StepTyped DEF Start
  <2>. QED
    BY <1>0, <1>2, <2>1 DEF Start, StepsTyped, durable, signals, history, TypeInv, TypeOK
<1>3. ASSUME NEW s \in Stages, StageStep(s) PROVE TypeInv'
  <2>1. proc' = proc /\ verdict' = verdict
    BY <1>3 DEF StageStep, MarkRunning, MarkRunningFails, StageReturns, StageInterrupted,
                StageThrows, MarkStageComplete, MarkStageCompleteFails, MarkStageFailed,
                Catch, durable
  <2>. QED
    BY <1>0, <1>3, <2>1, StageStepTyped DEF TypeInv
<1>4. CASE GateStep
  <2>1. proc' = proc /\ verdict' = verdict
    BY <1>4 DEF GateStep, Judge, GateThrows, GatePasses, GateFails, GateRecordFails,
                Catch, durable
  <2>. QED
    BY <1>0, <1>4, <2>1, GateStepTyped DEF TypeInv
<1>5. CASE Shutdown \/ FindRunningJob \/ AbortGuard
  <2>1. /\ aborted' \in BOOLEAN /\ aborting' \in {"no", "found", "acting"}
        /\ aborts' \in Nat
        /\ UNCHANGED <<durable, proc, memory, judged, crashes, faults>>
    <3>1. CASE Shutdown
      BY <1>0, <3>1 DEF Shutdown, history, TypeOK
    <3>2. CASE FindRunningJob
      BY <1>0, <3>2 DEF FindRunningJob, TypeOK
    <3>3. CASE AbortGuard
      BY <1>0, <3>3 DEF AbortGuard, history, TypeOK
    <3>. QED
      BY <1>5, <3>1, <3>2, <3>3
  <2>. QED
    BY <1>0, <2>1 DEF durable, memory, TypeInv, TypeOK
<1>6. CASE Crash
  <2>1. step' \in [Stages -> StepNames] /\ step'[Verify] = "idle"
    BY <1>6, VerifyAssumption DEF Crash, VerifyAssumption, StepNames
  <2>. QED
    <3>1. StepsTyped(step')
      BY <2>1 DEF StepsTyped, StepNames
    <3>2. /\ proc' = "down" /\ done' = {} /\ ran' = {} /\ settled' = {}
          /\ counted' = 0 /\ failures' = 0 /\ verdict' = "none"
          /\ aborted' = FALSE /\ aborting' = "no" /\ crashes' \in Nat
          /\ UNCHANGED <<durable, origin, clients, judged, faults, aborts>>
      BY <1>0, <1>6 DEF Crash, TypeOK
    <3>. QED
      BY <1>0, <3>1, <3>2 DEF durable, TypeInv, TypeOK, StepsTyped, ProcNames
<1>7. CASE Boot \/ BootWithoutCredentials
  <2>1. /\ proc' \in {"reading", "idle"} /\ origin' = "boot" /\ clients' \in BOOLEAN
        /\ faults' \in Nat
        /\ UNCHANGED <<durable, done, ran, settled, step, counted, failures, verdict,
                       signals, judged, crashes, aborts>>
    BY <1>0, <1>7 DEF Boot, BootWithoutCredentials, BootTo, TypeOK
  <2>. QED
    BY <1>0, <2>1 DEF durable, signals, TypeInv, TypeOK, ProcNames
<1>8. CASE AbortReloadJob
  <2>1. /\ job' \in Terminal \cup {"running"}
        /\ row' \in [Stages -> Statuses]
        /\ aborting' = "no"
        /\ UNCHANGED <<proc, memory, aborted, history>>
    BY <1>0, <1>8 DEF AbortReloadJob, durable, TypeOK, Terminal, Statuses
  <2>. QED
    BY <1>0, <2>1 DEF memory, history, TypeInv, TypeOK, Statuses
<1>9. CASE UNCHANGED vars
  BY <1>0, <1>9 DEF vars, durable, memory, history, signals, TypeInv, TypeOK
<1>. QED
  BY <1>1, <1>2, <1>3, <1>4, <1>5, <1>6, <1>7, <1>8, <1>9 DEF Next, StartSome

(* The checkpoints and the memory of the orchestrator keep their types.    *)
THEOREM TypeCorrect == Safety => []TypeOK
<1>1. TypeInv => TypeOK
  BY DEF TypeInv
<1>. QED
  BY <1>1, TypeInvInit, TypeInvNext, PTL DEF Safety

-----------------------------------------------------------------------------
(* The inductive invariant.  A complete job is decided by a count and not  *)
(* by looking at the rows, so it has to say what is counted: every stage   *)
(* counted, and every stage done before, is settled or about to be, and    *)
(* as long as nothing failed and nothing was interrupted every settled     *)
(* stage has a row that says done.                                         *)
Failing == {s \in Stages : step[s] = "failing"}
AllDone == \A s \in Stages : row[s] \in Done

(* A life of the job: nothing is counted before it schedules, and nothing  *)
(* runs before or after.                                                   *)
LifeInv ==
    /\ proc \in {"down", "reading"} =>
          counted = 0 /\ failures = 0 /\ settled = {} /\ done = {}
    /\ proc \in {"down", "reading", "scheduling"} => verdict = "none"
    /\ proc # "scheduling" => \A s \in Stages : step[s] = "idle"

BooksInv ==
    /\ \A s \in settled : step[s] = "idle"
    /\ counted + Cardinality(done) <= Cardinality(settled \cup Failing)
    /\ failures = 0 => Failing = {}
    /\ failures = 0 /\ ~aborted => \A s \in settled : row[s] \in Done
    /\ proc = "scheduling" =>
          \A s \in Stages : row[s] \in Done /\ step[s] = "idle" => s \in settled

EndInv ==
    /\ verdict = "complete" => AllDone
    /\ job = "complete" => AllDone /\ proc \in {"down", "idle", "recovering"}

JobInv == LifeInv /\ BooksInv /\ EndInv

(* Every set of stages is finite. *)
LEMMA StagesFinite ==
    ASSUME NEW S \in SUBSET Stages
    PROVE  IsFiniteSet(S) /\ Cardinality(S) \in Nat
  BY OrderAssumption, FS_Subset, FS_CardinalityType DEF OrderAssumption

(* What a step of one stage may do to the books: it goes on, its failure   *)
(* is caught, it is interrupted, its end is recorded, or its failure is.   *)
GoesOn(s) ==
    /\ step[s] # "failing" /\ step'[s] \notin {"idle", "failing"}
    /\ UNCHANGED <<settled, counted, failures>>

Caught(s) ==
    /\ step[s] # "failing" /\ step'[s] = "failing"
    /\ settled' = settled /\ counted' = counted + 1 /\ failures' = failures + 1

Interrupted(s) ==
    /\ step[s] # "failing" /\ step'[s] = "idle" /\ aborted
    /\ settled' = settled \cup {s} /\ UNCHANGED <<counted, failures>>

Recorded(s) ==
    /\ step[s] # "failing" /\ step'[s] = "idle"
    /\ settled' = settled \cup {s} /\ counted' = counted + 1
    /\ \/ failures' = failures /\ row'[s] \in Done
       \/ failures' = failures + 1

FailureRecorded(s) ==
    /\ step[s] = "failing" /\ step'[s] = "idle"
    /\ settled' = settled \cup {s} /\ UNCHANGED <<counted, failures>>

StageMove(s) ==
    /\ s \in Stages \ settled
    /\ proc = "scheduling"
    /\ \A t \in Stages \ {s} : step'[t] = step[t] /\ row'[t] = row[t]
    /\ UNCHANGED <<job, proc, done, verdict, aborted>>
    /\ GoesOn(s) \/ Caught(s) \/ Interrupted(s) \/ Recorded(s) \/ FailureRecorded(s)

(* A step of a stage is such a move.                                       *)
LEMMA StageStepMoves ==
    ASSUME TypeOK, JobInv, NEW s \in Stages, StageStep(s)
    PROVE  StageMove(s) /\ step[s] # "idle"
<1> USE DEF TypeOK, SetRow, GoTo, Fault, Catch, SettleStage, durable, signals,
            GoesOn, Caught, Interrupted, Recorded, FailureRecorded
<1>0. step[s] # "idle"
  BY DEF StageStep, MarkRunning, MarkRunningFails, StageReturns, StageInterrupted,
         StageThrows, MarkStageComplete, MarkStageCompleteFails, MarkStageFailed, Done
<1>1. s \in Stages \ settled /\ proc = "scheduling"
  BY <1>0 DEF JobInv, LifeInv, BooksInv
<1>2. /\ \A t \in Stages \ {s} : step'[t] = step[t] /\ row'[t] = row[t]
      /\ UNCHANGED <<job, proc, done, verdict, aborted>>
  BY DEF StageStep, MarkRunning, MarkRunningFails, StageReturns, StageInterrupted,
         StageThrows, MarkStageComplete, MarkStageCompleteFails, MarkStageFailed
<1>3. CASE MarkRunning(s) \/ StageReturns(s)
  <2>1. GoesOn(s)
    BY <1>3 DEF MarkRunning, StageReturns
  <2>. QED
    BY <1>0, <1>1, <1>2, <2>1 DEF StageMove
<1>4. CASE MarkRunningFails(s) \/ StageThrows(s) \/ MarkStageCompleteFails(s)
  <2>1. Caught(s)
    BY <1>4 DEF MarkRunningFails, StageThrows, MarkStageCompleteFails, Done
  <2>. QED
    BY <1>0, <1>1, <1>2, <2>1 DEF StageMove
<1>5. CASE StageInterrupted(s)
  <2>1. Interrupted(s)
    BY <1>5 DEF StageInterrupted
  <2>. QED
    BY <1>0, <1>1, <1>2, <2>1 DEF StageMove
<1>6. CASE MarkStageComplete(s)
  <2>1. Recorded(s)
    BY <1>6 DEF MarkStageComplete, Done
  <2>. QED
    BY <1>0, <1>1, <1>2, <2>1 DEF StageMove
<1>7. CASE MarkStageFailed(s)
  <2>1. FailureRecorded(s)
    BY <1>7 DEF MarkStageFailed
  <2>. QED
    BY <1>0, <1>1, <1>2, <2>1 DEF StageMove
<1>. QED
  BY <1>3, <1>4, <1>5, <1>6, <1>7 DEF StageStep

(* A step of the gate is such a move.                                      *)
LEMMA GateStepMoves ==
    ASSUME TypeOK, JobInv, GateStep
    PROVE  StageMove(Verify) /\ step[Verify] # "idle"
<1> USE VerifyAssumption
    DEF TypeOK, SetRow, GoTo, Fault, Catch, SettleStage, durable, signals,
        GoesOn, Caught, Interrupted, Recorded, FailureRecorded, VerifyAssumption
<1>0. step[Verify] # "idle"
  BY DEF GateStep, Judge, GateThrows, GatePasses, GateFails, GateRecordFails
<1>1. Verify \in Stages \ settled /\ proc = "scheduling"
  BY <1>0 DEF JobInv, LifeInv, BooksInv
<1>2. /\ \A t \in Stages \ {Verify} : step'[t] = step[t] /\ row'[t] = row[t]
      /\ UNCHANGED <<job, proc, done, verdict, aborted>>
  BY DEF GateStep, Judge, GateThrows, GatePasses, GateFails, GateRecordFails
<1>3. CASE Judge \/ GateThrows
  <2>1. GoesOn(Verify)
    BY <1>3 DEF Judge, GateThrows
  <2>. QED
    BY <1>0, <1>1, <1>2, <2>1 DEF StageMove
<1>4. CASE GatePasses \/ GateFails
  <2>1. Recorded(Verify)
    BY <1>4 DEF GatePasses, GateFails, Done
  <2>. QED
    BY <1>0, <1>1, <1>2, <2>1 DEF StageMove
<1>5. CASE GateRecordFails
  <2>1. Caught(Verify)
    BY <1>5 DEF GateRecordFails
  <2>. QED
    BY <1>0, <1>1, <1>2, <2>1 DEF StageMove
<1>. QED
  BY <1>3, <1>4, <1>5 DEF GateStep

(* The count: whatever a step adds to it, it adds to the stages accounted  *)
(* for.                                                                    *)
LEMMA MoveKeepsCount ==
    ASSUME TypeOK, BooksInv, NEW s \in Stages, StageMove(s)
    PROVE  counted' + Cardinality(done') <= Cardinality((settled \cup Failing)')
<1> DEFINE Accounted == settled \cup Failing
<1>1. /\ IsFiniteSet(Accounted) /\ Cardinality(Accounted) \in Nat
      /\ Cardinality(done) \in Nat /\ counted \in Nat /\ done' = done
      /\ counted + Cardinality(done) <= Cardinality(Accounted)
  <2>1. Accounted \in SUBSET Stages
    BY DEF TypeOK, Failing
  <2>. QED
    BY <2>1, StagesFinite DEF TypeOK, BooksInv, StageMove
<1>2. s \notin settled /\ \A t \in Stages \ {s} : step'[t] = step[t]
  BY DEF StageMove
<1>3. CASE GoesOn(s)
  <2>1. Accounted' = Accounted /\ counted' = counted
    BY <1>2, <1>3 DEF GoesOn, Failing
  <2>. QED
    BY <1>1, <2>1
<1>4. CASE Caught(s) \/ Recorded(s)
  <2>1. Accounted' = Accounted \cup {s} /\ s \notin Accounted /\ counted' = counted + 1
    BY <1>2, <1>4 DEF Caught, Recorded, Failing
  <2>2. Cardinality(Accounted') = Cardinality(Accounted) + 1
    BY <1>1, <2>1, FS_AddElement
  <2>. QED
    BY <1>1, <2>1, <2>2
<1>5. CASE Interrupted(s)
  <2>1. Accounted' = Accounted \cup {s} /\ s \notin Accounted /\ counted' = counted
    BY <1>2, <1>5 DEF Interrupted, Failing
  <2>2. Cardinality(Accounted') = Cardinality(Accounted) + 1
    BY <1>1, <2>1, FS_AddElement
  <2>. QED
    BY <1>1, <2>1, <2>2
<1>6. CASE FailureRecorded(s)
  <2>1. Accounted' = Accounted /\ counted' = counted
    BY <1>2, <1>6 DEF FailureRecorded, Failing
  <2>. QED
    BY <1>1, <2>1
<1>. QED
  BY <1>3, <1>4, <1>5, <1>6 DEF StageMove

(* Such a move keeps the invariant of the job.                             *)
LEMMA MoveKeepsJobInv ==
    ASSUME TypeOK, JobInv, NEW s \in Stages, StageMove(s)
    PROVE  JobInv'
<1> USE DEF JobInv
<1>1. LifeInv'
  BY DEF LifeInv, StageMove
<1>2. EndInv'
  BY DEF EndInv, LifeInv, StageMove
<1>3. BooksInv'
  <2>0. /\ s \notin settled
        /\ \A t \in Stages \ {s} : step'[t] = step[t] /\ row'[t] = row[t]
        /\ settled \subseteq Stages /\ failures \in Nat
    BY DEF StageMove, TypeOK
  <2>1. \A t \in settled' : step'[t] = "idle"
    BY <2>0 DEF BooksInv, StageMove, GoesOn, Caught, Interrupted, Recorded, FailureRecorded
  <2>2. failures' = 0 => Failing' = {}
    BY <2>0 DEF BooksInv, StageMove, GoesOn, Caught, Interrupted, Recorded,
                FailureRecorded, Failing
  <2>3. failures' = 0 /\ ~aborted' => \A t \in settled' : row'[t] \in Done
    <3>1. SUFFICES ASSUME failures' = 0, ~aborted' PROVE \A t \in settled' : row'[t] \in Done
      OBVIOUS
    <3>2. failures = 0 /\ ~aborted /\ step[s] # "failing"
      BY <2>0, <3>1 DEF BooksInv, StageMove, GoesOn, Caught, Interrupted, Recorded,
                        FailureRecorded, Failing
    <3>. QED
      BY <2>0, <3>1, <3>2 DEF BooksInv, StageMove, GoesOn, Caught, Interrupted, Recorded,
                              FailureRecorded
  <2>4. \A t \in Stages : row'[t] \in Done /\ step'[t] = "idle" => t \in settled'
    BY <2>0 DEF BooksInv, StageMove, GoesOn, Caught, Interrupted, Recorded, FailureRecorded
  <2>. QED
    BY <2>1, <2>2, <2>3, <2>4, MoveKeepsCount DEF BooksInv
<1>. QED
  BY <1>1, <1>2, <1>3

(* A launch changes nothing but the step of a stage that has not settled.  *)
LEMMA StartMoves ==
    ASSUME TypeOK, NEW s \in Stages, Start(s)
    PROVE  StageMove(s) /\ step[s] = "idle"
  BY DEF TypeOK, Start, Schedule!MayStart, Inflight, GoTo, StageMove, GoesOn,
         durable, signals

(* The verdict: every stage is accounted for, and none failed.             *)
LEMMA VerdictSettlesAll ==
    ASSUME TypeOK, JobInv, ScheduleEnds, verdict' = "complete"
    PROVE  ~aborted /\ failures = 0 /\ settled = Stages
<1>1. ~aborted /\ failures = 0 /\ allSettled /\ Inflight = {}
  <2>1. verdict = "none"
    BY DEF ScheduleEnds, JobInv, LifeInv
  <2>2. ~aborted
    BY <2>1 DEF ScheduleEnds
  <2>3. Conclude /\ Inflight = {}
    BY <2>2 DEF ScheduleEnds, ScheduleIsOver
  <2>4. ~(failures > 0) /\ allSettled
    BY <2>3 DEF Conclude
  <2>. QED
    BY <2>2, <2>3, <2>4 DEF TypeOK
<1>2. Failing = {}
  BY <1>1 DEF JobInv, BooksInv
<1>3. Cardinality(Stages) <= Cardinality(settled)
  <2>1. Cardinality(settled) \in Nat /\ Cardinality(done) \in Nat /\ counted \in Nat
        /\ Cardinality(Stages) \in Nat
    BY StagesFinite DEF TypeOK
  <2>2. counted + Cardinality(done) <= Cardinality(settled)
    BY <1>2 DEF JobInv, BooksInv
  <2>. QED
    BY <1>1, <2>1, <2>2 DEF allSettled
<1>4. settled = Stages
  <2>1. IsFiniteSet(Stages) /\ settled \subseteq Stages
    BY OrderAssumption DEF OrderAssumption, TypeOK
  <2>2. /\ Cardinality(settled) <= Cardinality(Stages)
        /\ Cardinality(Stages) = Cardinality(settled) => Stages = settled
    BY <2>1, FS_Subset
  <2>3. Cardinality(settled) \in Nat /\ Cardinality(Stages) \in Nat
    BY <2>1, StagesFinite
  <2>. QED
    BY <1>3, <2>2, <2>3
<1>. QED
  BY <1>1, <1>4

(* So every row says done.                                                 *)
LEMMA VerdictIsRight ==
    ASSUME TypeOK, JobInv, ScheduleEnds, verdict' = "complete"
    PROVE  AllDone
  BY VerdictSettlesAll DEF JobInv, BooksInv, AllDone

-----------------------------------------------------------------------------
(* The first state has it.                                                 *)
LEMMA JobInvInit == Init => JobInv
<1> SUFFICES ASSUME Init PROVE JobInv
  OBVIOUS
<1>1. Cardinality(done) = 0 /\ settled \cup Failing = {} /\ Failing = {}
  BY FS_EmptySet DEF Init, Failing
<1>2. Cardinality(settled \cup Failing) = 0
  BY <1>1, FS_EmptySet
<1>3. counted + Cardinality(done) <= Cardinality(settled \cup Failing)
  BY <1>1, <1>2 DEF Init
<1>. QED
  BY <1>1, <1>3 DEF Init, JobInv, LifeInv, BooksInv, EndInv

(* The steps that leave the books of the schedule alone. *)
LEMMA SameBooks ==
    ASSUME BooksInv, UNCHANGED <<row, done, settled, step, counted, failures>>,
           aborted => aborted', proc' = "scheduling" => proc = "scheduling"
    PROVE  BooksInv'
<1>1. Failing' = Failing
  BY DEF Failing
<1>. QED
  BY <1>1 DEF BooksInv

(* The steps of the orchestrator keep it.                                  *)
LEMMA JobStepKeepsJobInv ==
    ASSUME TypeInv, JobInv, JobStep
    PROVE  JobInv'
<1> USE DEF JobInv, TypeInv, durable, memory, signals, history
<1>1. CASE ReadJob
  <2>1. /\ done' = {s \in Stages : row[s] \in Done} /\ settled' = done'
        /\ counted' = 0 /\ failures' = 0 /\ verdict' = "none"
        /\ proc' = "scheduling" /\ UNCHANGED <<job, row, step, aborted>>
        /\ \A s \in Stages : step[s] = "idle"
        /\ job # "complete"
    BY <1>1 DEF ReadJob, ReadSkipping, LifeInv, EndInv
  <2>2. Failing' = {}
    BY <2>1 DEF Failing
  <2>3. counted' + Cardinality(done') <= Cardinality((settled \cup Failing)')
    <3>1. done' \in SUBSET Stages /\ (settled \cup Failing)' = done'
      BY <2>1, <2>2
    <3>2. Cardinality(done') \in Nat
      BY <3>1, StagesFinite
    <3>3. Cardinality((settled \cup Failing)') = Cardinality(done')
      BY <3>1, Zenon
    <3>4. 0 + Cardinality(done') <= Cardinality(done')
      BY <3>2
    <3>. QED
      BY <2>1, <3>3, <3>4
  <2>. QED
    BY <2>1, <2>2, <2>3 DEF LifeInv, BooksInv, EndInv
<1>2. CASE ReadJobFails
  <2>1. BooksInv'
    BY <1>2, SameBooks DEF ReadJobFails
  <2>. QED
    BY <1>2, <2>1 DEF ReadJobFails, LifeInv, EndInv, AllDone
<1>3. CASE ScheduleEnds
  <2>1. /\ proc = "scheduling" /\ proc' \in {"idle", "finishing"} /\ Inflight = {}
        /\ UNCHANGED <<job, row, done, settled, step, counted, failures, aborted>>
    BY <1>3 DEF ScheduleEnds, ScheduleIsOver, Conclude
  <2>2. BooksInv'
    BY <2>1, SameBooks
  <2>3. LifeInv'
    BY <2>1 DEF LifeInv, Inflight
  <2>4. EndInv'
    BY <1>3, <2>1, VerdictIsRight DEF EndInv, AllDone
  <2>. QED
    BY <2>2, <2>3, <2>4
<1>4. CASE FinishReloadJob \/ FinishFails \/ Recover
  <2>1. /\ proc \in {"finishing", "recovering"} /\ proc' \in {"idle", "recovering"}
        /\ UNCHANGED <<row, memory, aborted>>
        /\ job' = "complete" => job = "complete" \/ verdict = "complete"
    BY <1>4 DEF FinishReloadJob, FinishFails, Recover
  <2>2. BooksInv'
    BY <2>1, SameBooks
  <2>. QED
    BY <2>1, <2>2 DEF LifeInv, EndInv, AllDone
<1>. QED
  BY <1>1, <1>2, <1>3, <1>4 DEF JobStep

(* So do shutdown, crash and boot.                                         *)
LEMMA PodStepKeepsJobInv ==
    ASSUME TypeInv, JobInv, Shutdown \/ Crash \/ Boot \/ BootWithoutCredentials
    PROVE  JobInv'
<1> USE DEF JobInv, TypeInv, durable, memory, signals, history
<1>1. CASE Shutdown
  <2>1. BooksInv'
    BY <1>1, SameBooks DEF Shutdown, TypeOK
  <2>. QED
    BY <1>1, <2>1 DEF Shutdown, LifeInv, EndInv, AllDone
<1>2. CASE Crash
  <2>1. /\ done' = {} /\ settled' = {} /\ counted' = 0 /\ failures' = 0
        /\ verdict' = "none" /\ proc' = "down" /\ UNCHANGED <<job, row>>
        /\ \A s \in Stages : step'[s] = "idle"
    BY <1>2 DEF Crash
  <2>2. (settled \cup Failing)' = {} /\ Failing' = {}
    BY <2>1 DEF Failing
  <2>3. Cardinality(done') = 0 /\ Cardinality((settled \cup Failing)') = 0
    BY <2>1, <2>2, FS_EmptySet
  <2>4. BooksInv'
    BY <2>1, <2>2, <2>3 DEF BooksInv
  <2>. QED
    BY <2>1, <2>4 DEF LifeInv, EndInv, AllDone
<1>3. CASE Boot \/ BootWithoutCredentials
  <2>1. /\ proc = "down" /\ proc' \in {"reading", "idle"}
        /\ proc' = "reading" => job = "running"
        /\ UNCHANGED <<job, row, done, settled, step, counted, failures, verdict, aborted>>
    BY <1>3 DEF Boot, BootWithoutCredentials, BootTo
  <2>2. BooksInv'
    BY <2>1, SameBooks
  <2>. QED
    BY <2>1, <2>2 DEF LifeInv, EndInv, AllDone
<1>. QED
  BY <1>1, <1>2, <1>3

(* An abort rewrites the rows of stages that run: none of them says done.  *)
LEMMA AbortKeepsJobInv ==
    ASSUME TypeInv, JobInv, FindRunningJob \/ AbortGuard \/ AbortReloadJob
    PROVE  JobInv'
<1> USE DEF JobInv, TypeInv, durable, memory, signals, history
<1>1. CASE FindRunningJob \/ AbortGuard
  <2>1. UNCHANGED <<job, row, proc, memory, aborted>>
    BY <1>1 DEF FindRunningJob, AbortGuard
  <2>2. BooksInv'
    BY <2>1, SameBooks
  <2>. QED
    BY <2>1, <2>2 DEF LifeInv, EndInv, AllDone
<1>2. CASE AbortReloadJob
  <2>1. /\ UNCHANGED <<proc, memory, aborted>>
        /\ \A s \in Stages : row'[s] \in Done <=> row[s] \in Done
        /\ job' = "complete" => job = "complete"
    BY <1>2 DEF AbortReloadJob, TypeOK, Done
  <2>2. Failing' = Failing
    BY <2>1 DEF Failing
  <2>3. BooksInv'
    BY <2>1, <2>2 DEF BooksInv, TypeOK
  <2>. QED
    BY <2>1, <2>3 DEF LifeInv, EndInv, AllDone
<1>. QED
  BY <1>1, <1>2

(* Every step keeps the invariant of the job.                              *)
LEMMA JobInvNext == TypeInv /\ JobInv /\ [Next]_vars => JobInv'
<1> SUFFICES ASSUME TypeInv, JobInv, [Next]_vars PROVE JobInv'
  OBVIOUS
<1>0. TypeOK
  BY DEF TypeInv
<1>1. CASE JobStep
  BY <1>1, JobStepKeepsJobInv
<1>2. ASSUME NEW s \in Stages, Start(s) PROVE JobInv'
  BY <1>0, <1>2, StartMoves, MoveKeepsJobInv
<1>3. ASSUME NEW s \in Stages, StageStep(s) PROVE JobInv'
  BY <1>0, <1>3, StageStepMoves, MoveKeepsJobInv
<1>4. CASE GateStep
  BY <1>0, <1>4, GateStepMoves, MoveKeepsJobInv, VerifyAssumption DEF VerifyAssumption
<1>5. CASE Shutdown \/ Crash \/ Boot \/ BootWithoutCredentials
  BY <1>5, PodStepKeepsJobInv
<1>6. CASE FindRunningJob \/ AbortGuard \/ AbortReloadJob
  BY <1>6, AbortKeepsJobInv
<1>7. CASE UNCHANGED vars
  <2>1. BooksInv'
    BY <1>7, SameBooks DEF vars, durable, memory, signals, JobInv
  <2>. QED
    BY <1>7, <2>1 DEF vars, durable, memory, signals, JobInv, LifeInv, EndInv, AllDone
<1>. QED
  BY <1>1, <1>2, <1>3, <1>4, <1>5, <1>6, <1>7 DEF Next, StartSome

(* It holds in every state, with the types.                                *)
THEOREM Inductive == Safety => [](TypeInv /\ JobInv)
  BY TypeInvInit, TypeInvNext, JobInvInit, JobInvNext, PTL DEF Safety

(* A job recorded complete has every stage recorded complete or skipped,   *)
(* whatever pods died, calls failed and operators aborted on the way.      *)
THEOREM CompleteIsDone == Safety => []CompleteMeansDone
<1>1. TypeInv /\ JobInv => CompleteMeansDone
  BY DEF JobInv, EndInv, AllDone, CompleteMeansDone
<1>. QED
  BY <1>1, Inductive, PTL

-----------------------------------------------------------------------------
(* No life of the job runs a stage again that a checkpoint says is done,   *)
(* or rewrites its row.                                                    *)
THEOREM DoneIsFinal == Safety => DoneStaysDone
<1> DEFINE A == \A s \in Stages :
                  row[s] \in Done /\ step[s] = "idle" =>
                     row'[s] = row[s] /\ step'[s] = "idle"
<1>1. TypeInv /\ JobInv /\ [Next]_vars => [A]_vars
  <2> SUFFICES ASSUME TypeInv, JobInv, Next,
                      NEW s \in Stages, row[s] \in Done, step[s] = "idle"
               PROVE  row'[s] = row[s] /\ step'[s] = "idle"
    OBVIOUS
  <2>0. TypeOK
    BY DEF TypeInv
  <2>1. ASSUME NEW t \in Stages, StageMove(t), step[t] # "idle"
        PROVE  row'[s] = row[s] /\ step'[s] = "idle"
    BY <2>1 DEF StageMove
  <2>2. ASSUME NEW t \in Stages, Start(t) PROVE row'[s] = row[s] /\ step'[s] = "idle"
    <3>1. t \notin settled /\ proc = "scheduling"
      BY <2>0, <2>2, StartMoves DEF StageMove
    <3>2. t # s
      BY <3>1 DEF JobInv, BooksInv
    <3>. QED
      BY <2>0, <2>2, <3>2, StartMoves DEF StageMove
  <2>3. ASSUME NEW t \in Stages, StageStep(t) PROVE row'[s] = row[s] /\ step'[s] = "idle"
    BY <2>0, <2>1, <2>3, StageStepMoves
  <2>4. CASE GateStep
    BY <2>0, <2>1, <2>4, GateStepMoves, VerifyAssumption DEF VerifyAssumption
  <2>5. CASE JobStep
    BY <2>5 DEF JobStep, ReadJob, ReadSkipping, ReadJobFails, ScheduleEnds, FinishReloadJob,
                FinishFails, Recover, durable, memory
  <2>6. CASE Shutdown \/ Crash \/ Boot \/ BootWithoutCredentials
    BY <2>6 DEF Shutdown, Crash, Boot, BootWithoutCredentials, BootTo, durable, memory
  <2>7. CASE FindRunningJob \/ AbortGuard \/ AbortReloadJob
    BY <2>0, <2>7 DEF FindRunningJob, AbortGuard, AbortReloadJob, durable, memory, TypeOK,
                      Done
  <2>. QED
    BY <2>2, <2>3, <2>4, <2>5, <2>6, <2>7 DEF Next, StartSome
<1>. QED
  BY <1>1, Inductive, PTL DEF Safety, DoneStaysDone

-----------------------------------------------------------------------------
(* What the gate judged.  The gate is the last stage to start, so nothing  *)
(* it judges can change after it; and what ran is what the rows say is     *)
(* complete, as long as no failure was counted.  A failing write can leave *)
(* a row complete of a stage that did not run to its end, but then the job *)
(* fails.                                                                  *)
Others == Stages \ {Verify}

(* What ran, and the rows. *)
RanInv ==
    /\ proc = "reading" => \A s \in Stages : row[s] = "pending"
    /\ ran \subseteq settled \ {Verify}
    /\ \A s \in ran : row[s] = "complete"
    /\ failures = 0 => \A s \in Others : row[s] = "complete" => s \in ran

(* The gate starts last; what it passed it judged.                         *)
LastInv ==
    /\ step[Verify] # "idle" \/ Verify \in settled => Others \subseteq settled
    /\ step[Verify] = "passed" => judged = ran
    /\ Verify \in settled /\ failures = 0 => judged = ran

(* A verdict of complete is about this schedule.                           *)
JudgedInv ==
    verdict = "complete" \/ job = "complete" => failures = 0 /\ Verify \in settled

FirstLife == proc # "down" /\ RanInv /\ LastInv /\ JudgedInv

GateInv == crashes = 0 => FirstLife

(* The gate only starts when every other stage has settled.                *)
LEMMA GateStartsLast ==
    ASSUME TypeOK, LastInv, NEW s \in Stages, Start(s)
    PROVE  LastInv'
<1>1. /\ UNCHANGED <<settled, failures, judged, ran>>
      /\ step' = [step EXCEPT ![s] = "marking"] /\ s \notin settled
  BY DEF Start, GoTo, history, Schedule!MayStart
<1>2. s = Verify => Others \subseteq settled
  BY VerifyAssumption DEF Start, Schedule!MayStart, VerifyAssumption, Others
<1>3. CASE s = Verify
  BY <1>1, <1>2, <1>3 DEF LastInv, TypeOK
<1>4. CASE s # Verify
  <2>1. step'[Verify] = step[Verify]
    BY <1>1, <1>4 DEF TypeOK
  <2>. QED
    BY <1>1, <2>1 DEF LastInv
<1>. QED
  BY <1>3, <1>4

(* What a step of a stage does to the two books: it is recorded complete   *)
(* in both, or it says nothing new of what ran.                            *)
RanMove(s) ==
    \/ row'[s] = "complete" /\ ran' = ran \cup {s} /\ s \in settled' /\ s # Verify
    \/ /\ ran' = ran
       /\ s = Verify \/ row'[s] # "complete" \/ row'[s] = row[s] \/ failures' # 0

(* A step of a stage is such a move, and judges nothing.                   *)
LEMMA StageStepRan ==
    ASSUME TypeOK, JobInv, NEW s \in Stages, StageStep(s)
    PROVE  RanMove(s) /\ judged' = judged
<1> USE DEF TypeOK, SetRow, GoTo, Fault, Catch, SettleStage, durable, history, RanMove
<1>1. CASE MarkRunning(s)
  BY <1>1 DEF MarkRunning
<1>2. CASE StageReturns(s) \/ StageInterrupted(s) \/ StageThrows(s)
  BY <1>2 DEF StageReturns, StageInterrupted, StageThrows
<1>3. CASE MarkRunningFails(s) \/ MarkStageCompleteFails(s)
  BY <1>3 DEF MarkRunningFails, MarkStageCompleteFails
<1>4. CASE MarkStageComplete(s)
  <2>1. s # Verify
    BY <1>4 DEF MarkStageComplete, Done
  <2>2. CASE step[s] = "complete"
    BY <1>4, <2>1, <2>2 DEF MarkStageComplete
  <2>3. CASE step[s] = "skipped"
    BY <1>4, <2>3 DEF MarkStageComplete
  <2>. QED
    BY <1>4, <2>2, <2>3 DEF MarkStageComplete, Done
<1>5. CASE MarkStageFailed(s)
  BY <1>5 DEF MarkStageFailed
<1>. QED
  BY <1>1, <1>2, <1>3, <1>4, <1>5 DEF StageStep

(* The gate does not count itself among what ran.                          *)
LEMMA GateStepRan ==
    ASSUME TypeOK, GateStep
    PROVE  RanMove(Verify)
  BY DEF GateStep, Judge, GateThrows, GatePasses, GateFails, GateRecordFails, Catch, RanMove

(* It keeps what is known of the stages that ran.                          *)
LEMMA MoveKeepsRan ==
    ASSUME TypeOK, JobInv, RanInv, NEW s \in Stages, StageMove(s), RanMove(s)
    PROVE  RanInv'
<1>0. /\ s \notin settled /\ proc' = "scheduling"
      /\ \A t \in Stages \ {s} : row'[t] = row[t]
      /\ settled \subseteq settled' /\ ran \subseteq Stages
      /\ failures' = 0 => failures = 0
  BY DEF StageMove, GoesOn, Caught, Interrupted, Recorded, FailureRecorded, TypeOK
<1>1. ran' \subseteq settled' \ {Verify}
  BY <1>0 DEF RanInv, RanMove
<1>2. \A t \in ran' : row'[t] = "complete"
  BY <1>0 DEF RanInv, RanMove
<1>3. ASSUME failures' = 0, NEW t \in Others, row'[t] = "complete"
      PROVE  t \in ran'
  BY <1>0, <1>3 DEF RanInv, RanMove, Others
<1>. QED
  BY <1>0, <1>1, <1>2, <1>3 DEF RanInv

(* A stage that settles after the gate has started would be judged by      *)
(* nobody: there is none.                                                  *)
LEMMA OtherMoveKeepsLast ==
    ASSUME TypeOK, LastInv, NEW s \in Others, StageMove(s)
    PROVE  LastInv'
<1>1. s \notin settled /\ s # Verify
  BY DEF StageMove, Others
<1>2. step[Verify] = "idle" /\ Verify \notin settled
  BY <1>1 DEF LastInv
<1>3. step'[Verify] = "idle"
  BY <1>1, <1>2, VerifyAssumption DEF StageMove, VerifyAssumption
<1>4. Verify \notin settled'
  BY <1>1, <1>2 DEF StageMove, GoesOn, Caught, Interrupted, Recorded, FailureRecorded
<1>. QED
  BY <1>3, <1>4 DEF LastInv

(* The gate stays the last: steps of the other stages,                     *)
LEMMA StageStepKeepsLast ==
    ASSUME TypeOK, JobInv, LastInv, NEW s \in Stages, StageStep(s)
    PROVE  LastInv'
<1>1. CASE s # Verify
  BY <1>1, StageStepMoves, OtherMoveKeepsLast DEF Others
<1>2. CASE s = Verify
  <2> USE <1>2 DEF TypeOK, GoTo, SettleStage, Catch, Done
  <2>1. Others \subseteq settled /\ judged' = judged
    BY StageStepMoves, StageStepRan DEF LastInv
  <2>2. ran' = ran
    BY StageStepRan DEF RanMove
  <2>3. CASE MarkRunning(s) \/ MarkRunningFails(s)
    <3>1. step'[Verify] \in {"judging", "failing"} /\ settled' = settled /\ Verify \notin settled
      BY <2>3, StageStepMoves DEF MarkRunning, MarkRunningFails, StageMove
    <3>. QED
      BY <2>1, <2>2, <3>1 DEF LastInv
  <2>4. CASE MarkStageFailed(s)
    <3>1. step'[Verify] = "idle" /\ settled' = settled \cup {Verify} /\ failures' = failures
      BY <2>4 DEF MarkStageFailed
    <3>2. failures # 0
      BY <2>4 DEF MarkStageFailed, JobInv, BooksInv, Failing
    <3>. QED
      BY <2>1, <2>2, <3>1, <3>2 DEF LastInv
  <2>. QED
    BY <2>3, <2>4 DEF StageStep, StageReturns, StageInterrupted, StageThrows,
                      MarkStageComplete, MarkStageCompleteFails
<1>. QED
  BY <1>1, <1>2

(* and its own.                                                            *)
LEMMA GateStepKeepsLast ==
    ASSUME TypeOK, JobInv, LastInv, GateStep
    PROVE  LastInv'
<1> USE VerifyAssumption DEF VerifyAssumption, TypeOK, GoTo, SettleStage, Catch
<1>1. Others \subseteq settled /\ Verify \notin settled
  BY GateStepMoves DEF LastInv, StageMove
<1>2. CASE Judge
  BY <1>1, <1>2 DEF Judge, LastInv
<1>3. CASE GateThrows
  BY <1>1, <1>3 DEF GateThrows, LastInv
<1>4. CASE GatePasses
  BY <1>1, <1>4 DEF GatePasses, LastInv, history
<1>5. CASE GateFails
  BY <1>1, <1>5 DEF GateFails, LastInv
<1>6. CASE GateRecordFails
  BY <1>1, <1>6 DEF GateRecordFails, LastInv
<1>. QED
  BY <1>2, <1>3, <1>4, <1>5, <1>6 DEF GateStep

(* While the schedule runs nothing is concluded.                           *)
LEMMA MoveKeepsJudged ==
    ASSUME JobInv, NEW s \in Stages, StageMove(s)
    PROVE  JudgedInv'
  BY DEF JobInv, LifeInv, EndInv, StageMove, JudgedInv

-----------------------------------------------------------------------------
(* The first state of the first life.                                      *)
LEMMA GateInvInit == Init => GateInv
<1> SUFFICES ASSUME Init PROVE FirstLife
  BY DEF GateInv
<1>1. step[Verify] = "idle" /\ \A s \in Stages : row[s] = "pending"
  BY VerifyAssumption DEF Init, VerifyAssumption
<1>. QED
  BY <1>1 DEF Init, FirstLife, RanInv, LastInv, JudgedInv, Others

(* The steps that leave a life alone.                                      *)
LEMMA SameLife ==
    ASSUME FirstLife, UNCHANGED <<row, memory, judged>>, proc' # "down",
           proc' = "reading" => proc = "reading",
           job' = "complete" => job = "complete" \/ verdict = "complete"
    PROVE  FirstLife'
  BY DEF FirstLife, RanInv, LastInv, JudgedInv, memory

(* The orchestrator keeps what is known of the first life.                 *)
LEMMA JobStepKeepsLife ==
    ASSUME TypeInv, JobInv, FirstLife, JobStep
    PROVE  FirstLife'
<1> USE DEF durable, signals, history
<1>1. CASE ReadJob
  <2>1. /\ ran' = {s \in Stages : row[s] = "complete"}
        /\ settled' = {s \in Stages : row[s] \in Done}
        /\ proc' = "scheduling" /\ UNCHANGED <<row, step, failures, verdict, job, judged>>
        /\ \A s \in Stages : row[s] = "pending" /\ step[s] = "idle"
        /\ verdict = "none" /\ job # "complete"
    BY <1>1 DEF ReadJob, ReadSkipping, FirstLife, RanInv, JobInv, LifeInv, EndInv
  <2>2. ran' = {} /\ settled' = {}
    BY <2>1 DEF Done
  <2>3. step[Verify] = "idle"
    BY <2>1, VerifyAssumption DEF VerifyAssumption
  <2>. QED
    BY <2>1, <2>2, <2>3 DEF FirstLife, RanInv, LastInv, JudgedInv, Others
<1>2. CASE ScheduleEnds
  <2>1. /\ UNCHANGED <<row, job, settled, step, failures, ran, judged>>
        /\ proc' \in {"idle", "finishing"} /\ verdict = "none" /\ job # "complete"
    BY <1>2 DEF ScheduleEnds, Conclude, JobInv, LifeInv, EndInv
  <2>2. verdict' = "complete" => failures = 0 /\ Verify \in settled
    BY <1>2, VerdictSettlesAll, VerifyAssumption DEF TypeInv, VerifyAssumption
  <2>. QED
    BY <2>1, <2>2 DEF FirstLife, RanInv, LastInv, JudgedInv
<1>3. CASE ReadJobFails \/ FinishReloadJob \/ FinishFails \/ Recover
  <2>1. /\ UNCHANGED <<row, memory, judged>> /\ proc' \in {"idle", "recovering"}
        /\ job' = "complete" => job = "complete" \/ verdict = "complete"
    BY <1>3 DEF ReadJobFails, FinishReloadJob, FinishFails, Recover
  <2>. QED
    BY <2>1, SameLife
<1>. QED
  BY <1>1, <1>2, <1>3 DEF JobStep

(* An abort rewrites rows that say running; none is of a stage that ran.   *)
LEMMA AbortKeepsLife ==
    ASSUME TypeInv, FirstLife, FindRunningJob \/ AbortGuard \/ AbortReloadJob
    PROVE  FirstLife'
<1> USE DEF durable, memory, history
<1>1. CASE FindRunningJob \/ AbortGuard
  BY <1>1, SameLife DEF FindRunningJob, AbortGuard, FirstLife
<1>2. CASE AbortReloadJob
  <2>1. /\ UNCHANGED <<proc, memory, judged>>
        /\ \A s \in Stages : row[s] # "running" => row'[s] = row[s]
        /\ \A s \in Stages : row[s] = "running" => row'[s] # "complete"
        /\ job' = "complete" => job = "complete"
    BY <1>2 DEF AbortReloadJob, TypeInv, TypeOK
  <2>2. ran \subseteq Stages
    BY DEF TypeInv, TypeOK
  <2>3. RanInv'
    BY <2>1, <2>2 DEF FirstLife, RanInv, Others
  <2>. QED
    BY <2>1, <2>3 DEF FirstLife, LastInv, JudgedInv
<1>. QED
  BY <1>1, <1>2

(* Every step keeps it, until the pod crashes.                             *)
LEMMA GateInvNext == TypeInv /\ JobInv /\ GateInv /\ [Next]_vars => GateInv'
<1> SUFFICES ASSUME TypeInv, JobInv, GateInv, [Next]_vars, crashes' = 0 PROVE FirstLife'
  BY DEF GateInv
<1>0. TypeOK
  BY DEF TypeInv
<1>1. CASE Crash
  BY <1>0, <1>1 DEF Crash, TypeOK
<1>2. ASSUME ~Crash PROVE crashes = 0
  BY <1>2 DEF Next, JobStep, ReadJob, ReadSkipping, ReadJobFails, ScheduleEnds,
              FinishReloadJob, FinishFails, Recover, StartSome, Start, StageStep,
              MarkRunning, MarkRunningFails, StageReturns, StageInterrupted, StageThrows,
              MarkStageComplete, MarkStageCompleteFails, MarkStageFailed, GateStep, Judge,
              GateThrows, GatePasses, GateFails, GateRecordFails, Shutdown, Boot,
              BootWithoutCredentials, BootTo, FindRunningJob, AbortGuard, AbortReloadJob,
              history, vars
<1>3. CASE ~Crash
  <2>0. FirstLife
    BY <1>2, <1>3 DEF GateInv
  <2>1. CASE JobStep
    BY <2>0, <2>1, JobStepKeepsLife
  <2>2. ASSUME NEW s \in Stages, Start(s) PROVE FirstLife'
    <3>1. LastInv'
      BY <1>0, <2>0, <2>2, GateStartsLast DEF FirstLife
    <3>. QED
      BY <2>0, <2>2, <3>1 DEF Start, FirstLife, RanInv, JudgedInv, durable
  <2>3. ASSUME NEW s \in Stages, StageStep(s) PROVE FirstLife'
    <3>1. StageMove(s) /\ RanMove(s)
      BY <1>0, <2>3, StageStepMoves, StageStepRan
    <3>2. RanInv' /\ LastInv' /\ JudgedInv'
      BY <1>0, <2>0, <2>3, <3>1, MoveKeepsRan, StageStepKeepsLast, MoveKeepsJudged
         DEF FirstLife
    <3>. QED
      BY <3>1, <3>2 DEF FirstLife, StageMove
  <2>4. CASE GateStep
    <3>0. Verify \in Stages
      BY VerifyAssumption DEF VerifyAssumption
    <3>1. StageMove(Verify) /\ RanMove(Verify)
      BY <1>0, <2>4, GateStepMoves, GateStepRan
    <3>2. RanInv' /\ LastInv' /\ JudgedInv'
      BY <1>0, <2>0, <2>4, <3>0, <3>1, MoveKeepsRan, GateStepKeepsLast, MoveKeepsJudged
         DEF FirstLife
    <3>. QED
      BY <3>1, <3>2 DEF FirstLife, StageMove
  <2>5. CASE Shutdown
    BY <2>0, <2>5, SameLife DEF Shutdown, FirstLife, durable, history
  <2>6. CASE Boot \/ BootWithoutCredentials
    BY <2>0, <2>6 DEF Boot, BootWithoutCredentials, BootTo, FirstLife
  <2>7. CASE FindRunningJob \/ AbortGuard \/ AbortReloadJob
    BY <2>0, <2>7, AbortKeepsLife
  <2>8. CASE UNCHANGED vars
    BY <2>0, <2>8, SameLife DEF vars, durable, history, FirstLife
  <2>. QED
    BY <1>3, <2>1, <2>2, <2>3, <2>4, <2>5, <2>6, <2>7, <2>8 DEF Next, StartSome
<1>. QED
  BY <1>1, <1>3

(* A job that was completed without losing its pod had the coverage judged *)
(* of exactly the stages that produced output, for every stage graph,      *)
(* whatever calls failed on the way: no stage runs beside the gate or      *)
(* after it.                                                               *)
THEOREM GateSawAll == Safety => []GateJudgedThisLife
<1>1. TypeInv /\ GateInv => GateJudgedThisLife
  BY DEF TypeInv, TypeOK, GateInv, FirstLife, RanInv, LastInv, JudgedInv, Others,
         GateJudgedThisLife
<1>2. Safety => []GateInv
  BY Inductive, GateInvInit, GateInvNext, PTL DEF Safety
<1>. QED
  BY <1>1, <1>2, Inductive, PTL

-----------------------------------------------------------------------------
(****************************************************************************)
(* Why a job ends: in one life of the process nothing goes back, and no    *)
(* life leaves the job behind without a reason.                            *)
(****************************************************************************)

(* A process leaves a running job behind only while it shuts down, or      *)
(* after a call failed; and a shutdown has a pod death before it, which    *)
(* brings the next boot.                                                   *)
LeftBehind ==
    /\ proc = "idle" => job \in Terminal \/ aborted \/ faults > 0
    /\ aborted => crashes < MaxCrashes

(* What that rests on: the bounds are kept, and the route's catch is only  *)
(* reached by a failing call.                                              *)
Bounded ==
    /\ crashes \in 0 .. MaxCrashes /\ aborts \in 0 .. MaxAborts
    /\ proc = "recovering" => faults > 0

(* What is before this life of the job: the way of the process, the way of *)
(* every stage through runOneStage, and the requests and signals from      *)
(* outside.                                                                *)
ProcLeft ==
    CASE proc = "down" -> 5
      [] proc = "reading" -> 4
      [] proc = "scheduling" -> 3
      [] proc = "finishing" -> 2
      [] proc = "recovering" -> 1
      [] OTHER -> 0

StageLeft(s) ==
    CASE step[s] = "marking" -> 5
      [] step[s] \in {"working", "judging"} -> 4
      [] step[s] \in {"complete", "skipped", "passed", "rejected"} -> 3
      [] step[s] = "errored" -> 2
      [] step[s] = "failing" -> 1
      [] OTHER -> IF s \in settled THEN 0 ELSE 6

RequestsLeft ==
    3 * (MaxAborts - aborts)
      + (CASE aborting = "found" -> 2 [] aborting = "acting" -> 1 [] OTHER -> 0)
      + (IF aborted THEN 0 ELSE 1)

(* All of them are numbers that can only fall so often.                    *)
LifeDistances ==
    /\ MaxCrashes - crashes \in Nat
    /\ ProcLeft \in Nat /\ RequestsLeft \in Nat
    /\ \A s \in Stages : StageLeft(s) \in Nat

(* A step takes from one of them and adds to none.                         *)
LifeNearer ==
    /\ ProcLeft' <= ProcLeft /\ RequestsLeft' <= RequestsLeft
    /\ \A s \in Stages : StageLeft(s)' <= StageLeft(s)
    /\ \/ ProcLeft' < ProcLeft \/ RequestsLeft' < RequestsLeft
       \/ \E s \in Stages : StageLeft(s)' < StageLeft(s)

(* Or the pod dies, and another life begins.                               *)
JobNearer ==
    \/ crashes' > crashes
    \/ crashes' = crashes /\ LifeNearer

(* They are numbers within the bounds.                                     *)
LEMMA LifeDistancesAreNat == TypeOK /\ Bounded => LifeDistances
  BY BoundsAssumption DEF TypeOK, Bounded, LifeDistances, ProcLeft, StageLeft,
                          RequestsLeft, BoundsAssumption

(* A step of runOneStage takes the stage on, and never back.               *)
LEMMA StageStepNearer ==
    ASSUME TypeOK, JobInv, NEW s \in Stages, StageStep(s)
    PROVE  /\ StageLeft(s)' < StageLeft(s)
           /\ UNCHANGED <<proc, signals, crashes, aborts>>
           /\ faults' >= faults
<1> USE DEF StageLeft, TypeOK, SettleStage, GoTo, durable, history
<1>1. CASE MarkRunning(s) \/ StageReturns(s)
  BY <1>1 DEF MarkRunning, StageReturns
<1>2. CASE MarkRunningFails(s) \/ StageThrows(s) \/ MarkStageCompleteFails(s)
  BY <1>2 DEF MarkRunningFails, StageThrows, MarkStageCompleteFails, Catch, Fault, Done
<1>3. CASE StageInterrupted(s)
  BY <1>3 DEF StageInterrupted
<1>4. CASE MarkStageComplete(s)
  BY <1>4 DEF MarkStageComplete, Done
<1>5. CASE MarkStageFailed(s)
  BY <1>5 DEF MarkStageFailed, Fault
<1>. QED
  BY <1>1, <1>2, <1>3, <1>4, <1>5 DEF StageStep

(* So does a step of the gate, its own failures included.                  *)
LEMMA GateStepNearer ==
    ASSUME TypeOK, JobInv, GateStep
    PROVE  /\ StageLeft(Verify)' < StageLeft(Verify)
           /\ UNCHANGED <<proc, signals, crashes, aborts>>
           /\ faults' >= faults
<1> USE VerifyAssumption
    DEF StageLeft, TypeOK, SettleStage, GoTo, durable, history, VerifyAssumption
<1>1. CASE Judge
  BY <1>1 DEF Judge
<1>2. CASE GateThrows
  BY <1>2 DEF GateThrows, Fault
<1>3. CASE GatePasses
  BY <1>3 DEF GatePasses
<1>4. CASE GateFails
  BY <1>4 DEF GateFails
<1>5. CASE GateRecordFails
  BY <1>5 DEF GateRecordFails, Catch, Fault
<1>. QED
  BY <1>1, <1>2, <1>3, <1>4, <1>5 DEF GateStep

(* A stage that moves leaves the others, and the process, where they are.  *)
LEMMA MoveNearer ==
    ASSUME TypeOK, NEW s \in Stages, StageMove(s), StageLeft(s)' < StageLeft(s),
           StageLeft(s) \in Nat, StageLeft(s)' \in Nat,
           UNCHANGED <<proc, signals, crashes, aborts>>, LifeDistances
    PROVE  JobNearer
<1>1. ASSUME NEW t \in Stages \ {s} PROVE StageLeft(t)' = StageLeft(t)
  <2>1. step'[t] = step[t] /\ (t \in settled' <=> t \in settled)
    BY DEF StageMove, GoesOn, Caught, Interrupted, Recorded, FailureRecorded
  <2>. QED
    BY <2>1 DEF StageLeft
<1>2. UNCHANGED <<ProcLeft, RequestsLeft>>
  BY DEF ProcLeft, RequestsLeft, signals
<1>3. \A t \in Stages : StageLeft(t)' <= StageLeft(t)
  BY <1>1 DEF LifeDistances
<1>. QED
  BY <1>2, <1>3 DEF JobNearer, LifeNearer, LifeDistances

(* Every step keeps the bounds, and leaves no running job behind.          *)
LEMMA BoundedNext ==
    ASSUME TypeInv, JobInv, Bounded, LeftBehind, [Next]_vars
    PROVE  Bounded' /\ LeftBehind'
<1> USE BoundsAssumption
    DEF TypeInv, TypeOK, Bounded, LeftBehind, BoundsAssumption, durable, memory, signals, history
<1>1. CASE ReadJob \/ ScheduleEnds
  BY <1>1 DEF ReadJob, ReadSkipping, ScheduleEnds, Conclude
<1>2. CASE ReadJobFails \/ FinishReloadJob \/ FinishFails \/ Recover
  BY <1>2 DEF ReadJobFails, FinishReloadJob, FinishFails, Recover, Terminal
<1>3. ASSUME NEW s \in Stages, Start(s) PROVE Bounded' /\ LeftBehind'
  BY <1>3 DEF Start
<1>4. ASSUME NEW s \in Stages, StageStep(s) PROVE Bounded' /\ LeftBehind'
  <2>1. StageMove(s) /\ UNCHANGED <<proc, signals, crashes, aborts>> /\ faults' >= faults
    BY <1>4, StageStepNearer, StageStepMoves
  <2>. QED
    BY <2>1 DEF StageMove, JobInv, LifeInv
<1>5. CASE GateStep
  <2>1. StageMove(Verify) /\ UNCHANGED <<proc, signals, crashes, aborts>> /\ faults' >= faults
    BY <1>5, GateStepNearer, GateStepMoves
  <2>. QED
    BY <2>1 DEF StageMove, JobInv, LifeInv
<1>6. CASE Shutdown
  BY <1>6 DEF Shutdown
<1>7. CASE Crash
  BY <1>7 DEF Crash
<1>8. CASE Boot \/ BootWithoutCredentials
  BY <1>8 DEF Boot, BootWithoutCredentials, BootTo
<1>9. CASE FindRunningJob \/ AbortGuard \/ AbortReloadJob
  BY <1>9 DEF FindRunningJob, AbortGuard, AbortReloadJob, Terminal
<1>10. CASE UNCHANGED vars
  BY <1>10 DEF vars
<1>. QED
  BY <1>1, <1>2, <1>3, <1>4, <1>5, <1>6, <1>7, <1>8, <1>9, <1>10 DEF Next, JobStep, StartSome

(* Every step is one that takes the job on.                                *)
LEMMA StepNearer ==
    ASSUME TypeInv, JobInv, LifeDistances, LifeDistances', Next
    PROVE  JobNearer
<1> USE DEF TypeInv, durable, memory, signals, history
<1>1. CASE JobStep
  <2>1. UNCHANGED <<crashes, signals, aborts, step>>
    BY <1>1 DEF JobStep, ReadJob, ReadSkipping, ScheduleEnds, ReadJobFails, FinishReloadJob,
                FinishFails, Recover
  <2>2. settled \subseteq settled'
    BY <1>1 DEF JobStep, ReadJob, ReadSkipping, ScheduleEnds, ReadJobFails, FinishReloadJob,
                FinishFails, Recover, JobInv, LifeInv
  <2>3. \A s \in Stages : StageLeft(s)' <= StageLeft(s)
    BY <2>1, <2>2 DEF StageLeft, LifeDistances
  <2>4. ProcLeft' < ProcLeft
    BY <1>1 DEF JobStep, ReadJob, ReadSkipping, ScheduleEnds, Conclude, ReadJobFails,
                FinishReloadJob, FinishFails, Recover, ProcLeft
  <2>5. RequestsLeft' = RequestsLeft
    BY <2>1 DEF RequestsLeft
  <2>. QED
    BY <2>1, <2>3, <2>4, <2>5 DEF JobNearer, LifeNearer, LifeDistances
<1>2. ASSUME NEW s \in Stages, Start(s) PROVE JobNearer
  <2>1. StageLeft(s)' = 5 /\ StageLeft(s) = 6
    BY <1>2 DEF Start, Schedule!MayStart, Inflight, GoTo, StageLeft, TypeOK
  <2>2. \A t \in Stages \ {s} : StageLeft(t)' = StageLeft(t)
    BY <1>2 DEF Start, GoTo, StageLeft, TypeOK
  <2>3. UNCHANGED <<crashes, ProcLeft, RequestsLeft>>
    BY <1>2 DEF Start, ProcLeft, RequestsLeft
  <2>4. \A t \in Stages : StageLeft(t)' <= StageLeft(t)
    BY <2>1, <2>2 DEF LifeDistances
  <2>. QED
    BY <2>1, <2>3, <2>4 DEF JobNearer, LifeNearer, LifeDistances
<1>3. ASSUME NEW s \in Stages, StageStep(s) PROVE JobNearer
  <2>1. /\ StageMove(s) /\ UNCHANGED <<proc, signals, crashes, aborts>>
        /\ StageLeft(s)' < StageLeft(s)
    BY <1>3, StageStepNearer, StageStepMoves
  <2>2. StageLeft(s) \in Nat /\ StageLeft(s)' \in Nat
    BY DEF LifeDistances
  <2>. QED
    BY <2>1, <2>2, MoveNearer
<1>4. CASE GateStep
  <2>1. /\ StageMove(Verify) /\ UNCHANGED <<proc, signals, crashes, aborts>>
        /\ StageLeft(Verify)' < StageLeft(Verify)
    BY <1>4, GateStepNearer, GateStepMoves
  <2>2. Verify \in Stages /\ StageLeft(Verify) \in Nat /\ StageLeft(Verify)' \in Nat
    BY VerifyAssumption DEF LifeDistances, VerifyAssumption
  <2>. QED
    BY <2>1, <2>2, MoveNearer
<1>5. CASE Crash
  BY <1>5 DEF Crash, TypeOK, JobNearer
<1>6. CASE Boot \/ BootWithoutCredentials
  <2>1. UNCHANGED <<crashes, signals, aborts, step, settled>>
    BY <1>6 DEF Boot, BootWithoutCredentials, BootTo
  <2>2. \A s \in Stages : StageLeft(s)' = StageLeft(s)
    BY <2>1 DEF StageLeft
  <2>3. ProcLeft' < ProcLeft /\ RequestsLeft' = RequestsLeft
    BY <1>6, <2>1 DEF Boot, BootWithoutCredentials, BootTo, ProcLeft, RequestsLeft
  <2>. QED
    BY <2>1, <2>2, <2>3 DEF JobNearer, LifeNearer, LifeDistances
<1>7. CASE Shutdown \/ FindRunningJob \/ AbortGuard \/ AbortReloadJob
  <2>1. UNCHANGED <<crashes, proc, step, settled>>
    BY <1>7 DEF Shutdown, FindRunningJob, AbortGuard, AbortReloadJob
  <2>2. \A s \in Stages : StageLeft(s)' = StageLeft(s)
    BY <2>1 DEF StageLeft
  <2>3. RequestsLeft' < RequestsLeft
    BY <1>7, BoundsAssumption
    DEF Shutdown, FindRunningJob, AbortGuard, AbortReloadJob, RequestsLeft, TypeOK,
        BoundsAssumption
  <2>4. ProcLeft' = ProcLeft
    BY <2>1 DEF ProcLeft
  <2>. QED
    BY <2>1, <2>2, <2>3, <2>4 DEF JobNearer, LifeNearer, LifeDistances
<1>. QED
  BY <1>1, <1>2, <1>3, <1>4, <1>5, <1>6, <1>7 DEF Next, StartSome

(* Every step of a reload brings its end nearer, for every stage graph and *)
(* within any bounds on pod deaths, failing calls and operator aborts: no  *)
(* stage is started twice in a life, no failure sends a stage back, and    *)
(* each boot takes the job from its checkpoints forward. And a process     *)
(* that has nothing left to do has ended the job, unless it is shutting    *)
(* down, which the next boot makes good, or a call failed, which leaves it *)
(* to the operator. That a job ends then needs only that its process goes  *)
(* on, and is replaced when it dies.                                       *)
THEOREM ReloadComesToItsEnd ==
    Safety => [](LifeDistances /\ LeftBehind) /\ [][JobNearer]_vars
<1>1. Init => Bounded /\ LeftBehind
  BY BoundsAssumption DEF Init, Bounded, LeftBehind, BoundsAssumption
<1>2. Safety => [](Bounded /\ LeftBehind)
  BY <1>1, BoundedNext, Inductive, PTL DEF Safety
<1>3. TypeInv /\ Bounded => LifeDistances
  BY LifeDistancesAreNat DEF TypeInv
<1>4. TypeInv /\ JobInv /\ LifeDistances /\ LifeDistances' /\ [Next]_vars => [JobNearer]_vars
  BY StepNearer
<1>. QED
  BY <1>2, <1>3, <1>4, Inductive, PTL DEF Safety

=============================================================================
