--------------------------- MODULE StageScheduler ---------------------------
(***************************************************************************)
(* scheduleStages of ingestion/scheduler.ts: one pass over the array per   *)
(* round launches every stage that fits, then Promise.race waits for one   *)
(* stage in flight to settle, releases its lanes, and the next round       *)
(* starts.  The pass is synchronous JavaScript: the shutdown signal and    *)
(* the settling of a stage can only happen while the loop awaits the race. *)
(***************************************************************************)
EXTENDS StageGraph

CONSTANT AlreadyDone   \* the values options.alreadyDone may take

VARIABLES
    settled,    \* stages that reached a terminal state, or were done before
    launched,   \* stages ever launched, settled ones included
    held,       \* lanes taken
    inflight,   \* stages whose promise is in the race
    resolved,   \* of those, the ones whose run() promise has settled
    phase,      \* "scan" (the for loop), "await" (the race), "exit"
    cursor,     \* position of the for loop
    exit,       \* why the while loop ended
    aborted     \* signal.aborted

vars == <<settled, launched, held, inflight, resolved, phase, cursor, exit, aborted>>

(* The head of the while loop. *)
RoundPhase(done) == IF done = Stages THEN "exit" ELSE "scan"
RoundExit(done)  == IF done = Stages THEN "all" ELSE "none"

(* A slip: stages done before are not settled, so nothing waits for them.   *)
InitForgetsSettled ==
    /\ settled = {}
    /\ launched \in {done \cap Stages : done \in AlreadyDone}
    /\ held = {} /\ inflight = {} /\ resolved = {}
    /\ phase = "scan" /\ cursor = 1 /\ exit = "none"
    /\ aborted \in BOOLEAN

Init ==
    /\ \E done \in AlreadyDone : settled = done \cap Stages
    /\ launched = settled
    /\ held = {}
    /\ inflight = {}
    /\ resolved = {}
    /\ phase = RoundPhase(settled)
    /\ cursor = 1
    /\ exit = RoundExit(settled)
    /\ aborted \in BOOLEAN

(* The two break conditions of the for loop. *)
StopScan == aborted \/ Cardinality(inflight) >= Slots

(* Slips: a stage is launched without looking at the lanes, or at its deps. *)
FitsBeforeDeps(s) == s \notin launched /\ Resources[s] \cap held = {}

(* The three continue conditions of the for loop, negated. *)
Fits(s) ==
    /\ s \notin launched
    /\ Deps[s] \subseteq settled
    /\ Resources[s] \cap held = {}

Launch ==
    /\ phase = "scan" /\ cursor \in DOMAIN Order
    /\ ~StopScan
    /\ LET s == Order[cursor] IN
        /\ Fits(s)
        /\ launched' = launched \cup {s}
        /\ held' = held \cup Resources[s]
        /\ inflight' = inflight \cup {s}
    /\ cursor' = cursor + 1
    /\ UNCHANGED <<settled, resolved, phase, exit, aborted>>

(* A slip: the loop breaks where it should continue. *)
PassOverBreaks ==
    /\ phase = "scan" /\ cursor \in DOMAIN Order
    /\ ~StopScan
    /\ ~Fits(Order[cursor])
    /\ cursor' = IF Order[cursor] \in launched THEN cursor + 1 ELSE Len(Order) + 1
    /\ UNCHANGED <<settled, launched, held, inflight, resolved, phase, exit, aborted>>

PassOver ==
    /\ phase = "scan" /\ cursor \in DOMAIN Order
    /\ ~StopScan
    /\ ~Fits(Order[cursor])
    /\ cursor' = cursor + 1
    /\ UNCHANGED <<settled, launched, held, inflight, resolved, phase, exit, aborted>>

(* The for loop is over: wait for the race, or leave with nothing to wait for. *)
EndScan ==
    /\ phase = "scan"
    /\ cursor \notin DOMAIN Order \/ StopScan
    /\ phase' = IF inflight = {} THEN "exit" ELSE "await"
    /\ exit' = IF inflight # {} THEN "none" ELSE IF aborted THEN "aborted" ELSE "stuck"
    /\ UNCHANGED <<settled, launched, held, inflight, resolved, cursor, aborted>>

(* A run() promise settles, fulfilled or rejected: the scheduler catches both. *)
RunSettles(s) ==
    /\ phase = "await"
    /\ s \in inflight \ resolved
    /\ resolved' = resolved \cup {s}
    /\ UNCHANGED <<settled, launched, held, inflight, phase, cursor, exit, aborted>>

(* The race reports one settled stage, and the while loop goes round. *)
Reap(s) ==
    /\ phase = "await"
    /\ s \in resolved
    /\ inflight' = inflight \ {s}
    /\ resolved' = resolved \ {s}
    /\ held' = held \ Resources[s]
    /\ settled' = settled \cup {s}
    /\ phase' = RoundPhase(settled')
    /\ exit' = RoundExit(settled')
    /\ cursor' = 1
    /\ UNCHANGED <<launched, aborted>>

(* requestShutdown, from a signal handler. *)
Abort ==
    /\ phase = "await"
    /\ ~aborted
    /\ aborted' = TRUE
    /\ UNCHANGED <<settled, launched, held, inflight, resolved, phase, cursor, exit>>

Scan == Launch \/ PassOver \/ EndScan
ReapSome == \E s \in Stages : Reap(s)

Next ==
    \/ Scan
    \/ ReapSome
    \/ \E s \in Stages : RunSettles(s)
    \/ Abort

(* The event loop goes on, and every stage's run() settles.  Nothing makes *)
(* a shutdown happen.                                                      *)
Fairness ==
    /\ WF_vars(Scan)
    /\ WF_vars(ReapSome)
    /\ \A s \in Stages : WF_vars(RunSettles(s))

Safety == Init /\ [][Next]_vars
Spec == Safety /\ Fairness

-----------------------------------------------------------------------------
(* Type correctness of the scheduler's books. *)
TypeOK ==
    /\ settled \in SUBSET Stages
    /\ launched \in SUBSET Stages
    /\ held \in SUBSET Lanes
    /\ inflight \in SUBSET Stages
    /\ resolved \in SUBSET inflight
    /\ phase \in {"scan", "await", "exit"}
    /\ cursor \in 1 .. (Len(Order) + 1)
    /\ exit \in {"none", "all", "aborted", "stuck"}
    /\ aborted \in BOOLEAN

(* No two stages that hold a common lane are in flight together            *)
(* ("two stages sharing any resource never run concurrently").             *)
LaneExclusion ==
    \A s, t \in inflight : s # t => ~Conflict(s, t)

(* The held set is exactly the lanes of the stages in flight: a release    *)
(* neither leaks a lane nor frees one that another stage still holds.      *)
HeldExact == held = UNION {Resources[s] : s \in inflight}

(* While the loop waits with a slot free and no shutdown, no stage that    *)
(* could run is left behind: one pass in array order misses nothing.       *)
WorkConserving ==
    phase = "await" /\ ~StopScan => \A s \in Stages : ~Fits(s)

(* The defensive "scheduler stuck" branch is never reached.                *)
NeverStuck == exit # "stuck"

(* However the loop ends, nothing is in flight and no lane is held, and    *)
(* what was launched has settled: the rest is left for a resumed run.      *)
ExitDrained ==
    phase = "exit" => inflight = {} /\ held = {} /\ launched = settled

(* When a stage is launched, every earlier stage of the array was launched *)
(* before or could not run ("the earlier wins").                           *)
EarlierWins ==
    [][\A i \in DOMAIN Order :
         Order[i] \in inflight' \ inflight =>
            \A j \in 1 .. (i - 1) : ~Fits(Order[j])]_vars

(* A shutdown stops launches at once; what runs may only drain. *)
NoLaunchAfterAbort == [][aborted => inflight' \subseteq inflight]_vars

(* The schedule ends, and without a shutdown it ends with every stage      *)
(* settled.                                                                *)
EveryStageSettles ==
    /\ <>(phase = "exit")
    /\ [](~aborted) => <>(settled = Stages)

-----------------------------------------------------------------------------
(* scheduleStages implements the promise; a schedule is open until the     *)
(* shutdown signal is seen.                                                *)
Promise == INSTANCE StageSchedule WITH open <- ~aborted

ImplementsPromise == Promise!Spec

=============================================================================
