--------------------------- MODULE StageSchedule ---------------------------
(***************************************************************************)
(* What scheduleStages promises the reload that calls it, without the      *)
(* launch loop, the priority cursor or the books of held lanes: stages     *)
(* start when their deps have settled, at most Slots at a time, never two  *)
(* that share a lane, never twice, and none once the schedule is closed by *)
(* a shutdown.                                                             *)
(***************************************************************************)
EXTENDS StageGraph

VARIABLES settled, inflight, open

vars == <<settled, inflight, open>>

(* A stage that may start now. *)
MayStart(s) ==
    /\ open
    /\ s \notin settled \cup inflight
    /\ Deps[s] \subseteq settled
    /\ \A t \in inflight : ~Conflict(s, t)
    /\ Cardinality(inflight) < Slots

Init ==
    /\ settled \in SUBSET Stages
    /\ inflight = {}
    /\ open \in BOOLEAN

Start(s) ==
    /\ MayStart(s)
    /\ inflight' = inflight \cup {s}
    /\ UNCHANGED <<settled, open>>

Settle(s) ==
    /\ s \in inflight
    /\ inflight' = inflight \ {s}
    /\ settled' = settled \cup {s}
    /\ UNCHANGED open

Close ==
    /\ open
    /\ open' = FALSE
    /\ UNCHANGED <<settled, inflight>>

StartSome == \E s \in Stages : Start(s)

Next == StartSome \/ Close \/ \E s \in Stages : Settle(s)

(* A stage that can start while nothing else happens is not left waiting,  *)
(* and every stage that runs settles.                                      *)
Fairness ==
    /\ WF_vars(StartSome)
    /\ \A s \in Stages : WF_vars(Settle(s))

Safety == Init /\ [][Next]_vars
Spec == Safety /\ Fairness

-----------------------------------------------------------------------------
(* No two stages that hold a common lane (one upstream's rate limit, or    *)
(* the track nodes) are in flight together.                                *)
LaneExclusion ==
    \A s, t \in inflight : s # t => ~Conflict(s, t)

(* A stage in flight started after every one of its deps had settled.      *)
DepsSettledFirst ==
    \A s \in inflight : Deps[s] \subseteq settled

(* The concurrency bound. *)
SlotsRespected == Cardinality(inflight) <= Slots

(* A settled stage is never in flight again. *)
SettledOnce == inflight \cap settled = {}

=============================================================================
