----------------------------- MODULE StageGraph -----------------------------
(***************************************************************************)
(* The stages of a reload as the scheduler sees them                       *)
(* (ingestion/scheduler.ts, SchedulableStage): an array in priority order, *)
(* the ordering edges of every stage, and the resource lanes it holds      *)
(* while it runs.  The scheduler knows nothing else about a stage.         *)
(***************************************************************************)
EXTENDS Integers, Sequences, FiniteSets

CONSTANTS
    Order,        \* the array of stages, earlier = higher priority
    Deps,         \* [stage -> set of stages that must have settled first]
    Resources,    \* [stage -> set of lanes held while it runs]
    Concurrency   \* the requested number of stages in flight

Stages == {Order[i] : i \in DOMAIN Order}
Lanes  == UNION {Resources[s] : s \in Stages}

(* Math.max(1, Math.floor(concurrency)): a request below one is one slot. *)
Slots == IF Concurrency < 1 THEN 1 ELSE Concurrency

ASSUME OrderAssumption ==
    /\ Order \in Seq(Stages)
    /\ IsFiniteSet(Stages)
    /\ \A i, j \in DOMAIN Order : Order[i] = Order[j] => i = j

ASSUME GraphAssumption ==
    /\ Deps \in [Stages -> SUBSET Stages]
    /\ DOMAIN Resources = Stages
    /\ Concurrency \in Int

(* The unit test of the real list ("is a valid topological sort - every    *)
(* dep appears earlier in the list", tests/unit/ingestion/stages.test.ts). *)
TopologicalOrder ==
    \A i \in DOMAIN Order :
        Deps[Order[i]] \subseteq {Order[j] : j \in 1 .. (i - 1)}

(* validateStageGraph: every dep is a stage, none is its own, and there is *)
(* no cycle, i.e. every nonempty set of stages holds one that waits for    *)
(* none of the others.                                                     *)
ValidStageGraph(deps) ==
    /\ \A s \in DOMAIN deps : deps[s] \subseteq DOMAIN deps \ {s}
    /\ \A T \in SUBSET DOMAIN deps : T # {} => \E s \in T : deps[s] \cap T = {}

(* Two stages that may never run at the same time. *)
Conflict(s, t) == Resources[s] \cap Resources[t] # {}

=============================================================================
