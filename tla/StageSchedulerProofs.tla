------------------------ MODULE StageSchedulerProofs ------------------------
(***************************************************************************)
(* Proofs about the scheduler, for every stage graph, concurrency and set  *)
(* of stages already done: its books are right, it never gets stuck on a   *)
(* graph without a cycle, it misses no stage that could run, nothing runs  *)
(* beside what it waits for, and it implements the promise of              *)
(* StageSchedule.  The last part is about the stages of the reload.        *)
(***************************************************************************)
EXTENDS ReloadGraph, FiniteSetTheorems, WellFoundedInduction, TLAPS

(* The slots are a positive number, whatever concurrency was asked for. *)
LEMMA SlotsPositive == Slots \in Nat /\ Slots >= 1
  BY GraphAssumption DEF Slots, GraphAssumption

(* The stages are the values of the array. *)
LEMMA OrderStages ==
    /\ Len(Order) \in Nat
    /\ DOMAIN Order = 1 .. Len(Order)
    /\ \A i \in DOMAIN Order : Order[i] \in Stages
    /\ \A s \in Stages : \E i \in DOMAIN Order : Order[i] = s
  BY OrderAssumption DEF OrderAssumption, Stages

(* Every set of stages is finite. *)
LEMMA StagesFinite ==
    ASSUME NEW S \in SUBSET Stages
    PROVE  IsFiniteSet(S) /\ Cardinality(S) \in Nat
  BY OrderAssumption, FS_Subset, FS_CardinalityType DEF OrderAssumption

(* The lanes of a stage are lanes. *)
LEMMA LanesOfStage == \A s \in Stages : Resources[s] \subseteq Lanes
  BY DEF Lanes

-----------------------------------------------------------------------------
(* The scheduler's books keep their types. *)
THEOREM TypeCorrect == Safety => []TypeOK
<1>1. Init => TypeOK
  BY OrderStages DEF Init, TypeOK, RoundPhase, RoundExit
<1>2. TypeOK /\ [Next]_vars => TypeOK'
  <2> SUFFICES ASSUME TypeOK, [Next]_vars PROVE TypeOK'
    OBVIOUS
  <2> USE DEF TypeOK
  <2>1. CASE Launch
    BY <2>1, OrderStages, LanesOfStage DEF Launch
  <2>2. CASE PassOver
    BY <2>2, OrderStages DEF PassOver
  <2>3. CASE EndScan
    BY <2>3 DEF EndScan
  <2>4. ASSUME NEW s \in Stages, Reap(s) PROVE TypeOK'
    BY <2>4, OrderStages DEF Reap, RoundPhase, RoundExit
  <2>5. ASSUME NEW s \in Stages, RunSettles(s) PROVE TypeOK'
    BY <2>5 DEF RunSettles
  <2>6. CASE Abort
    BY <2>6 DEF Abort
  <2>7. CASE UNCHANGED vars
    BY <2>7 DEF vars
  <2>. QED
    BY <2>1, <2>2, <2>3, <2>4, <2>5, <2>6, <2>7 DEF Next, Scan, ReapSome
<1>. QED
  BY <1>1, <1>2, PTL DEF Safety

-----------------------------------------------------------------------------
(* The books of the loop: what was launched is settled or in flight, never *)
(* both; the held lanes are those of the stages in flight, which share     *)
(* none and whose deps have settled.                                       *)
Books ==
    /\ launched = settled \cup inflight
    /\ inflight \cap settled = {}
    /\ HeldExact
    /\ LaneExclusion
    /\ \A s \in inflight : Deps[s] \subseteq settled
    /\ Cardinality(inflight) <= Slots

(* Where the loop stands: it only waits for a stage in flight and only     *)
(* leaves when there is none.                                              *)
LoopState ==
    /\ phase = "await" => inflight # {}
    /\ phase = "exit" => inflight = {}
    /\ phase = "scan" => settled # Stages

(* What the pass has looked at cannot be launched any more in this round.  *)
Scanned ==
    phase = "scan" => \A j \in 1 .. (cursor - 1) : ~Fits(Order[j])

IInv == TypeOK /\ Books /\ LoopState /\ Scanned /\ WorkConserving

(* A stage that fits can be added to those in flight without breaking the  *)
(* books: its lanes are free, so it conflicts with none of them.           *)
LEMMA LaunchKeepsBooks ==
    ASSUME TypeOK, Books, Launch
    PROVE  Books'
<1> DEFINE s == Order[cursor]
<1>1. s \in Stages /\ Fits(s) /\ s \notin inflight
  BY OrderStages DEF Launch, Fits, Books
<1>2. /\ inflight' = inflight \cup {s}
      /\ launched' = launched \cup {s}
      /\ held' = held \cup Resources[s]
      /\ settled' = settled
  BY DEF Launch
<1>3. HeldExact'
  BY <1>2 DEF HeldExact, Books
<1>4. \A t \in inflight : ~Conflict(s, t) /\ ~Conflict(t, s)
  BY <1>1 DEF Fits, Conflict, Books, HeldExact
<1>5. LaneExclusion'
  BY <1>2, <1>4 DEF LaneExclusion, Books, Conflict
<1>6. \A t \in inflight' : Deps[t] \subseteq settled'
  BY <1>1, <1>2 DEF Fits, Books
<1>7. Cardinality(inflight') <= Slots
  <2>1. Cardinality(inflight) \in Nat /\ IsFiniteSet(inflight)
    BY StagesFinite DEF TypeOK
  <2>2. Cardinality(inflight') = Cardinality(inflight) + 1
    BY <1>1, <1>2, <2>1, FS_AddElement
  <2>. QED
    BY <2>1, <2>2, SlotsPositive DEF Launch, StopScan
<1>. QED
  BY <1>1, <1>2, <1>3, <1>5, <1>6, <1>7 DEF Books, Fits

(* A settled stage gives back its own lanes and no other stage's.          *)
LEMMA ReapKeepsBooks ==
    ASSUME TypeOK, Books, NEW s \in Stages, Reap(s)
    PROVE  Books'
<1>1. /\ s \in inflight
      /\ inflight' = inflight \ {s}
      /\ settled' = settled \cup {s}
      /\ held' = held \ Resources[s]
      /\ launched' = launched
  BY DEF Reap, TypeOK
<1>2. \A t \in inflight' : Resources[t] \cap Resources[s] = {}
  BY <1>1 DEF Books, LaneExclusion, Conflict
<1>3. HeldExact'
  BY <1>1, <1>2 DEF HeldExact, Books
<1>4. LaneExclusion'
  BY <1>1 DEF LaneExclusion, Books, Conflict
<1>5. Cardinality(inflight') <= Slots
  <2>1. Cardinality(inflight) \in Nat /\ IsFiniteSet(inflight)
    BY StagesFinite DEF TypeOK
  <2>2. Cardinality(inflight') = Cardinality(inflight) - 1
    BY <1>1, <2>1, FS_RemoveElement
  <2>. QED
    BY <2>1, <2>2, SlotsPositive DEF Books
<1>. QED
  BY <1>1, <1>3, <1>4, <1>5 DEF Books

(* The invariant holds initially. *)
LEMMA InitIInv == Init => IInv
<1> SUFFICES ASSUME Init PROVE IInv
  OBVIOUS
<1>1. TypeOK
  BY OrderStages DEF Init, TypeOK, RoundPhase, RoundExit
<1>2. Books
  BY SlotsPositive, FS_EmptySet DEF Init, Books, HeldExact, LaneExclusion
<1>3. LoopState /\ Scanned /\ WorkConserving
  BY DEF Init, LoopState, Scanned, WorkConserving, RoundPhase
<1>. QED
  BY <1>1, <1>2, <1>3 DEF IInv

(* Every step keeps it. *)
LEMMA NextIInv == IInv /\ [Next]_vars /\ TypeOK' => IInv'
<1> SUFFICES ASSUME IInv, [Next]_vars, TypeOK' PROVE IInv'
  OBVIOUS
<1> USE DEF IInv
<1>1. CASE Launch
  <2>1. Books'
    BY <1>1, LaunchKeepsBooks
  <2>2. LoopState' /\ WorkConserving'
    BY <1>1 DEF Launch, LoopState, WorkConserving
  <2>3. Scanned'
    <3> SUFFICES ASSUME NEW j \in 1 .. (cursor' - 1) PROVE ~Fits(Order[j])'
      BY DEF Scanned
    <3>1. CASE j = cursor
      BY <1>1, <3>1 DEF Launch, Fits
    <3>2. CASE j # cursor
      <4>1. j \in 1 .. (cursor - 1)
        BY <1>1, <3>2 DEF Launch, TypeOK
      <4>2. ~Fits(Order[j])
        BY <1>1, <4>1 DEF Scanned, Launch
      <4>. QED
        BY <1>1, <4>2 DEF Launch, Fits
    <3>. QED
      BY <3>1, <3>2
  <2>. QED
    BY <2>1, <2>2, <2>3
<1>2. CASE PassOver
  <2>1. Books' /\ LoopState' /\ WorkConserving'
    BY <1>2 DEF PassOver, Books, HeldExact, LaneExclusion, LoopState, WorkConserving
  <2>2. Scanned'
    <3> SUFFICES ASSUME NEW j \in 1 .. (cursor' - 1) PROVE ~Fits(Order[j])'
      BY DEF Scanned
    <3>1. j = cursor \/ j \in 1 .. (cursor - 1)
      BY <1>2 DEF PassOver, TypeOK
    <3>2. ~Fits(Order[j])
      BY <1>2, <3>1 DEF PassOver, Scanned
    <3>. QED
      BY <1>2, <3>2 DEF PassOver, Fits
  <2>. QED
    BY <2>1, <2>2
<1>3. CASE EndScan
  <2>1. Books' /\ LoopState' /\ Scanned'
    BY <1>3 DEF EndScan, Books, HeldExact, LaneExclusion, LoopState, Scanned
  <2>2. WorkConserving'
    <3> SUFFICES ASSUME ~StopScan, NEW s \in Stages PROVE ~Fits(s)
      BY <1>3 DEF EndScan, WorkConserving, StopScan, Fits
    <3>1. cursor = Len(Order) + 1
      BY <1>3, OrderStages DEF EndScan, TypeOK
    <3>2. PICK i \in DOMAIN Order : Order[i] = s
      BY OrderStages
    <3>3. i \in 1 .. (cursor - 1)
      BY <3>1, <3>2, OrderStages
    <3>. QED
      BY <1>3, <3>2, <3>3 DEF EndScan, Scanned
  <2>. QED
    BY <2>1, <2>2
<1>4. ASSUME NEW s \in Stages, Reap(s) PROVE IInv'
  <2>1. Books'
    BY <1>4, ReapKeepsBooks
  <2>2. inflight' \cap settled' = {} /\ settled' \in SUBSET Stages
    BY <2>1 DEF Books, TypeOK
  <2>3. LoopState'
    BY <1>4, <2>2 DEF Reap, LoopState, RoundPhase, TypeOK
  <2>4. Scanned' /\ WorkConserving'
    BY <1>4 DEF Reap, Scanned, WorkConserving, RoundPhase
  <2>. QED
    BY <2>1, <2>3, <2>4
<1>5. ASSUME NEW s \in Stages, RunSettles(s) PROVE IInv'
  BY <1>5 DEF RunSettles, Books, HeldExact, LaneExclusion, LoopState, Scanned,
              WorkConserving, StopScan, Fits
<1>6. CASE Abort
  BY <1>6 DEF Abort, Books, HeldExact, LaneExclusion, LoopState, Scanned,
              WorkConserving, StopScan
<1>7. CASE UNCHANGED vars
  BY <1>7 DEF vars, Books, HeldExact, LaneExclusion, LoopState, Scanned,
              WorkConserving, StopScan, Fits
<1>. QED
  BY <1>1, <1>2, <1>3, <1>4, <1>5, <1>6, <1>7 DEF Next, Scan, ReapSome

(* The invariant holds in every state of the scheduler. *)
THEOREM Inductive == Safety => []IInv
<1>1. IInv /\ [Next]_vars => IInv' \/ ~TypeOK'
  BY NextIInv
<1>. QED
  BY <1>1, InitIInv, TypeCorrect, PTL DEF Safety

(* No two stages that share a lane ever run together, for every graph.     *)
THEOREM LanesExclusive == Safety => []LaneExclusion
  BY Inductive, PTL DEF IInv, Books

(* The held set never leaks or loses a lane. *)
THEOREM HeldIsExact == Safety => []HeldExact
  BY Inductive, PTL DEF IInv, Books

(* One pass over the array misses no stage that could run. *)
THEOREM NoStageMissed == Safety => []WorkConserving
  BY Inductive, PTL DEF IInv

-----------------------------------------------------------------------------
(* The loop leaves nothing behind but what it never launched: nothing in   *)
(* flight, no lane held.                                                   *)
THEOREM NothingLeftInFlight == Safety => []ExitDrained
<1>1. IInv => ExitDrained
  BY DEF IInv, LoopState, Books, HeldExact, ExitDrained
<1>. QED
  BY <1>1, Inductive, PTL

(* A graph whose array is in topological order has no cycle: of any stages *)
(* the one that comes first in the array waits for none of the others.     *)
LEMMA SortedIsValid == TopologicalOrder => ValidStageGraph(Deps)
<1> SUFFICES ASSUME TopologicalOrder PROVE ValidStageGraph(Deps)
  OBVIOUS
<1>1. DOMAIN Deps = Stages
  BY GraphAssumption DEF GraphAssumption
<1>2. ASSUME NEW i \in DOMAIN Order, NEW d \in Deps[Order[i]]
      PROVE  \E j \in 1 .. (i - 1) : Order[j] = d
  BY <1>2 DEF TopologicalOrder
<1>3. ASSUME NEW s \in Stages PROVE Deps[s] \subseteq Stages \ {s}
  <2>1. PICK i \in DOMAIN Order : Order[i] = s
    BY OrderStages
  <2>2. Deps[s] \subseteq Stages
    BY GraphAssumption DEF GraphAssumption
  <2>3. ASSUME s \in Deps[s] PROVE FALSE
    <3>1. PICK j \in 1 .. (i - 1) : Order[j] = s
      BY <1>2, <2>1, <2>3
    <3>2. j \in DOMAIN Order /\ j < i /\ i \in Int
      BY <2>1, OrderStages
    <3>. QED
      BY <2>1, <3>1, <3>2, OrderAssumption DEF OrderAssumption
  <2>. QED
    BY <2>2, <2>3
<1>4. ASSUME NEW T \in SUBSET Stages, T # {}
      PROVE  \E s \in T : Deps[s] \cap T = {}
  <2> DEFINE At == {i \in DOMAIN Order : Order[i] \in T}
             Less == OpToRel(<, Nat)
  <2>1. At \subseteq Nat /\ At # {}
    BY <1>4, OrderStages
  <2>2. PICK i \in At : \A j \in At : ~(<<j, i>> \in Less)
    <3>. HIDE DEF At
    <3>. QED
      BY <2>1, NatLessThanWellFounded, WFMin
  <2>3. \A j \in At : ~(j < i)
    BY <2>1, <2>2 DEF OpToRel
  <2>4. ASSUME NEW d \in Deps[Order[i]] \cap T PROVE FALSE
    <3>1. PICK j \in 1 .. (i - 1) : Order[j] = d
      BY <1>2, <2>4
    <3>2. j \in DOMAIN Order /\ j < i /\ j \in At
      BY <2>4, <3>1, OrderStages
    <3>. QED
      BY <2>3, <3>2
  <2>. QED
    BY <2>4
<1>. QED
  BY <1>1, <1>3, <1>4 DEF ValidStageGraph

(* The defensive "stuck" branch cannot be taken on a graph that            *)
(* validateStageGraph accepts, whatever the order of its array: a pass that *)
(* launches nothing with nothing in flight would find that no stage fits,  *)
(* but of the stages that have not settled one waits for none of the others. *)
THEOREM NotStuck ==
    ASSUME ValidStageGraph(Deps)
    PROVE  Safety => []NeverStuck
<1>1. Init => NeverStuck
  BY DEF Init, NeverStuck, RoundExit
<1>2. ASSUME IInv, EndScan, inflight = {}, ~aborted PROVE FALSE
  <2>1. ~StopScan /\ held = {} /\ launched = settled
    BY <1>2, SlotsPositive, FS_EmptySet DEF StopScan, IInv, Books, HeldExact
  <2>2. cursor = Len(Order) + 1
    BY <1>2, <2>1, OrderStages DEF EndScan, IInv, TypeOK
  <2>3. \A s \in Stages : ~Fits(s)
    BY <1>2, <2>2, OrderStages DEF EndScan, IInv, Scanned
  <2>4. Stages \ settled # {} /\ DOMAIN Deps = Stages
    BY <1>2, GraphAssumption DEF EndScan, IInv, LoopState, TypeOK, GraphAssumption
  <2>5. PICK s \in Stages \ settled : Deps[s] \cap (Stages \ settled) = {}
    BY <2>4, ValidStageGraph(Deps) DEF ValidStageGraph
  <2>6. Deps[s] \subseteq settled
    BY <2>5, GraphAssumption DEF GraphAssumption
  <2>. QED
    BY <2>1, <2>3, <2>5, <2>6 DEF Fits
<1>3. NeverStuck /\ IInv /\ [Next]_vars => NeverStuck'
  <2> SUFFICES ASSUME NeverStuck, IInv, Next PROVE NeverStuck'
    BY DEF vars, NeverStuck
  <2>1. CASE EndScan
    BY <1>2, <2>1 DEF EndScan, NeverStuck
  <2>2. CASE ~EndScan
    BY <2>2 DEF Next, Scan, ReapSome, Launch, PassOver, Reap, RunSettles, Abort,
                NeverStuck, RoundExit
  <2>. QED
    BY <2>1, <2>2
<1>. QED
  BY <1>1, <1>3, Inductive, PTL DEF Safety

-----------------------------------------------------------------------------
(* t waits for s, through however many others: a set that holds t, and     *)
(* with every stage its deps, holds s.                                     *)
WaitsFor(t, s) ==
    \A C \in SUBSET Stages :
        t \in C /\ (\A c \in C : Deps[c] \subseteq C) => s \in C

(* A stage waits for its deps and for what they wait for. *)
LEMMA WaitsForDep ==
    ASSUME NEW t \in Stages, NEW u \in Deps[t], NEW s, WaitsFor(u, s)
    PROVE  WaitsFor(t, s)
  BY DEF WaitsFor

(* And for nothing else but itself. *)
LEMMA WaitsThroughDep ==
    ASSUME NEW t \in Stages, NEW s \in Stages, s # t, WaitsFor(t, s)
    PROVE  \E u \in Deps[t] : WaitsFor(u, s)
<1> SUFFICES ASSUME \A u \in Deps[t] : ~WaitsFor(u, s) PROVE FALSE
  OBVIOUS
<1> DEFINE C == {c \in Stages : ~WaitsFor(c, s)} \cup {t}
<1>1. ASSUME NEW c \in Stages, ~WaitsFor(c, s), NEW u \in Deps[c]
      PROVE  ~WaitsFor(u, s)
  BY <1>1, WaitsForDep
<1>2. \A c \in Stages : Deps[c] \subseteq Stages
  BY GraphAssumption DEF GraphAssumption
<1>3. C \in SUBSET Stages /\ t \in C /\ \A c \in C : Deps[c] \subseteq C
  BY <1>1, <1>2
<1>4. s \in C
  BY <1>3 DEF WaitsFor
<1>5. WaitsFor(s, s)
  BY DEF WaitsFor
<1>. QED
  BY <1>4, <1>5

(* No resumed job re-runs s with a stage done before that waits for s. *)
RerunWhole(s) ==
    \A done \in AlreadyDone :
        s \in done \/ \A t \in done \cap Stages : ~WaitsFor(t, s)

(* What in S waits for s finds s settled. *)
SettledBefore(S) ==
    \A s \in Stages : RerunWhole(s) => \A t \in S \ {s} : WaitsFor(t, s) => s \in settled

(* A stage runs beside none of those it waits for, directly or not, nor    *)
(* before them, for every graph: a dep in the array is an ordering edge,   *)
(* and the edges compose.  A resumed job is excepted for a stage it runs   *)
(* again although a stage downstream of it was done.                       *)
THEOREM UpstreamFirst == Safety => []SettledBefore(inflight)
<1>1. Init => SettledBefore(launched)
  BY DEF Init, SettledBefore, RerunWhole
<1>2. SettledBefore(launched) /\ IInv /\ [Next]_vars => SettledBefore(launched)'
  <2> SUFFICES ASSUME SettledBefore(launched), IInv, [Next]_vars,
                      NEW s \in Stages, RerunWhole(s),
                      NEW t \in launched' \ {s}, WaitsFor(t, s)
               PROVE  s \in settled'
    BY DEF SettledBefore
  <2>1. settled \subseteq settled'
    BY DEF Next, Scan, ReapSome, Launch, PassOver, EndScan, Reap, RunSettles, Abort, vars
  <2>2. CASE t \in launched
    BY <2>1, <2>2 DEF SettledBefore
  <2>3. CASE t \notin launched
    <3>1. t \in Stages /\ Deps[t] \subseteq settled
      BY <2>3, OrderStages DEF Next, Scan, ReapSome, Launch, PassOver, EndScan, Reap,
                               RunSettles, Abort, vars, Fits
    <3>2. PICK u \in Deps[t] : WaitsFor(u, s)
      BY <3>1, WaitsThroughDep
    <3>3. u \in launched
      BY <3>1 DEF IInv, Books
    <3>. QED
      BY <2>1, <3>1, <3>2, <3>3 DEF SettledBefore
  <2>. QED
    BY <2>2, <2>3
<1>3. SettledBefore(launched) /\ IInv => SettledBefore(inflight)
  BY DEF SettledBefore, IInv, Books
<1>. QED
  BY <1>1, <1>2, <1>3, Inductive, PTL DEF Safety

-----------------------------------------------------------------------------
(* When a stage is launched, no earlier stage of the array could have been *)
(* launched instead.                                                       *)
THEOREM Priority == Safety => EarlierWins
<1> DEFINE A == \A i \in DOMAIN Order :
                  Order[i] \in inflight' \ inflight =>
                     \A j \in 1 .. (i - 1) : ~Fits(Order[j])
<1>1. IInv /\ [Next]_vars => [A]_vars
  <2> SUFFICES ASSUME IInv, Next,
                      NEW i \in DOMAIN Order, Order[i] \in inflight' \ inflight,
                      NEW j \in 1 .. (i - 1)
               PROVE  ~Fits(Order[j])
    OBVIOUS
  <2>1. Launch
    BY DEF Next, Scan, ReapSome, PassOver, EndScan, Reap, RunSettles, Abort
  <2>2. i = cursor
    BY <2>1, OrderAssumption DEF OrderAssumption, Launch
  <2>. QED
    BY <2>1, <2>2 DEF IInv, Scanned, Launch
<1>. QED
  BY <1>1, Inductive, PTL DEF Safety, EarlierWins

(* A shutdown stops launches at once. *)
THEOREM ShutdownStopsLaunches == Safety => NoLaunchAfterAbort
<1>1. [Next]_vars => [aborted => inflight' \subseteq inflight]_vars
  BY DEF Next, Scan, ReapSome, Launch, PassOver, EndScan, Reap, RunSettles,
         Abort, StopScan
<1>. QED
  BY <1>1, PTL DEF Safety, NoLaunchAfterAbort

-----------------------------------------------------------------------------
(* The promise speaks of the same stages, slots, conflicts and sizes. *)
LEMMA PromiseOperators ==
    /\ Promise!Stages = Stages
    /\ Promise!Slots = Slots
    /\ \A s, t : Promise!Conflict(s, t) <=> Conflict(s, t)
    /\ \A S : Promise!Cardinality(S) = Cardinality(S)
<1>1. Promise!Stages = Stages
  BY DEF Promise!Stages, Stages
<1>2. Promise!Slots = Slots
  BY DEF Promise!Slots, Slots
<1>3. \A s, t : Promise!Conflict(s, t) <=> Conflict(s, t)
  BY DEF Promise!Conflict, Conflict
<1>4. \A S : Promise!Cardinality(S) = Cardinality(S)
  BY DEF Promise!Cardinality, Cardinality
<1>. QED
  BY <1>1, <1>2, <1>3, <1>4

(* The scheduler implements the promise of StageSchedule: its launches are *)
(* starts the promise allows, its reaps settle what runs, a shutdown       *)
(* closes the schedule, and the loop's own steps are stutters.             *)
THEOREM Implements == Safety => Promise!Safety
<1>1. Init => Promise!Init
  BY PromiseOperators, StagesFinite DEF Init, Promise!Init
<1>2. IInv /\ [Next]_vars => [Promise!Next]_(Promise!vars)
  <2> SUFFICES ASSUME IInv, [Next]_vars
               PROVE  Promise!Next \/ UNCHANGED Promise!vars
    OBVIOUS
  <2>1. CASE Launch
    <3> DEFINE s == Order[cursor]
    <3>1. s \in Stages /\ Fits(s)
      BY <2>1, OrderStages DEF Launch
    <3>2. s \notin settled \cup inflight /\ Deps[s] \subseteq settled
      BY <3>1 DEF Fits, IInv, Books
    <3>3. \A t \in inflight : ~Conflict(s, t)
      BY <3>1 DEF Fits, Conflict, IInv, Books, HeldExact
    <3>4. Cardinality(inflight) < Slots /\ ~aborted
      <4>1. Cardinality(inflight) \in Nat
        BY StagesFinite DEF IInv, TypeOK
      <4>. QED
        BY <2>1, <4>1, SlotsPositive DEF Launch, StopScan
    <3>5. Promise!Start(s)
      BY <2>1, <3>2, <3>3, <3>4, PromiseOperators DEF Promise!Start, Promise!MayStart, Launch
    <3>. QED
      BY <3>1, <3>5, PromiseOperators DEF Promise!Next, Promise!StartSome
  <2>2. CASE PassOver
    BY <2>2 DEF PassOver, Promise!vars
  <2>3. CASE EndScan
    BY <2>3 DEF EndScan, Promise!vars
  <2>4. ASSUME NEW s \in Stages, Reap(s) PROVE Promise!Next
    <3>1. Promise!Settle(s)
      BY <2>4 DEF Reap, Promise!Settle, IInv, TypeOK
    <3>. QED
      BY <3>1, PromiseOperators DEF Promise!Next
  <2>5. ASSUME NEW s \in Stages, RunSettles(s) PROVE UNCHANGED Promise!vars
    BY <2>5 DEF RunSettles, Promise!vars
  <2>6. CASE Abort
    BY <2>6 DEF Abort, Promise!Next, Promise!Close
  <2>7. CASE UNCHANGED vars
    BY <2>7 DEF vars, Promise!vars
  <2>. QED
    BY <2>1, <2>2, <2>3, <2>4, <2>5, <2>6, <2>7 DEF Next, Scan, ReapSome
<1>. QED
  BY <1>1, <1>2, Inductive, PTL DEF Safety, Promise!Safety

-----------------------------------------------------------------------------
(* The reload's own stages.  The definitions of the registry: *)
Registry ==
    {Lyrics, Nationality, MasterData, MbReleaseEvents, TrackMusicBrainz, TrackWorks,
     TrackRecordingArtists, TrackRecordingPlaces, TrackRecordingLineage,
     TrackAcousticBrainz, TrackDeezer, ArtistProfiles, ArtistGenres, LabelHierarchy,
     GroupMembers, PersonReconciliation, MbArtistId, SongwriterReconciliation,
     ArtistWikidata, ArtistInfluences, BandMembership}

(* They are those of the array. *)
LEMMA RegistryIsRange == Range(STAGE_DEFINITIONS) = Registry
<1> DEFINE D == STAGE_DEFINITIONS
<1>1. DOMAIN D = 1 .. 21
  BY DEF STAGE_DEFINITIONS
<1>2. \A i \in 1 .. 21 : D[i] \in Registry
  BY DEF STAGE_DEFINITIONS, Registry
<1>3. \A d \in Registry : \E i \in 1 .. 21 : D[i] = d
  <2> SUFFICES ASSUME NEW d \in Registry PROVE \E i \in 1 .. 21 : D[i] = d
    OBVIOUS
  <2>1. /\ D[1] = Lyrics /\ D[2] = Nationality /\ D[3] = MasterData
        /\ D[4] = MbReleaseEvents /\ D[5] = TrackMusicBrainz /\ D[6] = TrackWorks
        /\ D[7] = TrackRecordingArtists /\ D[8] = TrackRecordingPlaces
        /\ D[9] = TrackRecordingLineage /\ D[10] = TrackAcousticBrainz
        /\ D[11] = TrackDeezer /\ D[12] = ArtistProfiles /\ D[13] = ArtistGenres
        /\ D[14] = LabelHierarchy /\ D[15] = GroupMembers
        /\ D[16] = PersonReconciliation /\ D[17] = MbArtistId
        /\ D[18] = SongwriterReconciliation /\ D[19] = ArtistWikidata
        /\ D[20] = ArtistInfluences /\ D[21] = BandMembership
    BY DEF STAGE_DEFINITIONS
  <2>. QED
    BY <2>1 DEF Registry
<1>. QED
  BY <1>1, <1>2, <1>3 DEF Range

(* Their names. *)
LEMMA RegistryNames ==
      /\ Lyrics.name = "lyrics"
      /\ Nationality.name = "nationality"
      /\ MasterData.name = "master-data"
      /\ MbReleaseEvents.name = "mb-release-events"
      /\ TrackMusicBrainz.name = "track-musicbrainz"
      /\ TrackWorks.name = "track-works"
      /\ TrackRecordingArtists.name = "track-recording-artists"
      /\ TrackRecordingPlaces.name = "track-recording-places"
      /\ TrackRecordingLineage.name = "track-recording-lineage"
      /\ TrackAcousticBrainz.name = "track-acousticbrainz"
      /\ TrackDeezer.name = "track-deezer"
      /\ ArtistProfiles.name = "artist-profiles"
      /\ ArtistGenres.name = "artist-genres"
      /\ LabelHierarchy.name = "label-hierarchy"
      /\ GroupMembers.name = "group-members"
      /\ PersonReconciliation.name = "person-reconciliation"
      /\ MbArtistId.name = "mb-artist-id"
      /\ SongwriterReconciliation.name = "songwriter-reconciliation"
      /\ ArtistWikidata.name = "artist-wikidata"
      /\ ArtistInfluences.name = "artist-influences"
      /\ BandMembership.name = "band-membership"
  BY DEF Definition, Lyrics, Nationality, MasterData, MbReleaseEvents, TrackMusicBrainz,
     TrackWorks, TrackRecordingArtists, TrackRecordingPlaces, TrackRecordingLineage,
     TrackAcousticBrainz, TrackDeezer, ArtistProfiles, ArtistGenres, LabelHierarchy,
     GroupMembers, PersonReconciliation, MbArtistId, SongwriterReconciliation,
     ArtistWikidata, ArtistInfluences, BandMembership

(* No two have one name. *)
LEMMA NamesDiffer == \A d, e \in Registry : d.name = e.name => d = e
  BY RegistryNames DEF Registry

(* A definition is found by its name. *)
LEMMA FoundByName ==
    \A d \in Registry : STAGE_DEFINITION_BY_NAME[d.name] = d
  BY RegistryIsRange, NamesDiffer DEF STAGE_DEFINITION_BY_NAME

(* A sequence with one element before it, *)
LEMMA Prepended ==
    ASSUME NEW S, NEW e \in S, NEW q \in Seq(S), NEW p, p = <<e>> \o q
    PROVE  /\ p \in Seq(S) /\ Len(p) = Len(q) + 1 /\ DOMAIN p = 1 .. (Len(q) + 1)
           /\ p[1] = e
           /\ \A i \in 1 .. Len(q) : p[i + 1] = q[i]
  OBVIOUS

(* and with one after it. *)
LEMMA Appended ==
    ASSUME NEW S, NEW q \in Seq(S), NEW e, NEW p, p = Append(q, e)
    PROVE  /\ DOMAIN p = 1 .. (Len(q) + 1)
           /\ p[Len(q) + 1] = e
           /\ \A i \in 1 .. Len(q) : p[i] = q[i]
  OBVIOUS

(* The releases and then the definitions in the order of the reload. *)
LEMMA ListBeforeVerify ==
    LET B == RELOAD_STAGES_BEFORE_VERIFY IN
    /\ DOMAIN B = 1 .. 22 /\ Len(B) = 22 /\ B \in Seq(Registry \cup {RELEASES_DESCRIPTOR})
    /\ B[1] = RELEASES_DESCRIPTOR
    /\ B[2] = MasterData /\ B[3] = ArtistProfiles /\ B[4] = ArtistGenres
    /\ B[5] = LabelHierarchy /\ B[6] = GroupMembers /\ B[7] = PersonReconciliation
    /\ B[8] = TrackMusicBrainz /\ B[9] = TrackWorks /\ B[10] = MbReleaseEvents
    /\ B[11] = Lyrics /\ B[12] = TrackAcousticBrainz /\ B[13] = TrackDeezer
    /\ B[14] = MbArtistId /\ B[15] = TrackRecordingArtists
    /\ B[16] = TrackRecordingPlaces /\ B[17] = TrackRecordingLineage
    /\ B[18] = Nationality /\ B[19] = ArtistWikidata /\ B[20] = ArtistInfluences
    /\ B[21] = BandMembership /\ B[22] = SongwriterReconciliation
<1> DEFINE O == RELOAD_ORDER
           N == STAGE_DEFINITION_BY_NAME
           E == [i \in 1 .. 21 |-> N[O[i]]]
<1>1. DOMAIN O = 1 .. 21
  BY DEF RELOAD_ORDER
<1>2. /\ O[1] = MasterData.name /\ O[2] = ArtistProfiles.name /\ O[3] = ArtistGenres.name
      /\ O[4] = LabelHierarchy.name /\ O[5] = GroupMembers.name
      /\ O[6] = PersonReconciliation.name /\ O[7] = TrackMusicBrainz.name
      /\ O[8] = TrackWorks.name /\ O[9] = MbReleaseEvents.name /\ O[10] = Lyrics.name
      /\ O[11] = TrackAcousticBrainz.name /\ O[12] = TrackDeezer.name
      /\ O[13] = MbArtistId.name /\ O[14] = TrackRecordingArtists.name
      /\ O[15] = TrackRecordingPlaces.name /\ O[16] = TrackRecordingLineage.name
      /\ O[17] = Nationality.name /\ O[18] = ArtistWikidata.name
      /\ O[19] = ArtistInfluences.name /\ O[20] = BandMembership.name
      /\ O[21] = SongwriterReconciliation.name
  BY RegistryNames DEF RELOAD_ORDER
<1>3. /\ E[1] = MasterData /\ E[2] = ArtistProfiles /\ E[3] = ArtistGenres
      /\ E[4] = LabelHierarchy /\ E[5] = GroupMembers /\ E[6] = PersonReconciliation
      /\ E[7] = TrackMusicBrainz /\ E[8] = TrackWorks /\ E[9] = MbReleaseEvents
      /\ E[10] = Lyrics /\ E[11] = TrackAcousticBrainz /\ E[12] = TrackDeezer
      /\ E[13] = MbArtistId /\ E[14] = TrackRecordingArtists
      /\ E[15] = TrackRecordingPlaces /\ E[16] = TrackRecordingLineage
      /\ E[17] = Nationality /\ E[18] = ArtistWikidata /\ E[19] = ArtistInfluences
      /\ E[20] = BandMembership /\ E[21] = SongwriterReconciliation
  <2>1. \A d \in Registry : N[d.name] = d
    BY FoundByName
  <2>2. \A i \in 1 .. 21 : E[i] = N[O[i]]
    BY <1>1
  <2>. HIDE DEF E, N, O
  <2>. QED
    BY <1>2, <2>1, <2>2 DEF Registry
<1>4. \A i \in 1 .. 21 : E[i] \in Registry
  <2>. HIDE DEF E
  <2>. QED
    BY <1>3 DEF Registry
<1>5. E \in Seq(Registry) /\ Len(E) = 21
  <2>1. \A i \in 1 .. 21 : N[O[i]] \in Registry
    BY <1>4
  <2>. HIDE DEF N, O
  <2>. QED
    BY <2>1
<1>6. RELOAD_STAGES_BEFORE_VERIFY = <<RELEASES_DESCRIPTOR>> \o E
  BY <1>1 DEF RELOAD_STAGES_BEFORE_VERIFY
<1>7. E \in Seq(Registry \cup {RELEASES_DESCRIPTOR})
  BY <1>5
<1>. DEFINE B == RELOAD_STAGES_BEFORE_VERIFY
<1>8. /\ DOMAIN B = 1 .. 22 /\ Len(B) = 22 /\ B \in Seq(Registry \cup {RELEASES_DESCRIPTOR})
      /\ B[1] = RELEASES_DESCRIPTOR
      /\ \A i \in 1 .. 21 : B[i + 1] = E[i]
  <2>. DEFINE S == Registry \cup {RELEASES_DESCRIPTOR}
  <2>. HIDE DEF E, B
  <2>1. RELEASES_DESCRIPTOR \in S /\ B = <<RELEASES_DESCRIPTOR>> \o E
    BY <1>6 DEF B
  <2>2. E \in Seq(S)
    BY <1>7
  <2>. HIDE DEF S
  <2>3. /\ B \in Seq(S) /\ Len(B) = Len(E) + 1 /\ DOMAIN B = 1 .. (Len(E) + 1)
        /\ B[1] = RELEASES_DESCRIPTOR
        /\ \A i \in 1 .. Len(E) : B[i + 1] = E[i]
    BY <2>1, <2>2, Prepended
  <2>. QED
    BY <1>5, <2>3 DEF S
<1>. HIDE DEF E, B
<1>9. /\ B[2] = E[1] /\ B[3] = E[2] /\ B[4] = E[3] /\ B[5] = E[4] /\ B[6] = E[5]
      /\ B[7] = E[6] /\ B[8] = E[7] /\ B[9] = E[8] /\ B[10] = E[9] /\ B[11] = E[10]
      /\ B[12] = E[11] /\ B[13] = E[12] /\ B[14] = E[13] /\ B[15] = E[14]
      /\ B[16] = E[15] /\ B[17] = E[16] /\ B[18] = E[17] /\ B[19] = E[18]
      /\ B[20] = E[19] /\ B[21] = E[20] /\ B[22] = E[21]
  BY <1>8
<1>. QED
  BY <1>3, <1>8, <1>9 DEF B

(* The stages of the reload. *)
Listed == Registry \cup {RELEASES_DESCRIPTOR, VERIFY_DESCRIPTOR}

(* Every definition has its place in the list. *)
LEMMA RangeBeforeVerify ==
    Range(RELOAD_STAGES_BEFORE_VERIFY) = Registry \cup {RELEASES_DESCRIPTOR}
<1> DEFINE B == RELOAD_STAGES_BEFORE_VERIFY
<1>1. \A i \in 1 .. 22 : B[i] \in Registry \cup {RELEASES_DESCRIPTOR}
  BY ListBeforeVerify DEF Registry
<1>2. \A d \in Registry \cup {RELEASES_DESCRIPTOR} : \E i \in 1 .. 22 : B[i] = d
  BY ListBeforeVerify DEF Registry
<1>. QED
  BY <1>1, <1>2, ListBeforeVerify DEF Range

(* verify comes last. *)
LEMMA ReloadList ==
    LET B == RELOAD_STAGES_BEFORE_VERIFY IN
    /\ DOMAIN RELOAD_STAGES = 1 .. 23
    /\ \A i \in 1 .. 22 : RELOAD_STAGES[i] = B[i]
    /\ RELOAD_STAGES[23] = VERIFY_DESCRIPTOR
<1> DEFINE B == RELOAD_STAGES_BEFORE_VERIFY
<1>1. B \in Seq(Registry \cup {RELEASES_DESCRIPTOR}) /\ Len(B) = 22
  BY ListBeforeVerify
<1>2. RELOAD_STAGES = Append(B, VERIFY_DESCRIPTOR)
  BY DEF RELOAD_STAGES
<1>. DEFINE S == Registry \cup {RELEASES_DESCRIPTOR}
<1>. HIDE DEF B, S
<1>3. /\ DOMAIN RELOAD_STAGES = 1 .. (Len(B) + 1)
      /\ RELOAD_STAGES[Len(B) + 1] = VERIFY_DESCRIPTOR
      /\ \A i \in 1 .. Len(B) : RELOAD_STAGES[i] = B[i]
  <2>1. B \in Seq(S)
    BY <1>1 DEF S
  <2>. QED
    BY <1>2, <2>1, Appended
<1>. QED
  BY <1>1, <1>3 DEF B

(* So the array holds every definition, the releases and verify. *)
LEMMA ListedIsRange == Range(RELOAD_STAGES) = Listed
  BY ReloadList, ListBeforeVerify, RangeBeforeVerify DEF Range, Listed

(* Of the two stages that are in no registry, verify waits for all others. *)
LEMMA ListedNames ==
    /\ RELEASES_DESCRIPTOR.name = "releases" /\ RELEASES_DESCRIPTOR.deps = {}
    /\ VERIFY_DESCRIPTOR.name = "verify"
    /\ VERIFY_DESCRIPTOR.deps = {d.name : d \in Registry \cup {RELEASES_DESCRIPTOR}}
  BY RangeBeforeVerify DEF Definition, RELEASES_DESCRIPTOR, VERIFY_DESCRIPTOR

(* No two of the array have one name. *)
LEMMA ListedNamesDiffer == \A d, e \in Listed : d.name = e.name => d = e
  BY RegistryNames, ListedNames DEF Listed, Registry

(* What the scheduler is given is the array, by name. *)
LEMMA Given ==
    /\ DOMAIN ReloadOrder = 1 .. 23
    /\ \A i \in 1 .. 23 : ReloadOrder[i] = RELOAD_STAGES[i].name
    /\ ReloadNames = {d.name : d \in Listed}
    /\ \A d \in Listed : ReloadDeps[d.name] = d.deps
<1>1. DOMAIN ReloadOrder = 1 .. 23
  BY ReloadList DEF ReloadOrder
<1>2. \A i \in 1 .. 23 : ReloadOrder[i] = RELOAD_STAGES[i].name
  BY ReloadList DEF ReloadOrder
<1>3. ReloadNames = {d.name : d \in Listed}
  <2>1. \A d \in Listed : \E i \in 1 .. 23 : RELOAD_STAGES[i] = d
    BY ListedIsRange, ReloadList DEF Range
  <2>2. \A i \in 1 .. 23 : RELOAD_STAGES[i] \in Listed
    BY ListedIsRange, ReloadList DEF Range
  <2>. QED
    BY <1>1, <1>2, <2>1, <2>2 DEF ReloadNames, Range
<1>4. \A d \in Listed : ReloadDescriptor[d.name] = d
  BY <1>3, ListedIsRange, ListedNamesDiffer DEF ReloadDescriptor
<1>. QED
  BY <1>1, <1>2, <1>3, <1>4 DEF ReloadDeps

(* What each definition waits for. *)
LEMMA RegistryDeps ==
    /\ \A d \in {Lyrics, MasterData, TrackMusicBrainz, ArtistProfiles, ArtistGenres,
                  LabelHierarchy, GroupMembers, MbArtistId, ArtistWikidata} :
          d.deps = {"releases"}
    /\ MbReleaseEvents.deps = {"master-data"}
    /\ \A d \in {TrackWorks, TrackRecordingPlaces, TrackRecordingLineage,
                  TrackAcousticBrainz, TrackDeezer} : d.deps = {"track-musicbrainz"}
    /\ TrackRecordingArtists.deps = {"track-musicbrainz", "mb-artist-id"}
    /\ Nationality.deps = {"releases", "mb-artist-id", "track-recording-artists"}
    /\ PersonReconciliation.deps = {"artist-genres", "group-members"}
    /\ SongwriterReconciliation.deps =
          {"track-works", "mb-artist-id", "person-reconciliation", "nationality",
           "artist-wikidata"}
    /\ \A d \in {ArtistInfluences, BandMembership} : d.deps = {"artist-wikidata"}
  BY DEF Definition, Lyrics, Nationality, MasterData, MbReleaseEvents, TrackMusicBrainz,
     TrackWorks, TrackRecordingArtists, TrackRecordingPlaces, TrackRecordingLineage,
     TrackAcousticBrainz, TrackDeezer, ArtistProfiles, ArtistGenres, LabelHierarchy,
     GroupMembers, PersonReconciliation, MbArtistId, SongwriterReconciliation,
     ArtistWikidata, ArtistInfluences, BandMembership

(* Every dep of the real list is earlier in it (the unit test of stages.ts). *)
LEMMA ReloadSorted ==
    \A i \in 1 .. 23 :
        ReloadDeps[ReloadOrder[i]] \subseteq {ReloadOrder[j] : j \in 1 .. (i - 1)}
<1> DEFINE O == ReloadOrder
<1>1. /\ O[1] = "releases" /\ O[2] = "master-data" /\ O[4] = "artist-genres"
      /\ O[6] = "group-members" /\ O[7] = "person-reconciliation"
      /\ O[8] = "track-musicbrainz" /\ O[9] = "track-works" /\ O[14] = "mb-artist-id"
      /\ O[15] = "track-recording-artists" /\ O[18] = "nationality"
      /\ O[19] = "artist-wikidata"
  BY Given, ReloadList, ListBeforeVerify, RegistryNames, ListedNames
<1>2. \A i \in 1 .. 23 : O[i] = RELOAD_STAGES[i].name /\ RELOAD_STAGES[i] \in Listed
                         /\ ReloadDeps[O[i]] = RELOAD_STAGES[i].deps
  <2>1. \A i \in 1 .. 23 : RELOAD_STAGES[i] \in Listed
    BY ListedIsRange, ReloadList DEF Range
  <2>. QED
    BY <2>1, Given
<1>3. \A i \in 1 .. 22 : ReloadDeps[O[i]] = RELOAD_STAGES_BEFORE_VERIFY[i].deps
  BY <1>2, ReloadList
<1>4. ASSUME NEW i \in 1 .. 22
      PROVE  \A n \in ReloadDeps[O[i]] : \E j \in 1 .. (i - 1) : O[j] = n
  <2>1. ReloadDeps[O[i]] = RELOAD_STAGES_BEFORE_VERIFY[i].deps
    BY <1>3
  <2>. HIDE DEF O
  <2>. QED
    BY <1>1, <2>1, ListBeforeVerify, RegistryDeps, ListedNames
<1>5. \A n \in ReloadDeps[O[23]] : \E j \in 1 .. 22 : O[j] = n
  <2>1. ReloadDeps[O[23]] = {d.name : d \in Registry \cup {RELEASES_DESCRIPTOR}}
    BY <1>2, ReloadList, ListedNames
  <2>2. \A d \in Registry \cup {RELEASES_DESCRIPTOR} :
          \E j \in 1 .. 22 : RELOAD_STAGES[j] = d
    BY RangeBeforeVerify, ListBeforeVerify, ReloadList DEF Range
  <2>. QED
    BY <1>2, <2>1, <2>2
<1>. QED
  <2>. HIDE DEF O
  <2>1. ASSUME NEW i \in 1 .. 23
        PROVE  \A n \in ReloadDeps[O[i]] : \E j \in 1 .. (i - 1) : O[j] = n
    <3>1. CASE i = 23
      BY <1>5, <3>1
    <3>2. CASE i # 23
      BY <1>4, <3>2
    <3>. QED
      BY <3>1, <3>2
  <2>. QED
    BY <2>1 DEF O

-----------------------------------------------------------------------------
(* The scheduler is given the reload's stages. *)
IsReload == Order = ReloadOrder /\ Deps = ReloadDeps

(* The list of the reload is in topological order. *)
LEMMA ReloadInOrder == IsReload => TopologicalOrder
  BY Given, ReloadSorted DEF IsReload, TopologicalOrder

(* Its stages. *)
LEMMA ReloadIsOfStages == IsReload => Stages = ReloadNames
  BY Given DEF IsReload, Stages, ReloadNames, Range

(* The reload cannot get stuck: RELOAD_STAGES has no cycle. *)
THEOREM ReloadNeverStuck ==
    ASSUME IsReload
    PROVE  Safety => []NeverStuck
  BY ReloadInOrder, SortedIsValid, NotStuck

(* Every stage but the releases waits for them directly or through others. *)
LEMMA ThroughOthers ==
    ASSUME IsReload, NEW t \in Stages, t # "releases", "releases" \notin Deps[t]
    PROVE  Through(t) # {}
<1>1. /\ Stages = {d.name : d \in Listed}
      /\ \A d \in Listed : Deps[d.name] = d.deps
  BY ReloadIsOfStages, Given DEF IsReload
<1>2. \A n \in {"master-data", "track-musicbrainz", "artist-genres", "artist-wikidata",
                "mb-artist-id"} : "releases" \in Deps[n]
  BY <1>1, RegistryDeps, RegistryNames DEF Listed, Registry
<1>3. PICK d \in Listed : t = d.name /\ Deps[t] = d.deps
  BY <1>1
<1>4. CASE d \in {RELEASES_DESCRIPTOR, VERIFY_DESCRIPTOR}
  BY <1>3, <1>4, ListedNames DEF Listed
<1>5. CASE d \in Registry
  BY <1>2, <1>3, <1>5, RegistryDeps DEF Registry, Through
<1>. QED
  BY <1>3, <1>4, <1>5 DEF Listed

(* Until the releases settle, no stage that waits for them directly has    *)
(* settled in this life of the job.                                        *)
SettledThrough ==
    \E done \in AlreadyDone :
        /\ done \cap Stages \subseteq settled
        /\ "releases" \notin settled => {s \in settled : "releases" \in Deps[s]} \subseteq done

LEMMA ThroughIsDone == Safety => []SettledThrough
<1>1. Init => SettledThrough
  BY DEF Init, SettledThrough
<1>2. SettledThrough /\ IInv /\ [Next]_vars => SettledThrough'
  <2> SUFFICES ASSUME SettledThrough, IInv, [Next]_vars PROVE SettledThrough'
    OBVIOUS
  <2>1. CASE settled' = settled
    BY <2>1 DEF SettledThrough
  <2>2. ASSUME NEW s \in Stages, Reap(s) PROVE SettledThrough'
    <3>1. settled' = settled \cup {s} /\ Deps[s] \subseteq settled
      BY <2>2 DEF Reap, IInv, TypeOK, Books
    <3>. QED
      BY <3>1 DEF SettledThrough
  <2>. QED
    BY <2>1, <2>2 DEF Next, Scan, ReapSome, Launch, PassOver, EndScan, RunSettles, Abort, vars
<1>. QED
  BY <1>1, <1>2, Inductive, PTL DEF Safety

(* At any concurrency, and wherever a job is resumed: the verify gate runs *)
(* alone, beside the releases run only stages whose way to them was done   *)
(* in an earlier life, none in a fresh job, and person reconciliation runs *)
(* with no batched writer of either axis.                                  *)
THEOREM ReloadRunsAlone ==
    ASSUME IsReload
    PROVE  Safety => []RunAlone
<1>1. IInv => \A s \in inflight : Deps[s] \cap inflight = {}
  BY DEF IInv, Books
<1>2. IInv => PersonReconciliationAlone
  <2>1. "person-reconciliation" \in Stages
        /\ Deps["person-reconciliation"] = {"artist-genres", "group-members"}
    BY ReloadIsOfStages, Given, RegistryNames, RegistryDeps DEF IsReload, Listed, Registry
  <2>. QED
    BY <1>1, <2>1 DEF PersonReconciliationAlone
<1>3. IInv => VerifyAlone
  <2>1. Deps["verify"] = Stages \ {"verify"}
    BY ReloadIsOfStages, Given, ListedNames, RegistryNames DEF IsReload, Listed, Registry
  <2>. QED
    BY <1>1, <2>1 DEF IInv, TypeOK, VerifyAlone
<1>4. IInv /\ SettledThrough => ReleasesFirst
  <2> SUFFICES ASSUME IInv, SettledThrough, "releases" \in inflight PROVE ReleasesFirst
    BY DEF ReleasesFirst
  <2>1. "releases" \in Stages /\ "releases" \notin settled
    BY DEF IInv, TypeOK, Books
  <2>2. PICK done \in AlreadyDone :
          /\ done \cap Stages \subseteq settled
          /\ {s \in settled : "releases" \in Deps[s]} \subseteq done
    BY <2>1 DEF SettledThrough
  <2>3. ASSUME NEW t \in inflight \ {"releases"}
        PROVE  Through(t) # {} /\ Through(t) \subseteq done
    <3>1. t \in Stages /\ Deps[t] \subseteq settled
      BY <2>3 DEF IInv, TypeOK, Books
    <3>2. "releases" \notin Deps[t]
      BY <2>1, <3>1
    <3>. QED
      BY <2>2, <2>3, <3>1, <3>2, ThroughOthers DEF Through
  <2>. QED
    BY <2>1, <2>2, <2>3 DEF ReleasesFirst
<1>. QED
  BY <1>2, <1>3, <1>4, Inductive, ThroughIsDone, PTL DEF RunAlone

-----------------------------------------------------------------------------
(****************************************************************************)
(* Why the loop ends: it cannot go on without coming nearer to its end,    *)
(* and never waits for nothing.                                            *)
(****************************************************************************)

(* What is still before the loop: the stages that have not settled, the    *)
(* phases left of this round, the places of the priority order left to     *)
(* look at in this scan, and the stages whose run has not ended.           *)
Unsettled == Cardinality(Stages \ settled)
PhasesLeft == IF phase = "scan" THEN 2 ELSE IF phase = "await" THEN 1 ELSE 0
ToLookAt == Len(Order) + 1 - cursor
Running == Cardinality(inflight \ resolved)

(* Each of these is a number that can only fall so often.                  *)
Distances ==
    Unsettled \in Nat /\ PhasesLeft \in Nat /\ ToLookAt \in Nat /\ Running \in Nat

(* A step of the loop or of a run brings the end nearer: the first of the  *)
(* four that it changes it makes smaller. The shutdown signal changes      *)
(* none, and fires once.                                                   *)
Nearer ==
    \/ Unsettled' < Unsettled
    \/ Unsettled' = Unsettled /\ PhasesLeft' < PhasesLeft
    \/ UNCHANGED <<Unsettled, PhasesLeft>> /\ ToLookAt' < ToLookAt
    \/ UNCHANGED <<Unsettled, PhasesLeft, ToLookAt>> /\ Running' < Running
    \/ UNCHANGED <<Unsettled, PhasesLeft, ToLookAt, Running>> /\ ~aborted /\ aborted'

(* The loop waits only for a stage that runs, and leaves only with every   *)
(* stage settled or at a shutdown.                                         *)
WaitsForSomething ==
    /\ phase = "await" => inflight # {}
    /\ phase = "exit" => settled = Stages \/ aborted

(* They are numbers: stages and places are finitely many.                  *)
LEMMA DistancesAreNat == TypeOK => Distances
<1> SUFFICES ASSUME TypeOK PROVE Distances
  OBVIOUS
<1>1. Unsettled \in Nat /\ Running \in Nat
  BY StagesFinite DEF Unsettled, Running, TypeOK
<1>. QED
  BY <1>1, OrderStages DEF Distances, PhasesLeft, ToLookAt, TypeOK

(* What the loop has seen when it leaves, by the reason it gives.          *)
ExitReason ==
    /\ phase = "exit" => exit \in {"all", "aborted", "stuck"}
    /\ exit = "all" => settled = Stages
    /\ exit = "aborted" => aborted

(* The reason it gives is true, and stays so.                              *)
LEMMA ReasonHolds == Safety => []ExitReason
<1>1. Init => ExitReason
  BY DEF Init, ExitReason, RoundPhase, RoundExit
<1>2. ExitReason /\ TypeOK /\ [Next]_vars => ExitReason'
  <2> SUFFICES ASSUME ExitReason, TypeOK, [Next]_vars PROVE ExitReason'
    OBVIOUS
  <2>1. CASE Scan
    BY <2>1 DEF Scan, Launch, PassOver, EndScan, ExitReason, TypeOK
  <2>2. ASSUME NEW s \in Stages, Reap(s) PROVE ExitReason'
    BY <2>2 DEF Reap, ExitReason, RoundPhase, RoundExit
  <2>3. ASSUME NEW s \in Stages, RunSettles(s) PROVE ExitReason'
    BY <2>3 DEF RunSettles, ExitReason
  <2>4. CASE Abort \/ UNCHANGED vars
    BY <2>4 DEF Abort, vars, ExitReason
  <2>. QED
    BY <2>1, <2>2, <2>3, <2>4 DEF Next, ReapSome
<1>. QED
  BY <1>1, <1>2, TypeCorrect, PTL DEF Safety

(* In a valid stage graph every step of scheduleStages brings its end      *)
(* nearer, whatever the stages do and in whatever order they settle; while *)
(* it waits something runs that it waits for; and it ends with every stage *)
(* settled, unless a shutdown ended it. That it does end then needs only   *)
(* that the loop goes on and that each run settles.                        *)
THEOREM ScheduleComesToItsEnd ==
    ASSUME ValidStageGraph(Deps)
    PROVE  Safety => [](Distances /\ WaitsForSomething) /\ [][Nearer]_vars
<1>1. IInv /\ NeverStuck /\ ExitReason => Distances /\ WaitsForSomething
  BY DistancesAreNat DEF IInv, LoopState, NeverStuck, ExitReason, WaitsForSomething
<1>2. IInv /\ Distances' /\ [Next]_vars => [Nearer]_vars
  <2> SUFFICES ASSUME IInv, Next, Distances' PROVE Nearer
    OBVIOUS
  <2>1. Distances /\ Distances' /\ TypeOK
    BY DistancesAreNat DEF IInv
  <2>2. CASE Launch \/ PassOver
    <3>1. UNCHANGED <<Unsettled, PhasesLeft>>
      BY <2>2 DEF Launch, PassOver, Unsettled, PhasesLeft
    <3>2. ToLookAt' < ToLookAt
      BY <2>1, <2>2, OrderStages DEF Launch, PassOver, ToLookAt, TypeOK
    <3>. QED
      BY <3>1, <3>2 DEF Nearer
  <2>3. CASE EndScan
    <3>1. UNCHANGED Unsettled /\ PhasesLeft' < PhasesLeft
      BY <2>3 DEF EndScan, Unsettled, PhasesLeft
    <3>. QED
      BY <3>1 DEF Nearer
  <2>4. ASSUME NEW s \in Stages, RunSettles(s) PROVE Nearer
    <3>1. UNCHANGED <<Unsettled, PhasesLeft, ToLookAt>>
      BY <2>4 DEF RunSettles, Unsettled, PhasesLeft, ToLookAt
    <3>2. /\ s \in inflight \ resolved
          /\ inflight' \ resolved' = (inflight \ resolved) \ {s}
      BY <2>4 DEF RunSettles
    <3>3. IsFiniteSet(inflight \ resolved)
      BY <2>1, StagesFinite DEF TypeOK
    <3>4. Running' = Running - 1
      BY <3>2, <3>3, FS_RemoveElement DEF Running
    <3>. QED
      BY <2>1, <3>1, <3>4 DEF Nearer, Distances
  <2>5. ASSUME NEW s \in Stages, Reap(s) PROVE Nearer
    <3>1. s \in Stages \ settled /\ Stages \ settled' = (Stages \ settled) \ {s}
      BY <2>1, <2>5 DEF Reap, TypeOK, IInv, Books
    <3>2. IsFiniteSet(Stages \ settled)
      BY StagesFinite
    <3>3. Unsettled' = Unsettled - 1
      BY <3>1, <3>2, FS_RemoveElement DEF Unsettled
    <3>. QED
      BY <2>1, <3>3 DEF Nearer, Distances
  <2>6. CASE Abort
    BY <2>6 DEF Abort, Nearer, Unsettled, PhasesLeft, ToLookAt, Running
  <2>. QED
    BY <2>2, <2>3, <2>4, <2>5, <2>6 DEF Next, Scan, ReapSome
<1>. QED
  BY <1>1, <1>2, Inductive, NotStuck, ReasonHolds, PTL DEF Safety

=============================================================================
