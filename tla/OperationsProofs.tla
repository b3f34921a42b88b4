--------------------------- MODULE OperationsProofs ---------------------------
(***************************************************************************)
(* Proofs about what keeps the system running and records what shipped:    *)
(* the power switch, for any number of invocations at a time and of        *)
(* alarms, and the changelog store, for any number of PRs, tags, runs and  *)
(* failures.                                                               *)
(*                                                                         *)
(* The power switch: an alarm that is off over a running node, or that     *)
(* stands in ALARM and nobody was told of it, is some invocation's job, or *)
(* was left so by one that gave up; the invariant names which, by the call *)
(* it is at.  The changelog: until two runs cross, what a run whose reads  *)
(* nobody disturbed has read, worked out or half written back still agrees *)
(* with the releases that are published; and a body keeps its PRs whoever  *)
(* crosses whom.                                                           *)
(***************************************************************************)
EXTENDS InstanceScheduler, ChangelogStore, FiniteSetTheorems, WellFoundedInduction, TLAPS

Places ==
    {"idle", "schedules", "disarming", "stopping", "starting", "handing", "polling", "checking",
     "arming", "paging", "reporting"}

Invocations ==
    [do : {"none", "on", "off", "auto", "start", "stop", "rearm"}, at : Places,
     todo : SUBSET (Alarms \cup Schedules), after : {"end", "raise", "page", "page and raise"},
     tries : 0 .. AsyncRetries, good : BOOLEAN]

(* Which action is at which call, and what it has still to do there.       *)
WellFormed(k) ==
    /\ k.at = "idle" => k = Idle
    /\ k.at = "schedules" => k.do \in {"on", "off", "auto"} /\ k.todo \subseteq Schedules
    /\ k.at \in {"disarming", "stopping"} => k.do \in {"stop", "off"}
    /\ k.at \in {"starting", "handing"} => k.do \in {"start", "on", "auto"}
    /\ k.at \in {"polling", "checking"} => k.do = "rearm"
    /\ k.at \in {"disarming", "polling", "arming"} => k.todo \subseteq Alarms
    /\ k.at = "arming" /\ k.after = "end" => k.do = "rearm"
    /\ k.at = "paging" => k.after \in {"page", "page and raise"}
    /\ k.at \in {"arming", "paging"} /\ k.do \in {"stop", "off"} => k.after = "raise"

TypeOK ==
    /\ instance \in {"running", "stopping", "stopped"}
    /\ alarm \in [Alarms -> {"OK", "ALARM"}]
    /\ armed \in [Alarms -> BOOLEAN]
    /\ schedule \subseteq Schedules
    /\ task \in [Tasks -> Invocations]
    /\ \A t \in Tasks : WellFormed(task[t])
    /\ faults \in 0 .. MaxFaults
    /\ told \in [Alarms -> BOOLEAN]
    /\ calm \in {"no", "stopping", "asleep"}
    /\ forsaken \subseteq Alarms /\ unheard \subseteq Alarms

(* It will stop the node, or arm the alarm.                                *)
Watches(k, a) ==
    \/ k.at \in {"disarming", "stopping", "starting", "handing", "polling", "checking"}
    \/ k.at = "arming" /\ a \in k.todo

(* It will find the alarm OK, or page.                                     *)
Owes(k, a) ==
    \/ k.at \in {"starting", "handing", "checking"}
    \/ k.at = "polling" /\ (a \in k.todo \/ ~k.good)
    \/ k.at \in {"arming", "paging"} /\ k.after \in {"page", "page and raise"}

Watched ==
    instance = "running" =>
        \A a \in Alarms : ~armed[a] /\ a \notin forsaken => \E t \in Tasks : Watches(task[t], a)

Owed ==
    instance = "running" =>
        \A a \in Alarms : alarm[a] = "ALARM" /\ ~told[a] /\ a \notin unheard
                          => \E t \in Tasks : Owes(task[t], a)

(* While a stop is calm it is the only invocation, and the alarms it has   *)
(* got to are off; once it has put the node to sleep, all are.             *)
CalmAlone ==
    calm # "no" => \A t \in Tasks : task[t] # Idle =>
        /\ \A u \in Tasks \ {t} : task[u] = Idle
        /\ task[t].do \in {"stop", "off"}
        /\ task[t].at \in {"schedules", "disarming", "stopping", "reporting"}
        /\ task[t].at = "disarming" => \A a \in Alarms \ task[t].todo : ~armed[a]
        /\ task[t].at = "stopping" => \A a \in Alarms : ~armed[a]

CalmAsleep == calm = "asleep" => \A a \in Alarms : ~armed[a]

IInv == TypeOK /\ CalmAlone /\ CalmAsleep /\ Watched /\ Owed

-----------------------------------------------------------------------------
(* What an action begins with.                                             *)
LEMMA Begun ==
    ASSUME NEW do \in {"on", "off", "auto", "start", "stop", "rearm"},
           NEW tries \in 0 .. AsyncRetries, NEW k, k = Begin(do, tries)
    PROVE  /\ k \in Invocations /\ WellFormed(k)
           /\ k.do = do /\ k.tries = tries
           /\ k.at \in {"schedules", "starting", "disarming", "polling"}
           /\ k.at = "starting" => do = "start"
           /\ k.at = "disarming" => do = "stop"
           /\ k.at = "polling" => do = "rearm"
           /\ do = "stop" => k.at = "disarming" /\ k.todo = Alarms
           /\ do = "rearm" => k.at = "polling" /\ k.todo = Alarms
<1>1. /\ k.do = do /\ k.tries = tries /\ k.after = "end" /\ k.good \in BOOLEAN
      /\ DOMAIN k = {"do", "at", "todo", "after", "tries", "good"}
  BY DEF Begin
<1>2. /\ do \in {"on", "off", "auto"} => k.at = "schedules" /\ k.todo = Schedules
      /\ do = "start" => k.at = "starting" /\ k.todo = {}
      /\ do = "stop" => k.at = "disarming" /\ k.todo = Alarms
      /\ do = "rearm" => k.at = "polling" /\ k.todo = Alarms
  <2>1. CASE do \in {"on", "off", "auto"}
    BY <2>1 DEF Begin
  <2>2. CASE do = "start"
    BY <2>2 DEF Begin
  <2>3. CASE do = "stop"
    BY <2>3 DEF Begin
  <2>4. CASE do = "rearm"
    BY <2>4 DEF Begin
  <2>. QED
    BY <2>1, <2>2, <2>3, <2>4
<1>3. k = [do |-> k.do, at |-> k.at, todo |-> k.todo, after |-> k.after, tries |-> k.tries,
           good |-> k.good]
  BY DEF Begin
<1>4. k.at \in Places /\ k.todo \in SUBSET (Alarms \cup Schedules)
  BY <1>2 DEF Places
<1>5. k \in Invocations
  BY <1>1, <1>3, <1>4 DEF Invocations
<1>6. WellFormed(k)
  BY <1>1, <1>2 DEF WellFormed
<1>. QED
  BY <1>1, <1>2, <1>5, <1>6

(* No invocation.                                                          *)
LEMMA IdleKinds ==
    /\ Idle \in Invocations /\ WellFormed(Idle) /\ Idle.do = "none" /\ Idle.at = "idle"
    /\ \A a : ~Watches(Idle, a) /\ ~Owes(Idle, a)
  BY InstanceSchedulerAssumption
     DEF Idle, Invocations, WellFormed, Places, Watches, Owes, InstanceSchedulerAssumption

(* What the fields of an invocation are.                                   *)
LEMMA Fields ==
    ASSUME NEW k \in Invocations
    PROVE  /\ k.do \in {"none", "on", "off", "auto", "start", "stop", "rearm"}
           /\ k.at \in Places /\ k.todo \subseteq Alarms \cup Schedules
           /\ k.after \in {"end", "raise", "page", "page and raise"}
           /\ k.tries \in 0 .. AsyncRetries /\ k.good \in BOOLEAN
<1>1. k.tries \in 0 .. AsyncRetries
  BY DEF Invocations
<1>2. k.do \in {"none", "on", "off", "auto", "start", "stop", "rearm"} /\ k.at \in Places
  BY DEF Invocations
<1>3. k.todo \subseteq Alarms \cup Schedules
  BY DEF Invocations
<1>4. k.after \in {"end", "raise", "page", "page and raise"} /\ k.good \in BOOLEAN
  BY DEF Invocations
<1>. QED
  BY <1>1, <1>2, <1>3, <1>4

(* One that raises is over, or begins again.                               *)
LEMMA RaisedKinds ==
    ASSUME TypeOK, NEW t \in Tasks, NEW k, k = Raised(t)
    PROVE  /\ k \in Invocations /\ WellFormed(k)
           /\ \/ k = Idle /\ ~(task[t].do \in Retried /\ task[t].tries < AsyncRetries)
              \/ /\ task[t].do \in Retried /\ task[t].tries < AsyncRetries
                 /\ k.do = task[t].do /\ k.tries = task[t].tries + 1
                 /\ k.at \in {"starting", "disarming", "polling"}
                 /\ k.do = "start" => k.at = "starting"
                 /\ k.do = "stop" => k.at = "disarming" /\ k.todo = Alarms
                 /\ k.do = "rearm" => k.at = "polling" /\ k.todo = Alarms
<1> DEFINE d == task[t].do
           n == task[t].tries
<1>1. /\ d \in {"none", "on", "off", "auto", "start", "stop", "rearm"} /\ n \in 0 .. AsyncRetries
      /\ k = IF d \in Retried /\ n < AsyncRetries THEN Begin(d, n + 1) ELSE Idle
  <2>1. task[t] \in Invocations
    BY DEF TypeOK
  <2>. QED
    BY <2>1, Fields DEF Raised
<1> HIDE DEF d, n
<1>2. CASE d \in Retried /\ n < AsyncRetries
  <2>1. d \in {"start", "stop", "rearm"} /\ n + 1 \in 0 .. AsyncRetries
    BY <1>1, <1>2, InstanceSchedulerAssumption DEF Retried, InstanceSchedulerAssumption
  <2>2. k = Begin(d, n + 1)
    BY <1>1, <1>2
  <2>3. /\ k \in Invocations /\ WellFormed(k) /\ k.do = d /\ k.tries = n + 1
        /\ k.at \in {"schedules", "starting", "disarming", "polling"}
        /\ d = "stop" => k.at = "disarming" /\ k.todo = Alarms
        /\ d = "rearm" => k.at = "polling" /\ k.todo = Alarms
    BY <2>1, <2>2, Begun
  <2>4. k.at # "schedules"
    BY <2>1, <2>3 DEF WellFormed
  <2>. QED
    BY <1>2, <2>1, <2>3, <2>4 DEF d, n, WellFormed
<1>3. CASE ~(d \in Retried /\ n < AsyncRetries)
  <2>1. k = Idle
    BY <1>1, <1>3
  <2>. QED
    BY <1>3, <2>1, IdleKinds DEF d, n
<1>. QED
  BY <1>2, <1>3

(* One that raises and does not give up watches every alarm again, and a   *)
(* start or a rearm owes again what it owed.                               *)
LEMMA RaisedAgain ==
    ASSUME TypeOK, NEW t \in Tasks, NEW k, k = Raised(t), ~GivesUp(t)
    PROVE  \A a \in Alarms :
             Watches(k, a) /\ (task[t].do \notin {"stop", "off"} => Owes(k, a))
<1>1. k # Idle
  BY DEF GivesUp
<1>2. /\ k.do = task[t].do /\ k.do \in {"start", "stop", "rearm"}
      /\ k.at \in {"starting", "disarming", "polling"}
      /\ k.do = "start" => k.at = "starting"
      /\ k.do = "rearm" => k.at = "polling" /\ k.todo = Alarms
  BY <1>1, RaisedKinds DEF Retried
<1>. QED
  BY <1>2 DEF Watches, Owes

-----------------------------------------------------------------------------
(* A step that changes one invocation: whoever watched or owed still does, *)
(* or there is nothing left to watch or to tell; and what the step unarms  *)
(* or starts is its own to watch.                                          *)
Kept(t, k) ==
    \A a \in Alarms :
        /\ Watches(task[t], a) =>
             Watches(k, a) \/ armed'[a] \/ a \in forsaken' \/ instance' # "running"
        /\ Owes(task[t], a) =>
             \/ Owes(k, a) \/ told'[a] \/ a \in unheard'
             \/ alarm[a] = "OK" \/ instance' # "running"
        /\ armed[a] => armed'[a] \/ Watches(k, a)
        /\ told[a] => told'[a]
        /\ a \in forsaken => a \in forsaken' \/ armed'[a] \/ Watches(k, a)
        /\ a \in unheard => a \in unheard' \/ told'[a] \/ Owes(k, a) \/ alarm[a] = "OK"
        /\ instance' = "running" =>
             instance = "running" \/ (Watches(k, a) /\ Owes(k, a))

Hands(t, k) ==
    /\ task' = [task EXCEPT ![t] = k]
    /\ k \in Invocations /\ WellFormed(k)
    /\ faults' \in 0 .. MaxFaults
    /\ alarm' = alarm
    /\ Kept(t, k)

(* Such a step keeps the invariant.                                        *)
LEMMA HandsKeeps ==
    ASSUME TypeOK, NEW t \in Tasks, NEW k, Hands(t, k)
    PROVE  /\ task' \in [Tasks -> Invocations] /\ \A u \in Tasks : WellFormed(task'[u])
           /\ faults' \in 0 .. MaxFaults
           /\ Watched => Watched'
           /\ Owed => Owed'
<1>1. /\ task'[t] = k /\ \A u \in Tasks \ {t} : task'[u] = task[u]
      /\ task' \in [Tasks -> Invocations]
  BY DEF Hands, TypeOK
<1>2. \A u \in Tasks : WellFormed(task'[u])
  BY <1>1 DEF Hands, TypeOK
<1>3. ASSUME Watched, instance' = "running", NEW a \in Alarms, ~armed'[a], a \notin forsaken'
      PROVE  \E u \in Tasks : Watches(task'[u], a)
  <2>1. CASE Watches(k, a)
    BY <1>1, <2>1
  <2>2. CASE ~Watches(k, a)
    <3>1. ~armed[a] /\ a \notin forsaken /\ instance = "running"
      BY <1>3, <2>2 DEF Hands, Kept
    <3>2. PICK u \in Tasks : Watches(task[u], a)
      BY <1>3, <3>1 DEF Watched
    <3>3. u # t
      BY <1>3, <2>2, <3>2 DEF Hands, Kept
    <3>. QED
      BY <1>1, <3>2, <3>3
  <2>. QED
    BY <2>1, <2>2
<1>4. ASSUME Owed, instance' = "running",
             NEW a \in Alarms, alarm'[a] = "ALARM", ~told'[a], a \notin unheard'
      PROVE  \E u \in Tasks : Owes(task'[u], a)
  <2>1. CASE Owes(k, a)
    BY <1>1, <2>1
  <2>2. CASE ~Owes(k, a)
    <3>1. ~told[a] /\ a \notin unheard /\ alarm[a] = "ALARM" /\ instance = "running"
      BY <1>4, <2>2 DEF Hands, Kept
    <3>2. PICK u \in Tasks : Owes(task[u], a)
      BY <1>4, <3>1 DEF Owed
    <3>3. u # t
      BY <1>4, <2>2, <3>1, <3>2 DEF Hands, Kept
    <3>. QED
      BY <1>1, <3>2, <3>3
  <2>. QED
    BY <2>1, <2>2
<1>5. Watched => Watched'
  BY <1>3 DEF Watched
<1>6. Owed => Owed'
  BY <1>4 DEF Owed
<1>7. faults' \in 0 .. MaxFaults
  BY DEF Hands
<1>. QED
  BY <1>1, <1>2, <1>5, <1>6, <1>7

-----------------------------------------------------------------------------
(* An invocation that goes on to another call.                             *)
LEMMA StepTo ==
    ASSUME TypeOK, NEW t \in Tasks, NEW at \in Places,
           NEW todo \in SUBSET (Alarms \cup Schedules), Step(t, at, todo)
    PROVE  \E k \in Invocations :
             /\ task' = [task EXCEPT ![t] = k]
             /\ k.do = task[t].do /\ k.at = at /\ k.todo = todo
             /\ k.after = task[t].after /\ k.tries = task[t].tries
<1> DEFINE k == [task[t] EXCEPT !.at = at, !.todo = todo]
<1>1. task[t] \in Invocations /\ task' = [task EXCEPT ![t] = k]
  BY DEF TypeOK, Step, Put
<1>2. /\ k \in Invocations
      /\ k.do = task[t].do /\ k.at = at /\ k.todo = todo
      /\ k.after = task[t].after /\ k.tries = task[t].tries
  BY <1>1 DEF Invocations
<1> HIDE DEF k
<1>. QED
  BY <1>1, <1>2

(* One that turns to arming the alarms.                                    *)
LEMMA ArmingTo ==
    ASSUME TypeOK, NEW t \in Tasks, NEW after \in {"end", "raise", "page", "page and raise"},
           ToArming(t, after)
    PROVE  \E k \in Invocations :
             /\ task' = [task EXCEPT ![t] = k]
             /\ k.do = task[t].do /\ k.at = "arming" /\ k.todo = Alarms
             /\ k.after = after /\ k.tries = task[t].tries
<1> DEFINE k == [task[t] EXCEPT !.at = "arming", !.todo = Alarms, !.after = after]
<1>1. task[t] \in Invocations /\ task' = [task EXCEPT ![t] = k]
  BY DEF TypeOK, ToArming, Put
<1>2. /\ k \in Invocations
      /\ k.do = task[t].do /\ k.at = "arming" /\ k.todo = Alarms
      /\ k.after = after /\ k.tries = task[t].tries
  BY <1>1 DEF Invocations, Places
<1> HIDE DEF k
<1>. QED
  BY <1>1, <1>2

(* What is known of an invocation, field by field.                         *)
LEMMA Known ==
    ASSUME TypeOK, NEW t \in Tasks
    PROVE  /\ task[t] \in Invocations /\ WellFormed(task[t])
           /\ task[t].tries \in 0 .. AsyncRetries
           /\ task[t].after \in {"end", "raise", "page", "page and raise"}
           /\ task[t].todo \subseteq Alarms \cup Schedules
  BY Fields DEF TypeOK

(* The number of faults as it was, or one more.                            *)
LEMMA FaultsKept ==
    ASSUME TypeOK, faults' = faults \/ Fails
    PROVE  faults' \in 0 .. MaxFaults
  BY InstanceSchedulerAssumption DEF TypeOK, Fails, InstanceSchedulerAssumption

(* An invocation that raises.                                              *)
LEMMA RaisedHands ==
    ASSUME TypeOK, NEW t \in Tasks, Put(t, Raised(t)), alarm' = alarm,
           faults' = faults \/ Fails,
           \A k : k = Raised(t) => Kept(t, k)
    PROVE  \E k : Hands(t, k)
<1>1. PICK k : k = Raised(t)
  OBVIOUS
<1>2. k \in Invocations /\ WellFormed(k)
  BY <1>1, RaisedKinds
<1>3. task' = [task EXCEPT ![t] = k] /\ Kept(t, k)
  BY <1>1 DEF Put
<1>. QED
  BY <1>2, <1>3, FaultsKept DEF Hands

(* One that raises and leaves everything else alone: it tries again, or    *)
(* what it watched and owed is left to nobody.                             *)
LEMMA GivesUpKept ==
    ASSUME TypeOK, NEW t \in Tasks, NEW k, k = Raised(t),
           UNCHANGED <<instance, alarm, armed, told>>,
           LeavesUnarmed(t) \/ (UNCHANGED forsaken /\ \A a \in Alarms : ~Watches(task[t], a)),
           LeavesUntold(t) \/ (UNCHANGED unheard /\ \A a \in Alarms : ~Owes(task[t], a)),
           task[t].do \in {"stop", "off"} => \A a \in Alarms : ~Owes(task[t], a)
    PROVE  Kept(t, k)
<1>1. \A a \in Alarms : armed[a] \in BOOLEAN /\ told[a] \in BOOLEAN /\ alarm[a] \in {"OK", "ALARM"}
  BY DEF TypeOK
<1>2. \A a \in Alarms : /\ a \in forsaken => a \in forsaken'
                        /\ a \in unheard => a \in unheard'
  BY DEF LeavesUnarmed, LeavesUntold
<1>3. CASE GivesUp(t)
  <2>1. \A a \in Alarms : Watches(task[t], a) => armed'[a] \/ a \in forsaken'
    BY <1>1, <1>3 DEF LeavesUnarmed
  <2>2. \A a \in Alarms : Owes(task[t], a) => told'[a] \/ alarm[a] = "OK" \/ a \in unheard'
    BY <1>1, <1>3 DEF LeavesUntold
  <2>. QED
    BY <1>2, <2>1, <2>2 DEF Kept
<1>4. CASE ~GivesUp(t)
  <2>1. \A a \in Alarms : Watches(k, a) /\ (task[t].do \notin {"stop", "off"} => Owes(k, a))
    BY <1>4, RaisedAgain
  <2>. QED
    BY <1>2, <2>1 DEF Kept
<1>. QED
  BY <1>3, <1>4

(* An invocation that turns to arming the alarms: it watches them all, and *)
(* if it owed, it will page.                                               *)
LEMMA ArmingHands ==
    ASSUME TypeOK, NEW t \in Tasks,
           NEW after \in {"end", "raise", "page", "page and raise"}, ToArming(t, after),
           instance' = instance, alarm' = alarm, armed' = armed, told' = told,
           UNCHANGED exceptions, faults' = faults \/ Fails,
           after = "end" => task[t].do = "rearm",
           task[t].do \in {"stop", "off"} => after = "raise",
           \/ after \in {"page", "page and raise"}
           \/ \A a \in Alarms : ~Owes(task[t], a)
    PROVE  \E k : Hands(t, k)
<1>1. PICK k \in Invocations :
        /\ task' = [task EXCEPT ![t] = k]
        /\ k.do = task[t].do /\ k.at = "arming" /\ k.todo = Alarms
        /\ k.after = after /\ k.tries = task[t].tries
  BY ArmingTo
<1>2. WellFormed(k)
  BY <1>1 DEF WellFormed
<1>3. Kept(t, k)
  <2>1. \A a \in Alarms : /\ Watches(k, a)
                          /\ after \in {"page", "page and raise"} => Owes(k, a)
    BY <1>1 DEF Watches, Owes
  <2>. QED
    BY <2>1 DEF Kept, exceptions
<1>. QED
  BY <1>1, <1>2, <1>3, FaultsKept DEF Hands

-----------------------------------------------------------------------------
(* The calls of on, off and auto to EventBridge.                           *)
LEMMA SetScheduleHands ==
    ASSUME TypeOK, NEW t \in Tasks, SetSchedule(t)
    PROVE  \E k : Hands(t, k)
<1>1. PICK s \in task[t].todo :
        /\ task[t].at = "schedules"
        /\ IF task[t].todo # {s} THEN Step(t, "schedules", task[t].todo \ {s})
           ELSE IF task[t].do = "off" THEN Step(t, "disarming", Alarms)
           ELSE Step(t, "starting", {})
        /\ UNCHANGED <<instance, alarm, armed, faults, history>>
  BY DEF SetSchedule
<1>2. /\ WellFormed(task[t]) /\ task[t].do \in {"on", "off", "auto"}
      /\ task[t].todo \subseteq Schedules
  BY <1>1, Known DEF WellFormed
<1>3. PICK k : /\ task' = [task EXCEPT ![t] = k] /\ k \in Invocations
               /\ k.do = task[t].do /\ k.tries = task[t].tries
               /\ \/ k.at = "schedules" /\ k.todo \subseteq Schedules
                  \/ k.at = "disarming" /\ k.todo = Alarms /\ k.do = "off"
                  \/ k.at = "starting" /\ k.do # "off"
  <2>0. /\ {"schedules", "disarming", "starting"} \subseteq Places
        /\ {task[t].todo \ {s}, Alarms, {}} \subseteq SUBSET (Alarms \cup Schedules)
    BY <1>2 DEF Places
  <2>1. CASE Step(t, "schedules", task[t].todo \ {s})
    BY <1>2, <2>0, <2>1, StepTo
  <2>2. CASE task[t].do = "off" /\ Step(t, "disarming", Alarms)
    BY <2>0, <2>2, StepTo
  <2>3. CASE task[t].do # "off" /\ Step(t, "starting", {})
    BY <2>0, <2>3, StepTo
  <2>. QED
    BY <1>1, <2>1, <2>2, <2>3
<1>4. WellFormed(k)
  BY <1>2, <1>3 DEF WellFormed
<1>5. faults' \in 0 .. MaxFaults
  BY <1>1, FaultsKept
<1>6. Kept(t, k)
  BY <1>1 DEF Kept, Watches, Owes, history, exceptions
<1>. QED
  BY <1>1, <1>3, <1>4, <1>5, <1>6 DEF Hands

(* One of them fails: the operator is told, nobody retries.                *)
LEMMA ScheduleFailsHands ==
    ASSUME TypeOK, NEW t \in Tasks, ScheduleFails(t)
    PROVE  \E k : Hands(t, k)
<1>1. task[t].at = "schedules" /\ Fails /\ UNCHANGED aws
  BY DEF ScheduleFails
<1>2. task' = [task EXCEPT ![t] = Idle] /\ UNCHANGED history
  BY DEF ScheduleFails, Put
<1>3. faults' \in 0 .. MaxFaults
  BY <1>1, FaultsKept
<1>4. Kept(t, Idle)
  BY <1>1, <1>2 DEF Kept, Watches, Owes, aws, history, exceptions
<1>. QED
  BY <1>1, <1>2, <1>3, <1>4, IdleKinds DEF Hands, aws

(* The calls of stop and off to the alarms, and to EC2.                    *)
LEMMA DisarmHands ==
    ASSUME TypeOK, NEW t \in Tasks, Disarm(t)
    PROVE  \E k : Hands(t, k)
<1>1. PICK a \in task[t].todo :
        /\ task[t].at = "disarming"
        /\ armed' = [armed EXCEPT ![a] = FALSE]
        /\ IF task[t].todo # {a} THEN Step(t, "disarming", task[t].todo \ {a})
           ELSE Step(t, "stopping", {})
        /\ UNCHANGED <<instance, alarm, schedule, faults, history>>
  BY DEF Disarm
<1>2. WellFormed(task[t]) /\ task[t].do \in {"stop", "off"} /\ task[t].todo \subseteq Alarms
  BY <1>1, Known DEF WellFormed
<1>3. PICK k \in Invocations :
        /\ task' = [task EXCEPT ![t] = k]
        /\ k.do = task[t].do /\ k.tries = task[t].tries
        /\ k.at \in {"disarming", "stopping"} /\ k.todo \subseteq Alarms
  <2>0. /\ {"disarming", "stopping"} \subseteq Places
        /\ {task[t].todo \ {a}, {}} \subseteq SUBSET (Alarms \cup Schedules)
    BY <1>2 DEF Places
  <2>1. CASE Step(t, "disarming", task[t].todo \ {a})
    BY <1>2, <2>0, <2>1, StepTo
  <2>2. CASE Step(t, "stopping", {})
    BY <2>0, <2>2, StepTo
  <2>. QED
    BY <1>1, <2>1, <2>2
<1>4. WellFormed(k)
  BY <1>2, <1>3 DEF WellFormed
<1>5. faults' \in 0 .. MaxFaults
  BY <1>1, FaultsKept
<1>6. Kept(t, k)
  <2>1. \A b \in Alarms : Watches(k, b) /\ ~Owes(task[t], b)
    BY <1>1, <1>3 DEF Watches, Owes
  <2>. QED
    BY <1>1, <2>1 DEF Kept, history, exceptions
<1>. QED
  BY <1>1, <1>3, <1>4, <1>5, <1>6 DEF Hands

(* A stop that could not suppress the alarms is retried.                   *)
LEMMA DisarmFailsHands ==
    ASSUME TypeOK, NEW t \in Tasks, DisarmFails(t)
    PROVE  \E k : Hands(t, k)
<1>1. /\ task[t].at = "disarming" /\ Fails /\ Put(t, Raised(t)) /\ LeavesUnarmed(t)
      /\ UNCHANGED aws /\ told' = told /\ unheard' = unheard
  BY DEF DisarmFails
<1>2. \A a \in Alarms : ~Owes(task[t], a)
  BY <1>1 DEF Owes
<1>3. \A k : k = Raised(t) => Kept(t, k)
  BY <1>1, <1>2, GivesUpKept DEF aws
<1>. QED
  BY <1>1, <1>3, RaisedHands DEF aws

(* A node that is told to stop needs no alarm any more.                    *)
LEMMA StopCallHands ==
    ASSUME TypeOK, NEW t \in Tasks, StopCall(t)
    PROVE  \E k : Hands(t, k)
<1>1. /\ instance' = IF instance = "running" THEN "stopping" ELSE instance
      /\ Step(t, "reporting", {})
      /\ UNCHANGED <<alarm, armed, schedule, faults, told>> /\ UNCHANGED exceptions
  BY DEF StopCall
<1>2. PICK k \in Invocations :
        /\ task' = [task EXCEPT ![t] = k]
        /\ k.do = task[t].do /\ k.tries = task[t].tries /\ k.at = "reporting"
  <2>1. "reporting" \in Places /\ {} \in SUBSET (Alarms \cup Schedules)
    BY DEF Places
  <2>. QED
    BY <1>1, <2>1, StepTo
<1>3. WellFormed(k)
  BY <1>2 DEF WellFormed
<1>4. faults' \in 0 .. MaxFaults
  BY <1>1, FaultsKept
<1>5. Kept(t, k)
  <2>1. instance' # "running"
    BY <1>1
  <2>. QED
    BY <1>1, <2>1 DEF Kept, exceptions
<1>. QED
  BY <1>1, <1>2, <1>3, <1>4, <1>5 DEF Hands

(* One that could not be stopped gets its alarms back.                     *)
LEMMA StopFailsHands ==
    ASSUME TypeOK, NEW t \in Tasks, StopFails(t)
    PROVE  \E k : Hands(t, k)
<1>1. /\ task[t].at = "stopping" /\ Fails /\ ToArming(t, "raise")
      /\ UNCHANGED aws /\ told' = told /\ UNCHANGED exceptions
  BY DEF StopFails
<1>2. \A a \in Alarms : ~Owes(task[t], a)
  BY <1>1 DEF Owes
<1>. QED
  BY <1>1, <1>2, ArmingHands DEF aws

-----------------------------------------------------------------------------
(* A node that starts has its alarms watched by the one who started it.    *)
LEMMA StartCallHands ==
    ASSUME TypeOK, NEW t \in Tasks, StartCall(t)
    PROVE  \E k : Hands(t, k)
<1>1. /\ task[t].at = "starting" /\ instance' = "running" /\ Step(t, "handing", {})
      /\ UNCHANGED <<alarm, armed, schedule, faults, told, calm, unheard>>
  BY DEF StartCall
<1>2. WellFormed(task[t]) /\ task[t].do \in {"start", "on", "auto"}
  BY <1>1, Known DEF WellFormed
<1>3. PICK k \in Invocations :
        /\ task' = [task EXCEPT ![t] = k]
        /\ k.do = task[t].do /\ k.tries = task[t].tries /\ k.at = "handing"
  <2>1. "handing" \in Places /\ {} \in SUBSET (Alarms \cup Schedules)
    BY DEF Places
  <2>. QED
    BY <1>1, <2>1, StepTo
<1>4. WellFormed(k)
  BY <1>2, <1>3 DEF WellFormed
<1>5. faults' \in 0 .. MaxFaults
  BY <1>1, FaultsKept
<1>6. Kept(t, k)
  <2>1. \A a \in Alarms : Watches(k, a) /\ Owes(k, a)
    BY <1>3 DEF Watches, Owes
  <2>. QED
    BY <1>1, <2>1 DEF Kept
<1>. QED
  BY <1>1, <1>3, <1>4, <1>5, <1>6 DEF Hands

(* A start that fails arms the alarms and pages.                           *)
LEMMA StartFailsHands ==
    ASSUME TypeOK, NEW t \in Tasks, StartFails(t)
    PROVE  \E k : Hands(t, k)
<1>1. /\ task[t].at = "starting" /\ ToArming(t, "page and raise")
      /\ faults' = faults \/ Fails
      /\ UNCHANGED aws /\ told' = told /\ UNCHANGED exceptions
  BY DEF StartFails, history
<1>2. task[t].do \notin {"stop", "off", "rearm"}
  BY <1>1, Known DEF WellFormed
<1>. QED
  BY <1>1, <1>2, ArmingHands DEF aws

(* A hand-off that fails: the starter arms and pages itself.               *)
LEMMA HandOffFailsHands ==
    ASSUME TypeOK, NEW t \in Tasks, HandOffFails(t)
    PROVE  \E k : Hands(t, k)
<1>1. /\ task[t].at = "handing" /\ Fails /\ ToArming(t, "page and raise")
      /\ UNCHANGED aws /\ told' = told /\ UNCHANGED exceptions
  BY DEF HandOffFails, history
<1>2. task[t].do \notin {"stop", "off", "rearm"}
  BY <1>1, Known DEF WellFormed
<1>. QED
  BY <1>1, <1>2, ArmingHands DEF aws

-----------------------------------------------------------------------------
(* The polls of a rearm: an alarm that was OK is told of no more.          *)
LEMMA PollAlarmHands ==
    ASSUME TypeOK, NEW t \in Tasks, PollAlarm(t)
    PROVE  \E k : Hands(t, k)
<1>1. PICK a \in task[t].todo :
        /\ task[t].at = "polling"
        /\ Put(t, [task[t] EXCEPT !.todo = @ \ {a}, !.good = @ /\ alarm[a] = "OK"])
        /\ unheard' = unheard \ {a}
        /\ UNCHANGED <<aws, faults, told, calm, forsaken>>
  BY DEF PollAlarm
<1> DEFINE k == [task[t] EXCEPT !.todo = @ \ {a}, !.good = @ /\ alarm[a] = "OK"]
<1>2. task[t] \in Invocations /\ WellFormed(task[t]) /\ task' = [task EXCEPT ![t] = k]
  BY <1>1, Known DEF Put
<1>3. /\ k \in Invocations
      /\ k.do = task[t].do /\ k.tries = task[t].tries /\ k.at = "polling"
      /\ k.todo = task[t].todo \ {a}
  BY <1>1, <1>2 DEF Invocations
<1>4. k.good => task[t].good /\ alarm[a] = "OK"
  BY <1>2 DEF Invocations
<1> HIDE DEF k
<1>5. WellFormed(k)
  BY <1>1, <1>2, <1>3 DEF WellFormed
<1>6. faults' \in 0 .. MaxFaults
  BY <1>1, FaultsKept
<1>7. Kept(t, k)
  <2>1. \A b \in Alarms : Watches(k, b)
    BY <1>3 DEF Watches
  <2>2. \A b \in Alarms : Owes(task[t], b) => Owes(k, b) \/ alarm[b] = "OK"
    BY <1>1, <1>3, <1>4 DEF Owes
  <2>3. \A b \in Alarms : b \in unheard => b \in unheard' \/ Owes(k, b) \/ alarm[b] = "OK"
    BY <1>1, <1>3, <1>4 DEF Owes
  <2>. QED
    BY <1>1, <2>1, <2>2, <2>3 DEF Kept, aws
<1>. QED
  BY <1>1, <1>2, <1>3, <1>5, <1>6, <1>7 DEF Hands, aws

(* A poll that fails: the rearm arms all the same, and pages.              *)
LEMMA PollFailsHands ==
    ASSUME TypeOK, NEW t \in Tasks, PollFails(t)
    PROVE  \E k : Hands(t, k)
<1>1. /\ task[t].at = "polling" /\ Fails /\ ToArming(t, "page and raise")
      /\ UNCHANGED aws /\ told' = told /\ UNCHANGED exceptions
  BY DEF PollFails, history
<1>2. task[t].do = "rearm"
  BY <1>1, Known DEF WellFormed
<1>. QED
  BY <1>1, <1>2, ArmingHands DEF aws

(* The end of a pass over the alarms: arm, poll again, or look whether the *)
(* node still runs.                                                        *)
LEMMA PollDoneHands ==
    ASSUME TypeOK, NEW t \in Tasks, PollDone(t)
    PROVE  \E k : Hands(t, k)
<1>1. /\ task[t].at = "polling" /\ task[t].todo = {}
      /\ \/ task[t].good /\ ToArming(t, "end")
         \/ ~task[t].good /\ Put(t, Begin("rearm", task[t].tries))
         \/ ~task[t].good /\ Step(t, "checking", {})
      /\ UNCHANGED aws /\ faults' = faults /\ told' = told /\ UNCHANGED exceptions
  BY DEF PollDone, history
<1>2. WellFormed(task[t]) /\ task[t].do = "rearm" /\ task[t].tries \in 0 .. AsyncRetries
  BY <1>1, Known DEF WellFormed
<1>3. faults' \in 0 .. MaxFaults
  BY <1>1, FaultsKept
<1>4. CASE task[t].good /\ ToArming(t, "end")
  <2>1. \A a \in Alarms : ~Owes(task[t], a)
    BY <1>1, <1>4 DEF Owes
  <2>. QED
    BY <1>1, <1>2, <1>4, <2>1, ArmingHands DEF aws
<1>5. CASE Put(t, Begin("rearm", task[t].tries))
  <2>1. PICK k : k = Begin("rearm", task[t].tries)
    OBVIOUS
  <2>2. k \in Invocations /\ WellFormed(k) /\ k.at = "polling" /\ k.todo = Alarms
    BY <1>2, <2>1, Begun
  <2>3. Kept(t, k)
    BY <1>1, <2>2 DEF Kept, Watches, Owes, aws, exceptions
  <2>. QED
    BY <1>1, <1>3, <1>5, <2>1, <2>2, <2>3 DEF Hands, Put, aws
<1>6. CASE Step(t, "checking", {})
  <2>1. "checking" \in Places /\ {} \in SUBSET (Alarms \cup Schedules)
    BY DEF Places
  <2>2. PICK k \in Invocations :
          /\ task' = [task EXCEPT ![t] = k]
          /\ k.do = task[t].do /\ k.at = "checking"
    BY <1>6, <2>1, StepTo
  <2>3. WellFormed(k)
    BY <1>2, <2>2 DEF WellFormed
  <2>4. Kept(t, k)
    BY <1>1, <2>2 DEF Kept, Watches, Owes, aws, exceptions
  <2>. QED
    BY <1>1, <1>3, <2>2, <2>3, <2>4 DEF Hands, aws
<1>. QED
  BY <1>1, <1>4, <1>5, <1>6

(* The deadline: a node that runs is armed and paged about; one that does  *)
(* not is left alone.                                                      *)
LEMMA CheckInstanceHands ==
    ASSUME TypeOK, NEW t \in Tasks, CheckInstance(t)
    PROVE  \E k : Hands(t, k)
<1>1. /\ task[t].at = "checking"
      /\ IF instance = "running" THEN ToArming(t, "page") ELSE Step(t, "reporting", {})
      /\ UNCHANGED aws /\ faults' = faults /\ told' = told /\ UNCHANGED exceptions
  BY DEF CheckInstance, history
<1>2. WellFormed(task[t]) /\ task[t].do = "rearm"
  BY <1>1, Known DEF WellFormed
<1>3. faults' \in 0 .. MaxFaults
  BY <1>1, FaultsKept
<1>4. CASE instance = "running"
  <2>1. ToArming(t, "page")
    BY <1>1, <1>4
  <2>. QED
    BY <1>1, <1>2, <2>1, ArmingHands DEF aws
<1>5. CASE instance # "running"
  <2>1. "reporting" \in Places /\ {} \in SUBSET (Alarms \cup Schedules)
    BY DEF Places
  <2>2. PICK k \in Invocations :
          /\ task' = [task EXCEPT ![t] = k]
          /\ k.do = task[t].do /\ k.at = "reporting"
    BY <1>1, <1>5, <2>1, StepTo
  <2>3. WellFormed(k)
    BY <1>2, <2>2 DEF WellFormed
  <2>4. Kept(t, k)
    BY <1>1, <1>5 DEF Kept, aws, exceptions
  <2>. QED
    BY <1>1, <1>3, <2>2, <2>3, <2>4 DEF Hands, aws
<1>. QED
  BY <1>4, <1>5

(* A rearm that cannot tell is retried from the start, or gives up.        *)
LEMMA CheckFailsHands ==
    ASSUME TypeOK, NEW t \in Tasks, CheckFails(t)
    PROVE  \E k : Hands(t, k)
<1>1. /\ task[t].at = "checking" /\ Fails /\ Put(t, Raised(t))
      /\ LeavesUnarmed(t) /\ LeavesUntold(t)
      /\ UNCHANGED aws /\ told' = told
  BY DEF CheckFails
<1>2. task[t].do = "rearm"
  BY <1>1, Known DEF WellFormed
<1>3. \A k : k = Raised(t) => Kept(t, k)
  BY <1>1, <1>2, GivesUpKept DEF aws
<1>. QED
  BY <1>1, <1>3, RaisedHands DEF aws

-----------------------------------------------------------------------------
(* The alarm that is armed needs no watcher any more; the others keep it.  *)
LEMMA ArmHands ==
    ASSUME TypeOK, NEW t \in Tasks, Arm(t)
    PROVE  \E k : Hands(t, k)
<1>1. PICK a \in task[t].todo :
        /\ task[t].at = "arming"
        /\ armed' = [armed EXCEPT ![a] = TRUE]
        /\ forsaken' = forsaken \ {a}
        /\ IF task[t].todo # {a} THEN Step(t, "arming", task[t].todo \ {a})
           ELSE Put(t,
                  CASE task[t].after = "end"   -> [task[t] EXCEPT !.at = "reporting", !.todo = {}]
                    [] task[t].after = "raise" -> Raised(t)
                    [] OTHER -> [task[t] EXCEPT !.at = "paging", !.todo = {}])
        /\ UNCHANGED <<instance, alarm, schedule, faults, told, calm, unheard>>
  BY DEF Arm
<1>2. /\ task[t] \in Invocations /\ WellFormed(task[t])
      /\ task[t].todo \subseteq Alarms
      /\ task[t].after \in {"end", "raise", "page", "page and raise"}
  BY <1>1, Known DEF WellFormed
<1>3. /\ faults' \in 0 .. MaxFaults /\ faults' = faults
      /\ alarm' = alarm /\ instance' = instance /\ told' = told /\ unheard' = unheard
  BY <1>1, FaultsKept
<1>4. \A b \in Alarms : armed[b] => armed'[b]
  BY <1>1 DEF TypeOK
<1>5. armed'[a] /\ \A b \in Alarms : b \in forsaken => b \in forsaken' \/ armed'[b]
  BY <1>1, <1>2 DEF TypeOK
<1>6. CASE task[t].todo # {a}
  <2>1. "arming" \in Places /\ task[t].todo \ {a} \in SUBSET (Alarms \cup Schedules)
    BY <1>2 DEF Places
  <2>2. PICK k \in Invocations :
          /\ task' = [task EXCEPT ![t] = k]
          /\ k.do = task[t].do /\ k.at = "arming" /\ k.todo = task[t].todo \ {a}
          /\ k.after = task[t].after
    BY <1>1, <1>6, <2>1, StepTo
  <2>3. WellFormed(k)
    BY <1>1, <1>2, <2>2 DEF WellFormed
  <2>4. Kept(t, k)
    BY <1>1, <1>3, <1>4, <1>5, <2>2 DEF Kept, Watches, Owes
  <2>. QED
    BY <1>3, <2>2, <2>3, <2>4 DEF Hands
<1>7. \A b \in Alarms : task[t].todo = {a} /\ Watches(task[t], b) => armed'[b]
  BY <1>1, <1>5 DEF Watches
<1>8. CASE task[t].todo = {a} /\ task[t].after = "raise"
  <2>1. Put(t, Raised(t))
    BY <1>1, <1>8
  <2>2. \A k : Kept(t, k)
    BY <1>1, <1>3, <1>4, <1>5, <1>7, <1>8 DEF Kept, Owes
  <2>. QED
    BY <1>3, <2>1, <2>2, RaisedHands
<1>9. CASE task[t].todo = {a} /\ task[t].after # "raise"
  <2>1. PICK at \in {"reporting", "paging"} :
          /\ Step(t, at, {})
          /\ at = IF task[t].after = "end" THEN "reporting" ELSE "paging"
    BY <1>1, <1>2, <1>9 DEF Step
  <2>2. at \in Places /\ {} \in SUBSET (Alarms \cup Schedules)
    BY DEF Places
  <2>3. PICK k \in Invocations :
          /\ task' = [task EXCEPT ![t] = k]
          /\ k.do = task[t].do /\ k.at = at /\ k.todo = {}
          /\ k.after = task[t].after
    BY <2>1, <2>2, StepTo
  <2>4. WellFormed(k)
    BY <1>1, <1>2, <1>9, <2>1, <2>3 DEF WellFormed
  <2>5. Kept(t, k)
    BY <1>1, <1>3, <1>4, <1>5, <1>7, <1>9, <2>1, <2>3 DEF Kept, Owes
  <2>. QED
    BY <1>3, <2>3, <2>4, <2>5 DEF Hands
<1>. QED
  BY <1>6, <1>8, <1>9

(* Arming that fails: within a rearm it is tried once more; else it is     *)
(* retried, or given up.                                                   *)
LEMMA ArmFailsHands ==
    ASSUME TypeOK, NEW t \in Tasks, ArmFails(t)
    PROVE  \E k : Hands(t, k)
<1>1. /\ task[t].at = "arming" /\ Fails
      /\ IF task[t].after = "end" THEN ToArming(t, "page and raise") /\ UNCHANGED exceptions
         ELSE Put(t, Raised(t)) /\ LeavesUnarmed(t) /\ LeavesUntold(t)
      /\ UNCHANGED aws /\ told' = told
  BY DEF ArmFails
<1>2. WellFormed(task[t])
  BY Known
<1>3. CASE task[t].after = "end"
  <2>1. ToArming(t, "page and raise") /\ task[t].do = "rearm" /\ UNCHANGED exceptions
    BY <1>1, <1>2, <1>3 DEF WellFormed
  <2>. QED
    BY <1>1, <2>1, ArmingHands DEF aws
<1>4. CASE task[t].after # "end"
  <2>1. task[t].do \in {"stop", "off"} => \A a \in Alarms : ~Owes(task[t], a)
    BY <1>1, <1>2 DEF WellFormed, Owes
  <2>2. Put(t, Raised(t)) /\ LeavesUnarmed(t) /\ LeavesUntold(t)
    BY <1>1, <1>4
  <2>3. \A k : k = Raised(t) => Kept(t, k)
    BY <1>1, <2>1, <2>2, GivesUpKept DEF aws
  <2>. QED
    BY <1>1, <2>2, <2>3, RaisedHands DEF aws
<1>. QED
  BY <1>3, <1>4

(* A page tells of every alarm.                                            *)
LEMMA PageHands ==
    ASSUME TypeOK, NEW t \in Tasks, Page(t)
    PROVE  \E k : Hands(t, k)
<1>1. /\ task[t].at = "paging" /\ told' = [a \in Alarms |-> TRUE]
      /\ IF task[t].after = "page" THEN Step(t, "reporting", {}) ELSE Put(t, Raised(t))
      /\ UNCHANGED aws /\ faults' = faults /\ forsaken' = forsaken
  BY DEF Page
<1>2. WellFormed(task[t]) /\ task[t].after \in {"page", "page and raise"}
  BY <1>1, Known DEF WellFormed
<1>3. faults' \in 0 .. MaxFaults
  BY <1>1, FaultsKept
<1>4. \A k : Kept(t, k)
  BY <1>1 DEF Kept, Watches, aws
<1>5. CASE task[t].after = "page"
  <2>1. "reporting" \in Places /\ {} \in SUBSET (Alarms \cup Schedules)
    BY DEF Places
  <2>2. PICK k \in Invocations :
          /\ task' = [task EXCEPT ![t] = k]
          /\ k.do = task[t].do /\ k.at = "reporting"
    BY <1>1, <1>5, <2>1, StepTo
  <2>3. WellFormed(k)
    BY <2>2 DEF WellFormed
  <2>. QED
    BY <1>1, <1>3, <1>4, <2>2, <2>3 DEF Hands, aws
<1>6. CASE task[t].after = "page and raise"
  <2>1. Put(t, Raised(t)) /\ alarm' = alarm
    BY <1>1, <1>6 DEF aws
  <2>. QED
    BY <1>1, <1>4, <2>1, RaisedHands
<1>. QED
  BY <1>2, <1>5, <1>6

(* A page that fails is retried from the start, or given up.               *)
LEMMA PageFailsHands ==
    ASSUME TypeOK, NEW t \in Tasks, PageFails(t)
    PROVE  \E k : Hands(t, k)
<1>1. /\ task[t].at = "paging" /\ Fails /\ Put(t, Raised(t)) /\ LeavesUntold(t)
      /\ UNCHANGED aws /\ told' = told /\ forsaken' = forsaken
  BY DEF PageFails
<1>2. \A a \in Alarms : ~Watches(task[t], a)
  BY <1>1 DEF Watches
<1>3. task[t].do \in {"stop", "off"} => \A a \in Alarms : ~Owes(task[t], a)
  BY <1>1, Known DEF WellFormed, Owes
<1>4. \A k : k = Raised(t) => Kept(t, k)
  BY <1>1, <1>2, <1>3, GivesUpKept DEF aws
<1>. QED
  BY <1>1, <1>4, RaisedHands DEF aws

(* The answer of an invocation, which has nothing left to do.              *)
LEMMA ReportHands ==
    ASSUME TypeOK, NEW t \in Tasks, Report(t) \/ ReportFails(t)
    PROVE  \E k : Hands(t, k)
<1>1. /\ task[t].at = "reporting" /\ UNCHANGED aws /\ UNCHANGED history
      /\ \/ faults' = faults /\ task' = [task EXCEPT ![t] = Idle]
         \/ Fails /\ Put(t, Raised(t))
  BY DEF Report, ReportFails, Put
<1>2. \A k : Kept(t, k)
  BY <1>1 DEF Kept, Watches, Owes, aws, history, exceptions
<1>3. CASE faults' = faults /\ task' = [task EXCEPT ![t] = Idle]
  <2>1. faults' \in 0 .. MaxFaults
    BY <1>3, FaultsKept
  <2>. QED
    BY <1>1, <1>2, <1>3, <2>1, IdleKinds DEF Hands, aws
<1>4. CASE Fails /\ Put(t, Raised(t))
  BY <1>1, <1>2, <1>4, RaisedHands DEF aws
<1>. QED
  BY <1>1, <1>3, <1>4

-----------------------------------------------------------------------------
(* The schedules and the operator begin with nothing watched or owed.      *)
LEMMA InvokeHands ==
    ASSUME TypeOK, NEW t \in Tasks,
           NEW do \in {"on", "off", "auto", "start", "stop"}, Invoke(t, do)
    PROVE  \E k : Hands(t, k)
<1>1. /\ task[t] = Idle /\ Put(t, Begin(do, 0)) /\ UNCHANGED aws
      /\ faults' = faults /\ told' = told /\ UNCHANGED exceptions
  BY DEF Invoke
<1>2. PICK k : k = Begin(do, 0)
  OBVIOUS
<1>3. k \in Invocations /\ WellFormed(k)
  <2>1. 0 \in 0 .. AsyncRetries
    BY InstanceSchedulerAssumption DEF InstanceSchedulerAssumption
  <2>. QED
    BY <1>2, <2>1, Begun
<1>4. faults' \in 0 .. MaxFaults
  BY <1>1, FaultsKept
<1>5. Kept(t, k)
  <2>1. \A a \in Alarms : ~Watches(task[t], a) /\ ~Owes(task[t], a)
    BY <1>1, IdleKinds
  <2>. QED
    BY <1>1, <2>1 DEF Kept, aws, exceptions
<1>. QED
  BY <1>1, <1>2, <1>3, <1>4, <1>5 DEF Hands, Put, aws

(* So does every call but the hand-off.                                    *)
LEMMA RunHands ==
    ASSUME TypeOK, NEW t \in Tasks, Run(t), ~HandOff(t)
    PROVE  \E k : Hands(t, k)
<1>1. CASE SetSchedule(t) \/ ScheduleFails(t)
  BY <1>1, SetScheduleHands, ScheduleFailsHands
<1>2. CASE Disarm(t) \/ DisarmFails(t) \/ StopCall(t) \/ StopFails(t)
  BY <1>2, DisarmHands, DisarmFailsHands, StopCallHands, StopFailsHands
<1>3. CASE StartCall(t) \/ StartFails(t) \/ HandOffFails(t)
  BY <1>3, StartCallHands, StartFailsHands, HandOffFailsHands
<1>4. CASE PollAlarm(t) \/ PollFails(t) \/ PollDone(t) \/ CheckInstance(t) \/ CheckFails(t)
  BY <1>4, PollAlarmHands, PollFailsHands, PollDoneHands, CheckInstanceHands, CheckFailsHands
<1>5. CASE Arm(t) \/ ArmFails(t) \/ Page(t) \/ PageFails(t)
  BY <1>5, ArmHands, ArmFailsHands, PageHands, PageFailsHands
<1>6. CASE Report(t) \/ ReportFails(t)
  BY <1>6, ReportHands
<1>. QED
  BY <1>1, <1>2, <1>3, <1>4, <1>5, <1>6 DEF Run

(* The hand-off: what the starter watched, the rearm watches.              *)
LEMMA HandOffKeeps ==
    ASSUME TypeOK, NEW t \in Tasks, HandOff(t)
    PROVE  /\ task' \in [Tasks -> Invocations] /\ \A u \in Tasks : WellFormed(task'[u])
           /\ Watched' /\ Owed'
<1>1. PICK u \in Tasks \ {t} :
        /\ task[t].at = "handing" /\ task[u] = Idle
        /\ task' = [task EXCEPT ![t].at = "reporting", ![u] = Begin("rearm", 0)]
  BY DEF HandOff
<1>3. PICK k : k = Begin("rearm", 0)
  OBVIOUS
<1>4. /\ k \in Invocations /\ WellFormed(k) /\ k.at = "polling" /\ k.todo = Alarms
  <2>1. 0 \in 0 .. AsyncRetries
    BY InstanceSchedulerAssumption DEF InstanceSchedulerAssumption
  <2>. QED
    BY <1>3, <2>1, Begun
<1> DEFINE r == [task[t] EXCEPT !.at = "reporting"]
<1>5. /\ r \in Invocations /\ r.do = task[t].do /\ r.at = "reporting" /\ r.tries = task[t].tries
      /\ task[t] \in Invocations
  <2>1. task[t] \in Invocations
    BY DEF TypeOK
  <2>. QED
    BY <2>1 DEF Invocations, Places
<1>6. /\ task' \in [Tasks -> Invocations] /\ task'[t] = r /\ task'[u] = k
      /\ \A v \in Tasks \ {t, u} : task'[v] = task[v]
  BY <1>1, <1>3, <1>4, <1>5 DEF TypeOK
<1> HIDE DEF r
<1>7. \A v \in Tasks : WellFormed(task'[v])
  <2>1. WellFormed(r)
    BY <1>5 DEF WellFormed
  <2>2. \A v \in Tasks : WellFormed(task[v])
    BY DEF TypeOK
  <2>. QED
    BY <1>4, <1>6, <2>1, <2>2
<1>8. \A a \in Alarms : Watches(task'[u], a) /\ Owes(task'[u], a)
  BY <1>4, <1>6 DEF Watches, Owes
<1>9. Watched' /\ Owed'
  BY <1>1, <1>8 DEF Watched, Owed
<1>. QED
  BY <1>6, <1>7, <1>9

-----------------------------------------------------------------------------
(* What the invocations do not carry with them.                            *)
RestTyped ==
    /\ instance \in {"running", "stopping", "stopped"}
    /\ alarm \in [Alarms -> {"OK", "ALARM"}]
    /\ armed \in [Alarms -> BOOLEAN]
    /\ schedule \subseteq Schedules
    /\ told \in [Alarms -> BOOLEAN]
    /\ calm \in {"no", "stopping", "asleep"}
    /\ forsaken \subseteq Alarms /\ unheard \subseteq Alarms

(* No call takes any of it out of its type.                                *)
LEMMA RunKeepsRest ==
    ASSUME TypeOK, NEW t \in Tasks, Run(t)
    PROVE  RestTyped'
<1> USE DEF TypeOK, RestTyped, aws, history, exceptions
<1>1. CASE SetSchedule(t)
  <2>1. PICK s \in task[t].todo :
          /\ task[t].at = "schedules"
          /\ schedule' = IF task[t].do = "auto" THEN schedule \cup {s} ELSE schedule \ {s}
    BY <1>1 DEF SetSchedule
  <2>2. s \in Schedules
    BY <2>1 DEF WellFormed
  <2>. QED
    BY <1>1, <2>1, <2>2 DEF SetSchedule
<1>2. CASE Disarm(t) \/ Arm(t)
  BY <1>2 DEF Disarm, Arm
<1>3. CASE StopCall(t) \/ StopFails(t) \/ StartCall(t)
  BY <1>3 DEF StopCall, StopFails, StartCall
<1>4. CASE Page(t)
  BY <1>4 DEF Page
<1>5. CASE PollAlarm(t)
  BY <1>5 DEF PollAlarm
<1>6. CASE DisarmFails(t) \/ CheckFails(t) \/ ArmFails(t) \/ PageFails(t)
  <2>1. /\ UNCHANGED aws /\ UNCHANGED <<told, calm>>
        /\ UNCHANGED forsaken \/ LeavesUnarmed(t)
        /\ UNCHANGED unheard \/ LeavesUntold(t)
    BY <1>6 DEF DisarmFails, CheckFails, ArmFails, PageFails
  <2>. QED
    BY <2>1 DEF LeavesUnarmed, LeavesUntold
<1>7. CASE \/ ScheduleFails(t) \/ StartFails(t) \/ HandOff(t) \/ HandOffFails(t)
           \/ PollFails(t) \/ PollDone(t) \/ CheckInstance(t)
           \/ Report(t) \/ ReportFails(t)
  <2>1. UNCHANGED aws /\ UNCHANGED history
    BY <1>7 DEF ScheduleFails, StartFails, HandOff, HandOffFails, PollFails, PollDone,
                CheckInstance, Report, ReportFails
  <2>. QED
    BY <2>1
<1>. QED
  BY <1>1, <1>2, <1>3, <1>4, <1>5, <1>6, <1>7 DEF Run

-----------------------------------------------------------------------------
(* The next call of a calm stop.                                           *)
LEMMA CalmStep ==
    ASSUME TypeOK, CalmAlone, NEW t \in Tasks, NEW k, task' = [task EXCEPT ![t] = k],
           task[t] # Idle, calm # "no",
           k # Idle =>
             /\ k.do \in {"stop", "off"}
             /\ k.at \in {"schedules", "disarming", "stopping", "reporting"}
             /\ k.at = "disarming" => \A a \in Alarms \ k.todo : ~armed'[a]
             /\ k.at = "stopping" => \A a \in Alarms : ~armed'[a]
    PROVE  CalmAlone'
<1>1. \A u \in Tasks \ {t} : task[u] = Idle
  BY DEF CalmAlone
<1>2. task'[t] = k /\ \A u \in Tasks \ {t} : task'[u] = Idle
  BY <1>1 DEF TypeOK
<1>. QED
  BY <1>2 DEF CalmAlone

(* A calm stop that raises begins again, or is over.                       *)
LEMMA CalmRaised ==
    ASSUME TypeOK, CalmAlone, NEW t \in Tasks, Put(t, Raised(t)), task[t] # Idle, calm # "no"
    PROVE  CalmAlone'
<1>1. PICK k : k = Raised(t)
  OBVIOUS
<1>2. task[t].do \in {"stop", "off"}
  BY DEF CalmAlone
<1>3. k # Idle => k.do = "stop" /\ k.at = "disarming" /\ k.todo = Alarms
  BY <1>1, <1>2, RaisedKinds DEF Retried
<1>4. task' = [task EXCEPT ![t] = k]
  BY <1>1 DEF Put
<1>5. k # Idle =>
        /\ k.do \in {"stop", "off"}
        /\ k.at \in {"schedules", "disarming", "stopping", "reporting"}
        /\ k.at = "disarming" => \A a \in Alarms \ k.todo : ~armed'[a]
        /\ k.at = "stopping" => \A a \in Alarms : ~armed'[a]
  BY <1>3
<1>. QED
  BY <1>4, <1>5, CalmStep

(* The calls a calm stop can be at.                                        *)
LEMMA CalmCalls ==
    ASSUME TypeOK, CalmAlone, NEW t \in Tasks, Run(t), calm # "no"
    PROVE  /\ task[t] # Idle
           /\ \/ SetSchedule(t) \/ ScheduleFails(t) \/ Disarm(t) \/ DisarmFails(t)
              \/ StopCall(t) \/ StopFails(t) \/ Report(t) \/ ReportFails(t)
<1>1. CASE \/ SetSchedule(t) \/ ScheduleFails(t) \/ Disarm(t) \/ DisarmFails(t)
           \/ StopCall(t) \/ StopFails(t) \/ Report(t) \/ ReportFails(t)
  <2>1. task[t].at \in {"schedules", "disarming", "stopping", "reporting"}
    BY <1>1 DEF SetSchedule, ScheduleFails, Disarm, DisarmFails, StopCall, StopFails, Report,
                ReportFails
  <2>. QED
    BY <1>1, <2>1, IdleKinds
<1>2. CASE \/ StartCall(t) \/ StartFails(t) \/ HandOff(t) \/ HandOffFails(t)
           \/ PollAlarm(t) \/ PollFails(t) \/ PollDone(t) \/ CheckInstance(t) \/ CheckFails(t)
           \/ Arm(t) \/ ArmFails(t) \/ Page(t) \/ PageFails(t)
  <2>1. task[t].at \in {"starting", "handing", "polling", "checking", "arming", "paging"}
    BY <1>2 DEF StartCall, StartFails, HandOff, HandOffFails, PollAlarm, PollFails, PollDone,
                CheckInstance, CheckFails, Arm, ArmFails, Page, PageFails
  <2>2. task[t] # Idle
    BY <2>1, IdleKinds
  <2>. QED
    BY <2>1, <2>2 DEF CalmAlone
<1>. QED
  BY <1>1, <1>2 DEF Run

(* An overlapping or failed stop stays one, whatever is called next.       *)
LEMMA NotCalm ==
    ASSUME NEW t \in Tasks, Run(t), calm = "no"
    PROVE  calm' = "no"
<1> USE DEF history
<1>1. CASE \/ SetSchedule(t) \/ ScheduleFails(t) \/ Disarm(t) \/ DisarmFails(t)
           \/ StopCall(t) \/ StopFails(t)
  BY <1>1 DEF SetSchedule, ScheduleFails, Disarm, DisarmFails, StopCall, StopFails
<1>2. CASE \/ StartCall(t) \/ StartFails(t) \/ HandOff(t) \/ HandOffFails(t)
           \/ PollAlarm(t) \/ PollFails(t) \/ PollDone(t)
  BY <1>2 DEF StartCall, StartFails, HandOff, HandOffFails, PollAlarm, PollFails, PollDone
<1>3. CASE \/ CheckInstance(t) \/ CheckFails(t) \/ Arm(t) \/ ArmFails(t) \/ Page(t) \/ PageFails(t)
           \/ Report(t) \/ ReportFails(t)
  BY <1>3 DEF CheckInstance, CheckFails, Arm, ArmFails, Page, PageFails, Report, ReportFails
<1>. QED
  BY <1>1, <1>2, <1>3 DEF Run

(* A calm off disables the schedules and turns to the alarms.              *)
LEMMA CalmSetSchedule ==
    ASSUME TypeOK, CalmAlone, NEW t \in Tasks, SetSchedule(t), calm # "no", task[t] # Idle
    PROVE  CalmAlone'
<1>1. PICK s \in task[t].todo :
        /\ task[t].at = "schedules"
        /\ IF task[t].todo # {s} THEN Step(t, "schedules", task[t].todo \ {s})
           ELSE IF task[t].do = "off" THEN Step(t, "disarming", Alarms)
           ELSE Step(t, "starting", {})
  BY DEF SetSchedule
<1>2. /\ task[t].do = "off" /\ task[t].todo \subseteq Schedules
  <2>1. task[t].do \in {"stop", "off"}
    BY DEF CalmAlone
  <2>2. WellFormed(task[t])
    BY DEF TypeOK
  <2>. QED
    BY <1>1, <2>1, <2>2 DEF WellFormed
<1>3. PICK k : /\ task' = [task EXCEPT ![t] = k] /\ k.do = "off"
               /\ k.at = "schedules" \/ (k.at = "disarming" /\ k.todo = Alarms)
  <2>0. /\ {"schedules", "disarming"} \subseteq Places
        /\ {task[t].todo \ {s}, Alarms} \subseteq SUBSET (Alarms \cup Schedules)
    BY <1>2 DEF Places
  <2>1. CASE Step(t, "schedules", task[t].todo \ {s})
    BY <1>2, <2>0, <2>1, StepTo
  <2>2. CASE Step(t, "disarming", Alarms)
    BY <1>2, <2>0, <2>2, StepTo
  <2>. QED
    BY <1>1, <1>2, <2>1, <2>2
<1>. QED
  BY <1>3, CalmStep

(* A calm stop suppresses one more alarm.                                  *)
LEMMA CalmDisarm ==
    ASSUME TypeOK, CalmAlone, NEW t \in Tasks, Disarm(t), calm # "no", task[t] # Idle
    PROVE  CalmAlone' /\ \A a \in Alarms : ~armed[a] => ~armed'[a]
<1>1. PICK b \in task[t].todo :
        /\ task[t].at = "disarming"
        /\ armed' = [armed EXCEPT ![b] = FALSE]
        /\ IF task[t].todo # {b} THEN Step(t, "disarming", task[t].todo \ {b})
           ELSE Step(t, "stopping", {})
  BY DEF Disarm
<1>2. /\ task[t].do \in {"stop", "off"}
      /\ \A a \in Alarms \ task[t].todo : ~armed[a]
  BY <1>1 DEF CalmAlone
<1>3. task[t].todo \subseteq Alarms /\ armed \in [Alarms -> BOOLEAN]
  BY <1>1 DEF TypeOK, WellFormed
<1>4. ~armed'[b] /\ \A a \in Alarms : ~armed[a] => ~armed'[a]
  BY <1>1, <1>3
<1>5. \A a \in Alarms \ (task[t].todo \ {b}) : ~armed'[a]
  BY <1>2, <1>4
<1>6. PICK k : /\ task' = [task EXCEPT ![t] = k] /\ k.do = task[t].do
               /\ \/ k.at = "disarming" /\ k.todo = task[t].todo \ {b}
                  \/ k.at = "stopping" /\ task[t].todo = {b}
  <2>0. /\ {"disarming", "stopping"} \subseteq Places
        /\ {task[t].todo \ {b}, {}} \subseteq SUBSET (Alarms \cup Schedules)
    BY <1>3 DEF Places
  <2>1. CASE task[t].todo # {b} /\ Step(t, "disarming", task[t].todo \ {b})
    BY <2>0, <2>1, StepTo
  <2>2. CASE task[t].todo = {b} /\ Step(t, "stopping", {})
    BY <2>0, <2>2, StepTo
  <2>. QED
    BY <1>1, <2>1, <2>2
<1>7. k.at = "stopping" => \A a \in Alarms : ~armed'[a]
  BY <1>5, <1>6
<1>8. k.at = "disarming" => \A a \in Alarms \ k.todo : ~armed'[a]
  BY <1>5, <1>6
<1>. QED
  BY <1>2, <1>4, <1>6, <1>7, <1>8, CalmStep

(* What keeps a stop calm through its calls.                               *)
LEMMA RunCalm ==
    ASSUME TypeOK, CalmAlone, CalmAsleep, NEW t \in Tasks, Run(t)
    PROVE  CalmAlone' /\ CalmAsleep'
<1>1. CASE calm = "no"
  BY <1>1, NotCalm DEF CalmAlone, CalmAsleep
<1>2. CASE calm # "no"
  <2>0. /\ task[t] # Idle
        /\ \/ SetSchedule(t) \/ ScheduleFails(t) \/ Disarm(t) \/ DisarmFails(t)
           \/ StopCall(t) \/ StopFails(t) \/ Report(t) \/ ReportFails(t)
    BY <1>2, CalmCalls
  <2>1. CASE SetSchedule(t)
    BY <1>2, <2>0, <2>1, CalmSetSchedule DEF SetSchedule, CalmAsleep, history
  <2>2. CASE ScheduleFails(t) \/ Report(t)
    <3>1. task' = [task EXCEPT ![t] = Idle] /\ UNCHANGED aws /\ UNCHANGED history
      BY <2>2 DEF ScheduleFails, Report, Put
    <3>. QED
      BY <1>2, <2>0, <3>1, CalmStep DEF CalmAsleep, aws, history
  <2>3. CASE Disarm(t)
    BY <1>2, <2>0, <2>3, CalmDisarm DEF Disarm, CalmAsleep, history
  <2>4. CASE DisarmFails(t) \/ ReportFails(t)
    <3>1. Put(t, Raised(t)) /\ UNCHANGED aws /\ calm' = calm
      BY <2>4 DEF DisarmFails, ReportFails, history
    <3>. QED
      BY <1>2, <2>0, <3>1, CalmRaised DEF CalmAsleep, aws
  <2>5. CASE StopCall(t)
    <3>1. task[t].at = "stopping" /\ Step(t, "reporting", {}) /\ armed' = armed
      BY <2>5 DEF StopCall
    <3>2. task[t].do \in {"stop", "off"} /\ \A a \in Alarms : ~armed[a]
      BY <1>2, <2>0, <3>1 DEF CalmAlone
    <3>3. PICK k : task' = [task EXCEPT ![t] = k] /\ k.do = task[t].do /\ k.at = "reporting"
      <4>1. "reporting" \in Places /\ {} \in SUBSET (Alarms \cup Schedules)
        BY DEF Places
      <4>. QED
        BY <3>1, <4>1, StepTo
    <3>4. CalmAlone'
      BY <1>2, <2>0, <3>2, <3>3, CalmStep
    <3>. QED
      BY <3>1, <3>2, <3>4 DEF CalmAsleep
  <2>6. CASE StopFails(t)
    BY <2>6 DEF StopFails, CalmAlone, CalmAsleep
  <2>. QED
    BY <2>0, <2>1, <2>2, <2>3, <2>4, <2>5, <2>6
<1>. QED
  BY <1>1, <1>2

(* A stop that begins with no other about is calm.                         *)
LEMMA InvokeCalm ==
    ASSUME TypeOK, NEW t \in Tasks,
           NEW do \in {"on", "off", "auto", "start", "stop"}, Invoke(t, do)
    PROVE  CalmAlone' /\ CalmAsleep'
<1>1. /\ task' = [task EXCEPT ![t] = Begin(do, 0)]
      /\ calm' = IF do \in {"stop", "off"} /\ Alone(t) THEN "stopping" ELSE "no"
  BY DEF Invoke, Put
<1>2. CASE ~(do \in {"stop", "off"} /\ Alone(t))
  BY <1>1, <1>2 DEF CalmAlone, CalmAsleep
<1>3. CASE do \in {"stop", "off"} /\ Alone(t)
  <2>1. PICK k : k = Begin(do, 0)
    OBVIOUS
  <2>2. /\ k.do = do /\ k.at \in {"schedules", "disarming"}
        /\ k.at = "disarming" => k.todo = Alarms
    <3>1. 0 \in 0 .. AsyncRetries
      BY InstanceSchedulerAssumption DEF InstanceSchedulerAssumption
    <3>. QED
      BY <1>3, <2>1, <3>1, Begun
  <2>3. task'[t] = k /\ \A u \in Tasks \ {t} : task'[u] = Idle
    BY <1>1, <1>3, <2>1 DEF TypeOK, Alone
  <2>4. CalmAlone'
    BY <1>3, <2>2, <2>3 DEF CalmAlone
  <2>. QED
    BY <1>1, <1>3, <2>4 DEF CalmAsleep
<1>. QED
  BY <1>2, <1>3

-----------------------------------------------------------------------------
(* The invariant at first.                                                 *)
LEMMA Initially == Init => IInv
<1> SUFFICES ASSUME Init PROVE IInv
  OBVIOUS
<1>1. \A t \in Tasks : task[t] = Idle
  BY DEF Init
<1>2. TypeOK
  <2>1. task \in [Tasks -> Invocations] /\ \A t \in Tasks : WellFormed(task[t])
    BY <1>1, IdleKinds DEF Init
  <2>2. faults \in 0 .. MaxFaults
    BY InstanceSchedulerAssumption DEF Init, InstanceSchedulerAssumption
  <2>. QED
    BY <2>1, <2>2 DEF Init, TypeOK
<1>3. CalmAlone /\ CalmAsleep /\ Watched /\ Owed
  BY DEF Init, CalmAlone, CalmAsleep, Watched, Owed
<1>. QED
  BY <1>2, <1>3 DEF IInv

(* Every step of an invocation.                                            *)
LEMMA TaskStep ==
    ASSUME IInv, NEW t \in Tasks, Nightly(t) \/ Operate(t) \/ Run(t)
    PROVE  IInv'
<1> USE DEF IInv
<1>1. CASE Nightly(t) \/ Operate(t)
  <2>1. PICK do \in {"on", "off", "auto", "start", "stop"} : Invoke(t, do)
    BY <1>1 DEF Nightly, Operate, TypeOK, Schedules
  <2>2. PICK k : Hands(t, k)
    BY <2>1, InvokeHands
  <2>3. RestTyped'
    BY <2>1 DEF Invoke, TypeOK, RestTyped, aws, exceptions
  <2>4. CalmAlone' /\ CalmAsleep'
    BY <2>1, InvokeCalm
  <2>. QED
    BY <2>2, <2>3, <2>4, HandsKeeps DEF TypeOK, RestTyped
<1>2. CASE Run(t) /\ ~HandOff(t)
  <2>1. PICK k : Hands(t, k)
    BY <1>2, RunHands
  <2>2. RestTyped' /\ CalmAlone' /\ CalmAsleep'
    BY <1>2, RunKeepsRest, RunCalm
  <2>. QED
    BY <2>1, <2>2, HandsKeeps DEF TypeOK, RestTyped
<1>3. CASE Run(t) /\ HandOff(t)
  <2>1. RestTyped' /\ CalmAlone' /\ CalmAsleep'
    BY <1>3, RunKeepsRest, RunCalm
  <2>2. faults' \in 0 .. MaxFaults
    BY <1>3 DEF HandOff, TypeOK
  <2>. QED
    BY <1>3, <2>1, <2>2, HandOffKeeps DEF TypeOK, RestTyped
<1>. QED
  BY <1>1, <1>2, <1>3

(* EC2 and CloudWatch.  An alarm that fires over a running node tells, if  *)
(* it is armed, or else is one that nobody may be there to tell of.        *)
LEMMA EnvironmentStep ==
    ASSUME IInv, Stopped \/ (\E a \in Alarms : Fires(a) \/ Recovers(a))
    PROVE  IInv'
<1> USE DEF IInv
<1>1. UNCHANGED <<armed, schedule, task, faults, calm, forsaken>>
  BY DEF Stopped, Fires, Recovers, history, exceptions
<1>2. TypeOK'
  <2>1. RestTyped'
    BY DEF Stopped, Fires, Recovers, history, exceptions, TypeOK, RestTyped
  <2>. QED
    BY <1>1, <2>1 DEF TypeOK, RestTyped
<1>3. CalmAlone' /\ CalmAsleep'
  BY <1>1 DEF CalmAlone, CalmAsleep
<1>4. Watched'
  BY <1>1 DEF Watched, Stopped, Fires, Recovers
<1>5. Owed'
  <2>1. CASE Stopped
    BY <2>1 DEF Owed, Stopped
  <2>2. ASSUME NEW a \in Alarms, Fires(a) PROVE Owed'
    <3>1. instance' = "running" => told'[a] \/ a \in unheard'
      BY <2>2 DEF Fires, TypeOK
    <3>2. \A b \in Alarms \ {a} : /\ alarm'[b] = alarm[b] /\ told'[b] = told[b]
                                  /\ b \in unheard => b \in unheard'
      BY <2>2 DEF Fires, TypeOK
    <3>. QED
      BY <1>1, <2>2, <3>1, <3>2 DEF Owed, Fires
  <2>3. ASSUME NEW a \in Alarms, Recovers(a) PROVE Owed'
    <3>1. /\ alarm'[a] = "OK"
          /\ \A b \in Alarms \ {a} : /\ alarm'[b] = alarm[b] /\ told'[b] = told[b]
                                      /\ b \in unheard => b \in unheard'
      BY <2>3 DEF Recovers, TypeOK
    <3>. QED
      BY <1>1, <2>3, <3>1 DEF Owed, Recovers
  <2>. QED
    BY <2>1, <2>2, <2>3
<1>. QED
  BY <1>2, <1>3, <1>4, <1>5

(* Every step of the power switch.                                         *)
LEMMA Inductive == IInv /\ [Next]_vars => IInv'
<1> SUFFICES ASSUME IInv, [Next]_vars PROVE IInv'
  OBVIOUS
<1>1. CASE \E t \in Tasks : Nightly(t) \/ Operate(t) \/ Run(t)
  BY <1>1, TaskStep
<1>2. CASE Stopped \/ (\E a \in Alarms : Fires(a) \/ Recovers(a))
  BY <1>2, EnvironmentStep
<1>3. CASE UNCHANGED vars
  BY <1>3 DEF vars, aws, history, exceptions, IInv, TypeOK, CalmAlone, CalmAsleep, Watched, Owed
<1>. QED
  BY <1>1, <1>2, <1>3 DEF Next

(* The invariant holds throughout.                                         *)
LEMMA Invariant == Spec => []IInv
  BY Initially, Inductive, PTL DEF Spec

-----------------------------------------------------------------------------
(* Every invocation is at a call that its action makes: only the rearm     *)
(* polls, only a stop or an off disarms.                                   *)
THEOREM TypeCorrect == Spec => []TypeOK
<1>1. IInv => TypeOK
  BY DEF IInv
<1>. QED
  BY <1>1, Invariant, PTL

(* "a still-running node must stay monitored": a node that runs with no    *)
(* invocation about has every alarm armed, whatever overlapped and however *)
(* many calls failed, but for one an invocation that gave up left          *)
(* suppressed.                                                             *)
THEOREM Monitored == Spec => []MonitoredWhenRunning
<1>1. IInv => MonitoredWhenRunning
  BY IdleKinds DEF IInv, Watched, AllIdle, MonitoredWhenRunning
<1>. QED
  BY <1>1, Invariant, PTL

(* "a suppressed alarm stuck in ALARM can't re-notify": an alarm in ALARM  *)
(* over a running node has been told of, however many calls failed, but    *)
(* for one that fired while suppressed over a node that ran and no poll    *)
(* has seen, and one that an invocation that gave up left untold.          *)
THEOREM NothingSilent == Spec => []NoSilentAlarm
<1>1. IInv => NoSilentAlarm
  BY IdleKinds DEF IInv, Owed, AllIdle, NoSilentAlarm
<1>. QED
  BY <1>1, Invariant, PTL

(* "zero notifications": a stop that overlaps no other invocation and      *)
(* whose call to EC2 does not fail puts the node to sleep with every alarm *)
(* off, so none notifies, whatever the faults.                             *)
THEOREM Quiet == Spec => QuietSleep
<1>1. ASSUME IInv, Next, NEW a \in Alarms, calm = "asleep", alarm[a] = "OK", alarm'[a] = "ALARM"
      PROVE  ~told'[a]
  <2>1. ~armed[a]
    BY <1>1 DEF IInv, CalmAsleep
  <2>2. CASE \E t \in Tasks : Nightly(t) \/ Operate(t) \/ Run(t)
    <3>1. PICK t \in Tasks : Nightly(t) \/ Operate(t) \/ Run(t)
      BY <2>2
    <3>2. CASE Nightly(t) \/ Operate(t)
      BY <1>1, <3>2 DEF Nightly, Operate, Invoke, aws
    <3>3. CASE HandOff(t)
      BY <1>1, <3>3 DEF HandOff, aws
    <3>4. CASE Run(t) /\ ~HandOff(t)
      BY <1>1, <3>4, RunHands DEF IInv, Hands
    <3>. QED
      BY <3>1, <3>2, <3>3, <3>4
  <2>3. CASE Stopped
    BY <1>1, <2>3 DEF Stopped
  <2>4. CASE \E b \in Alarms : Fires(b) \/ Recovers(b)
    <3>1. PICK b \in Alarms : Fires(b) \/ Recovers(b)
      BY <2>4
    <3>2. alarm \in [Alarms -> {"OK", "ALARM"}] /\ told \in [Alarms -> BOOLEAN]
      BY <1>1 DEF IInv, TypeOK
    <3>3. b = a /\ Fires(a)
      BY <1>1, <3>1, <3>2 DEF Fires, Recovers
    <3>. QED
      BY <2>1, <3>2, <3>3 DEF Fires
  <2>. QED
    BY <1>1, <2>2, <2>3, <2>4 DEF Next
<1>2. IInv /\ [Next]_vars =>
        [\A a \in Alarms :
           calm = "asleep" /\ instance # "running" /\ alarm[a] = "OK" /\ alarm'[a] = "ALARM" =>
              ~told'[a]]_vars
  BY <1>1
<1>. QED
  BY <1>2, Invariant, PTL DEF Spec, QuietSleep

-----------------------------------------------------------------------------
(* The changelog store: what the scripts keep, by PR or by tag, is there   *)
(* for some of them.                                                       *)
Partial(S, T) == UNION {[s -> T] : s \in SUBSET S}

Versions == Tags \cup {Null}
RecordSets == Partial(PRs, Versions)
Entries == [prs : SUBSET PRs, date : Nat]
Manifests == Partial(Tags, Entries)
Bodies == [prs : SUBSET PRs, since : Versions]

(* The steps of a script; what it holds at each is in its record.          *)
Steps == {"idle", "read", "plan", "release", "publish", "render", "draft", "upload"}

Runs ==
    [kind : Kinds \cup {"none"}, at : Steps, pr : 0..MaxPR, sha : 0..MaxPR, recs : RecordSets,
     malformed : SUBSET PRs, vers : Manifests, tag : Versions, retried : BOOLEAN,
     gone : SUBSET Assets, owed : SUBSET Assets]

Requests ==
    [kind : {"none", "update", "cut", "reconcile"}, pr : 0..MaxPR, sha : 0..MaxPR]

(* Only a cut and the baseline publish; update is of a PR.                 *)
RunTyped(r) ==
    /\ r.at = "idle" => r = NoRun
    /\ r.at # "idle" /\ r.kind = "update" => r.pr \in PRs
    /\ r.at \in {"release", "publish"} => r.kind \in Cutting /\ r.tag \in Tags

ChangelogTypeOK ==
    /\ head \in 0..MaxPR /\ aged \in 0..MaxPR
    /\ lines \in RecordSets /\ bad \subseteq PRs /\ manifest \in Manifests
    /\ preview \subseteq PRs
    /\ refs \in Partial(Tags, 0..MaxPR) /\ published \in Partial(Tags, Bodies)
    /\ queued \in Requests
    /\ queued.kind = "update" => queued.pr \in PRs
    /\ run \in [Slots -> Runs] /\ \A s \in Slots : RunTyped(run[s])
    /\ merges \in Nat /\ head + merges <= MaxPR
    /\ mishaps \in Nat /\ dispatches \in Nat /\ locals \in Locals
    /\ torn \in BOOLEAN /\ crossed \in BOOLEAN
    /\ damaged \subseteq PRs /\ orphans \subseteq Versions /\ recut \subseteq Tags

-----------------------------------------------------------------------------
(* A function some of whose arguments are given.                           *)
LEMMA PartialFun ==
    ASSUME NEW S, NEW T, NEW f
    PROVE  f \in Partial(S, T) <=> /\ f = [x \in DOMAIN f |-> f[x]] /\ DOMAIN f \subseteq S
                                   /\ \A x \in DOMAIN f : f[x] \in T
<1>1. ASSUME f \in Partial(S, T)
      PROVE  f = [x \in DOMAIN f |-> f[x]] /\ DOMAIN f \subseteq S /\ \A x \in DOMAIN f : f[x] \in T
  BY <1>1 DEF Partial
<1>2. ASSUME f = [x \in DOMAIN f |-> f[x]], DOMAIN f \subseteq S, \A x \in DOMAIN f : f[x] \in T
      PROVE  f \in Partial(S, T)
  <2>1. f \in [DOMAIN f -> T]
    BY <1>2
  <2>. QED
    BY <1>2, <2>1 DEF Partial
<1>. QED
  BY <1>1, <1>2

(* The empty asset, one entry, and one written over the other.             *)
LEMMA EmptyPartial ==
    /\ DOMAIN Empty = {}
    /\ \A S, T : Empty \in Partial(S, T)
<1>1. DOMAIN Empty = {} /\ Empty = [x \in DOMAIN Empty |-> Empty[x]]
  BY DEF Empty
<1>2. ASSUME NEW S, NEW T PROVE Empty \in Partial(S, T)
  BY <1>1, PartialFun
<1>. QED
  BY <1>1, <1>2

LEMMA OnlyPartial ==
    ASSUME NEW S, NEW T, NEW x \in S, NEW y \in T
    PROVE  Only(x, y) \in Partial(S, T) /\ DOMAIN Only(x, y) = {x} /\ Only(x, y)[x] = y
<1>1. DOMAIN Only(x, y) = {x} /\ Only(x, y)[x] = y
        /\ Only(x, y) = [z \in DOMAIN Only(x, y) |-> Only(x, y)[z]]
  BY DEF Only
<1>. QED
  BY <1>1, PartialFun

LEMMA OverPartial ==
    ASSUME NEW S, NEW T, NEW f \in Partial(S, T), NEW g \in Partial(S, T)
    PROVE  Over(f, g) \in Partial(S, T)
<1>1. Over(f, g) = [x \in DOMAIN Over(f, g) |-> Over(f, g)[x]]
  BY DEF Over
<1>2. /\ DOMAIN f \subseteq S /\ DOMAIN g \subseteq S
      /\ \A x \in DOMAIN f : f[x] \in T
      /\ \A x \in DOMAIN g : g[x] \in T
  BY PartialFun
<1>3. ASSUME NEW x \in DOMAIN Over(f, g) PROVE x \in S /\ Over(f, g)[x] \in T
  <2>1. \/ x \in DOMAIN f /\ Over(f, g)[x] = f[x]
        \/ x \in DOMAIN g /\ Over(f, g)[x] = g[x]
    BY <1>3 DEF Over
  <2>. QED
    BY <1>2, <2>1
<1>. QED
  BY <1>1, <1>3, PartialFun

(* The tags are finitely many, and the next of a day is a free one.        *)
LEMMA TagsAreNumbers ==
    /\ MaxTag \in Nat /\ MaxPR \in Nat /\ Tags = 0..MaxTag
    /\ Tags \subseteq Nat /\ IsFiniteSet(Tags) /\ Null \notin Tags
<1>1. MaxTag \in Nat /\ MaxPR \in Nat /\ Tags = 0..MaxTag /\ Null \notin Tags
  BY ChangelogAssumption DEF ChangelogAssumption, Tags, Baseline
<1>. QED
  BY <1>1, FS_Interval

(* The versions of a manifest have PRs and a date.                         *)
LEMMA EntriesAre ==
    ASSUME NEW vers \in Manifests
    PROVE  /\ DOMAIN vers \subseteq Tags
           /\ \A t \in DOMAIN vers : vers[t].prs \subseteq PRs /\ vers[t].date \in Nat
<1>1. DOMAIN vers \subseteq Tags /\ \A t \in DOMAIN vers : vers[t] \in Entries
  BY PartialFun DEF Manifests
<1> QED
  BY <1>1 DEF Entries

(* Of versions with a date, one is the latest, and one tag is the least.   *)
LEMMA LatestIsOne ==
    ASSUME NEW vers \in Manifests, NEW ts \in SUBSET DOMAIN vers, ts # {}
    PROVE  LatestOf(vers, ts) \in ts /\ \A u \in ts : vers[u].date <= vers[LatestOf(vers, ts)].date
<1> DEFINE Later(t) == {u \in ts : vers[u].date > vers[t].date}
           T == {Later(t) : t \in ts}
           R == StrictSubsetOrdering(ts)
<1>1. ts \subseteq Tags /\ \A t \in ts : vers[t].date \in Nat
  BY EntriesAre
<1>2. IsWellFoundedOn(R, SUBSET ts)
  BY <1>1, TagsAreNumbers, FS_Subset, FS_StrictSubsetOrderingWellFounded, FS_FiniteSubsetsOfFinite
<1>3. T \subseteq SUBSET ts /\ T # {}
  OBVIOUS
<1>4. PICK N \in T : \A M \in T : ~(<<M, N>> \in R)
  <2> HIDE DEF T, R
  <2> QED
    BY <1>2, <1>3, WFMin
<1>5. PICK t \in ts : N = Later(t)
  BY <1>4
<1>6. ASSUME NEW k \in ts, vers[k].date > vers[t].date PROVE FALSE
  <2>1. vers[k].date \in Nat /\ vers[t].date \in Nat /\ \A i \in ts : vers[i].date \in Nat
    BY <1>1
  <2>2. \A i \in ts : vers[i].date > vers[k].date => vers[i].date > vers[t].date
    BY <1>6, <2>1
  <2>3. ~(vers[k].date > vers[k].date)
    BY <2>1
  <2>4. Later(k) \subseteq Later(t) /\ k \in Later(t) /\ k \notin Later(k)
    BY <1>6, <2>2, <2>3
  <2>5. <<Later(k), Later(t)>> \in R
    BY <2>4 DEF StrictSubsetOrdering
  <2> QED
    BY <1>4, <1>5, <2>5
<1>7. \A u \in ts : vers[u].date <= vers[t].date
  BY <1>1, <1>6
<1> QED
  BY <1>7 DEF LatestOf

(* calverTag: the tag of a cut is one that is not taken, and no baseline.  *)
LEMMA CalverIsFree ==
    ASSUME NEW taken \in SUBSET Tags
    PROVE  CalverTag(taken) \in Nat \ {0} /\ CalverTag(taken) \notin taken
<1> DEFINE S == (1..(MaxTag + 1)) \ taken
           R == OpToRel(<, Nat)
<1>1. S \subseteq Nat /\ MaxTag + 1 \in S
  BY TagsAreNumbers
<1>2. PICK m \in S : \A n \in S : ~(<<n, m>> \in R)
  <2> HIDE DEF S, R
  <2>1. IsWellFoundedOn(R, Nat)
    BY NatLessThanWellFounded DEF R
  <2> QED
    BY <1>1, <2>1, WFMin
<1>3. \A n \in S : m <= n
  <2>1. ASSUME NEW n \in Nat, n < m PROVE <<n, m>> \in R
    <3>1. <<n, m>> \in Nat \X Nat /\ <<n, m>>[1] < <<n, m>>[2]
      BY <1>1, <1>2, <2>1
    <3> QED
      BY <3>1 DEF OpToRel
  <2> HIDE DEF R, S
  <2>2. ASSUME NEW n \in S PROVE m <= n
    <3>1. n \in Nat /\ m \in Nat /\ ~(n < m)
      BY <1>1, <1>2, <2>1
    <3> QED
      BY <3>1
  <2> QED
    BY <2>2
<1>4. Min(S) \in S
  BY <1>3 DEF Min
<1> QED
  BY <1>4, TagsAreNumbers DEF CalverTag

LEMMA PreviousTyped ==
    ASSUME NEW vers \in Manifests, NEW t
    PROVE  PreviousVersion(vers, t) \in Versions
<1>1. DOMAIN vers \subseteq Tags
  BY PartialFun DEF Manifests
<1>2. \A ts \in SUBSET DOMAIN vers : ts # {} => LatestOf(vers, ts) \in Tags
  BY <1>1, LatestIsOne
<1> QED
  BY <1>2 DEF PreviousVersion, Versions

-----------------------------------------------------------------------------
(* The record sets the scripts work out.                                   *)
LEMMA UpsertIs ==
    ASSUME NEW recs, NEW fresh
    PROVE  /\ DOMAIN Upsert(recs, fresh) = DOMAIN recs \cup DOMAIN fresh
           /\ \A p \in DOMAIN recs : Upsert(recs, fresh)[p] = recs[p]
  BY DEF Upsert, Over, PreserveVersion

(* They are record sets, and say what becomes of the records there were.   *)
LEMMA UpsertTyped ==
    ASSUME NEW recs \in RecordSets, NEW fresh \in RecordSets
    PROVE  Upsert(recs, fresh) \in RecordSets
<1> DEFINE kept == PreserveVersion(fresh, recs)
<1>1. /\ DOMAIN kept = DOMAIN fresh /\ kept = [p \in DOMAIN kept |-> kept[p]]
      /\ \A p \in DOMAIN fresh : kept[p] = IF p \in DOMAIN recs THEN recs[p] ELSE fresh[p]
  BY DEF PreserveVersion
<1>2. /\ DOMAIN fresh \subseteq PRs
      /\ \A p \in DOMAIN recs : recs[p] \in Versions
      /\ \A p \in DOMAIN fresh : fresh[p] \in Versions
  BY PartialFun DEF RecordSets
<1>3. kept \in Partial(PRs, Versions)
  <2> HIDE DEF kept
  <2> QED
    BY <1>1, <1>2, PartialFun
<1>4. Upsert(recs, fresh) = Over(kept, recs)
  BY DEF Upsert
<1> HIDE DEF kept
<1> QED
  BY <1>3, <1>4, OverPartial DEF RecordSets

LEMMA BatchIs ==
    ASSUME NEW ps \in SUBSET PRs
    PROVE  SummarizeBatch(ps) \in RecordSets /\ DOMAIN SummarizeBatch(ps) = ps
<1>1. /\ DOMAIN SummarizeBatch(ps) = ps /\ \A p \in ps : SummarizeBatch(ps)[p] = Null
      /\ SummarizeBatch(ps) = [p \in DOMAIN SummarizeBatch(ps) |-> SummarizeBatch(ps)[p]]
  BY DEF SummarizeBatch
<1> QED
  BY <1>1, PartialFun DEF RecordSets, Versions

LEMMA HealIs ==
    ASSUME head \in 0..MaxPR, NEW recs \in RecordSets, NEW since \in Nat
    PROVE  /\ Heal(recs, since) \in RecordSets
           /\ DOMAIN recs \subseteq DOMAIN Heal(recs, since)
           /\ DOMAIN Heal(recs, since) \subseteq DOMAIN recs \cup 1..head
           /\ \A p \in DOMAIN recs : Heal(recs, since)[p] = recs[p]
<1> DEFINE ps == NeedSummary(recs, MergedSince(since))
<1>1. ps \subseteq 1..head /\ ps \subseteq PRs
  BY TagsAreNumbers DEF NeedSummary, MergedSince, PRs
<1> HIDE DEF ps
<1>2. Heal(recs, since) = Upsert(recs, SummarizeBatch(ps))
  BY DEF Heal, ps
<1> DEFINE fresh == SummarizeBatch(ps)
<1>3. fresh \in RecordSets /\ DOMAIN fresh = ps /\ Heal(recs, since) = Upsert(recs, fresh)
  BY <1>1, <1>2, BatchIs
<1> HIDE DEF fresh
<1>4. Heal(recs, since) \in RecordSets
  BY <1>3, UpsertTyped
<1>5. /\ DOMAIN Heal(recs, since) = DOMAIN recs \cup ps
      /\ \A p \in DOMAIN recs : Heal(recs, since)[p] = recs[p]
  BY <1>3, UpsertIs
<1> QED
  BY <1>1, <1>4, <1>5

LEMMA StampIs ==
    ASSUME NEW recs \in RecordSets, NEW ps, NEW t \in Tags
    PROVE  /\ StampVersion(recs, ps, t) \in RecordSets
           /\ DOMAIN StampVersion(recs, ps, t) = DOMAIN recs
           /\ \A p \in DOMAIN recs : StampVersion(recs, ps, t)[p] = IF p \in ps THEN t ELSE recs[p]
<1> DEFINE f == StampVersion(recs, ps, t)
<1>1. /\ DOMAIN f = DOMAIN recs /\ f = [p \in DOMAIN f |-> f[p]]
      /\ \A p \in DOMAIN recs : f[p] = IF p \in ps THEN t ELSE recs[p]
  BY DEF StampVersion
<1>2. DOMAIN recs \subseteq PRs /\ \A p \in DOMAIN recs : recs[p] \in Versions
  BY PartialFun DEF RecordSets
<1> HIDE DEF f
<1>3. f \in RecordSets
  BY <1>1, <1>2, PartialFun DEF RecordSets, Versions
<1> QED
  BY <1>1, <1>3 DEF f

LEMMA BackfillIs ==
    ASSUME NEW recs \in RecordSets, NEW vers \in Manifests
    PROVE  /\ BackfillVersionStamps(recs, vers) \in RecordSets
           /\ DOMAIN BackfillVersionStamps(recs, vers) = DOMAIN recs
           /\ \A p \in DOMAIN recs :
                /\ recs[p] # Null => BackfillVersionStamps(recs, vers)[p] # Null
                /\ \A t \in DOMAIN vers :
                     p \in vers[t].prs => BackfillVersionStamps(recs, vers)[p] # Null
<1> DEFINE f == BackfillVersionStamps(recs, vers)
           Claiming(p) == {t \in DOMAIN vers : p \in vers[t].prs}
<1>1. /\ DOMAIN f = DOMAIN recs /\ f = [p \in DOMAIN f |-> f[p]]
      /\ \A p \in DOMAIN recs :
           f[p] = IF Claiming(p) = {} THEN recs[p] ELSE LatestOf(vers, Claiming(p))
  BY DEF BackfillVersionStamps
<1>2. DOMAIN recs \subseteq PRs /\ \A p \in DOMAIN recs : recs[p] \in Versions
  BY PartialFun DEF RecordSets
<1>3. \A p : Claiming(p) # {} => LatestOf(vers, Claiming(p)) \in Tags
  <2>1. DOMAIN vers \subseteq Tags
    BY PartialFun DEF Manifests
  <2>2. \A p : Claiming(p) \in SUBSET DOMAIN vers
    OBVIOUS
  <2> HIDE DEF Claiming
  <2> QED
    BY <2>1, <2>2, LatestIsOne
<1>4. \A p \in DOMAIN recs : Claiming(p) # {} => f[p] \in Tags
  BY <1>1, <1>3
<1>5. \A p \in DOMAIN recs : Claiming(p) = {} => f[p] = recs[p]
  BY <1>1
<1>6. \A p \in DOMAIN recs : \A t \in DOMAIN vers : p \in vers[t].prs => Claiming(p) # {}
  OBVIOUS
<1> HIDE DEF f, Claiming
<1>7. f \in RecordSets
  BY <1>1, <1>2, <1>4, <1>5, PartialFun DEF RecordSets, Versions
<1>8. \A p \in DOMAIN recs : /\ recs[p] # Null => f[p] # Null
                             /\ \A t \in DOMAIN vers : p \in vers[t].prs => f[p] # Null
  BY <1>4, <1>5, <1>6, TagsAreNumbers
<1> QED
  BY <1>1, <1>7, <1>8 DEF f

(* What a parse keeps, and what update adds for a PR that is not merged.   *)
LEMMA ParsedIs ==
    ASSUME lines \in RecordSets
    PROVE  ParseRecords \in RecordSets /\ DOMAIN ParseRecords = DOMAIN lines \ bad
           /\ \A p \in DOMAIN ParseRecords : ParseRecords[p] = lines[p]
<1>1. /\ DOMAIN ParseRecords = DOMAIN lines \ bad
      /\ ParseRecords = [p \in DOMAIN ParseRecords |-> ParseRecords[p]]
      /\ \A p \in DOMAIN ParseRecords : ParseRecords[p] = lines[p]
  BY DEF ParseRecords
<1>2. DOMAIN lines \subseteq PRs /\ \A p \in DOMAIN lines : lines[p] \in Versions
  BY PartialFun DEF RecordSets
<1> HIDE DEF ParseRecords
<1> QED
  BY <1>1, <1>2, PartialFun DEF RecordSets

LEMMA InvalidIs ==
    ASSUME NEW p \in PRs
    PROVE  /\ Only(p, Null) \in RecordSets
           /\ Invalid({p}) \subseteq PRs /\ Invalid({p}) \cap 1..head = {}
           /\ {p} \subseteq Invalid({p}) \cup 1..head
  BY OnlyPartial DEF RecordSets, Versions, Invalid, AllMerged

-----------------------------------------------------------------------------
(* A run that goes on to its next step.                                    *)
Goes(s, k) ==
    /\ run' = [run EXCEPT ![s] = k]
    /\ k \in Runs /\ RunTyped(k)

RunsTyped == run \in [Slots -> Runs] /\ \A s \in Slots : RunTyped(run[s])

(* No run, a run that ends, and one that starts.                           *)
LEMMA NoRunTyped == NoRun \in Runs /\ RunTyped(NoRun) /\ NoRun.at = "idle"
<1>1. Empty \in RecordSets /\ Empty \in Manifests
  BY EmptyPartial DEF RecordSets, Manifests
<1>2. 0 \in 0..MaxPR
  BY TagsAreNumbers
<1> QED
  BY <1>1, <1>2 DEF NoRun, Runs, RunTyped, Steps, Versions

LEMMA GoesTyped ==
    ASSUME RunsTyped, NEW s \in Slots, NEW k, Goes(s, k)
    PROVE  /\ RunsTyped'
           /\ run'[s] = k /\ \A o \in Slots \ {s} : run'[o] = run[o]
  BY DEF RunsTyped, Goes

LEMMA EndsGoes ==
    ASSUME NEW s \in Slots, Ends(s)
    PROVE  Goes(s, NoRun)
  BY NoRunTyped DEF Ends, Goes

LEMMA StartGoes ==
    ASSUME NEW s \in Slots, NEW kind \in Kinds \cup {"none"}, NEW pr \in 0..MaxPR,
           NEW sha \in 0..MaxPR, kind = "update" => pr \in PRs, StartRun(s, kind, pr, sha)
    PROVE  \E k : /\ Goes(s, k) /\ k.at = "read" /\ k.kind = kind /\ k.malformed = {}
                  /\ k.vers = Empty
<1> DEFINE k == [NoRun EXCEPT !.kind = kind, !.at = "read", !.pr = pr, !.sha = sha]
<1>1. /\ k \in Runs /\ k.at = "read" /\ k.kind = kind /\ k.malformed = {} /\ k.pr = pr
      /\ k.vers = Empty
  <2>1. NoRun \in Runs /\ NoRun.malformed = {}
    BY NoRunTyped DEF NoRun
  <2>2. k \in Runs /\ k.at = "read" /\ k.kind = kind /\ k.pr = pr
    BY <2>1 DEF Runs, Steps
  <2>3. k.malformed = {} /\ k.vers = Empty
    BY <2>1 DEF Runs, NoRun
  <2> QED
    BY <2>2, <2>3
<1>2. run' = [run EXCEPT ![s] = k]
  BY DEF StartRun
<1> HIDE DEF k
<1>3. RunTyped(k)
  BY <1>1, NoRunTyped DEF RunTyped
<1> QED
  BY <1>1, <1>2, <1>3 DEF Goes

(* What starts in CI, and on a checkout.                                   *)
QueuedRun(k) ==
    /\ Goes("ci", k) /\ k.at = "read" /\ k.kind # "baseline"
    /\ k.malformed = {} /\ k.vers = Empty

LocalRun(k) ==
    /\ Goes("local", k) /\ k.at = "read" /\ k.kind \in Kinds
    /\ k.kind = "baseline" => ReleaseTags \subseteq {Baseline} \cap orphans
    /\ k.malformed = {} /\ k.vers = Empty

LEMMA QueuedGoes ==
    ASSUME ChangelogTypeOK, StartQueued
    PROVE  \E k : QueuedRun(k)
<1>1. PICK kind, pr, sha : kind = queued.kind /\ pr = queued.pr /\ sha = queued.sha
  OBVIOUS
<1>2. /\ kind \in {"none", "update", "cut", "reconcile"} /\ pr \in 0..MaxPR /\ sha \in 0..MaxPR
      /\ kind = "update" => pr \in PRs
  BY <1>1 DEF ChangelogTypeOK, Requests
<1>3. StartRun("ci", kind, pr, sha) /\ "ci" \in Slots
  BY <1>1 DEF StartQueued, Slots
<1>4. kind \in Kinds \cup {"none"} /\ kind # "baseline"
  BY <1>2 DEF Kinds, Cutting
<1>5. PICK k : /\ Goes("ci", k) /\ k.at = "read" /\ k.kind = kind /\ k.malformed = {}
               /\ k.vers = Empty
  BY <1>2, <1>3, <1>4, StartGoes
<1> QED
  BY <1>4, <1>5 DEF QueuedRun

LEMMA LocalGoes ==
    ASSUME ChangelogTypeOK, StartLocal
    PROVE  \E k : LocalRun(k)
<1>1. PRs \subseteq 0..MaxPR /\ 0 \in 0..MaxPR /\ head \in 0..MaxPR /\ "local" \in Slots
  BY TagsAreNumbers DEF ChangelogTypeOK, PRs, Slots
<1>2. \A kind : Targets(kind) \subseteq 0..MaxPR
  <2>1. 1..head \subseteq 0..MaxPR
    BY <1>1, TagsAreNumbers DEF ChangelogTypeOK
  <2> QED
    BY <1>1, <2>1 DEF Targets
<1>3. PICK kind \in locals.kinds, pr \in 0..MaxPR, sha \in 0..MaxPR :
        /\ StartRun("local", kind, pr, sha)
        /\ kind = "update" => pr \in PRs
        /\ kind = "baseline" => ReleaseTags \subseteq {Baseline} \cap orphans
  BY <1>1, <1>2 DEF StartLocal, ReleaseTags
<1>4. kind \in Kinds
  BY <1>3 DEF ChangelogTypeOK, Locals
<1>5. PICK k : /\ Goes("local", k) /\ k.at = "read" /\ k.kind = kind /\ k.malformed = {}
               /\ k.vers = Empty
  BY <1>1, <1>3, <1>4, StartGoes
<1> QED
  BY <1>3, <1>4, <1>5 DEF LocalRun

(* A run goes from its reads to its plan with what the store holds.        *)
LEMMA ReadGoes ==
    ASSUME ChangelogTypeOK, NEW s \in Slots, Read(s)
    PROVE  \E k : Goes(s, k) /\
             \/ k = NoRun
             \/ /\ k.at = "plan" /\ k.kind = run[s].kind /\ k.malformed = run[s].malformed
                /\ k.recs = ParseRecords /\ k.vers = manifest
<1>1. CASE Ends(s)
  BY <1>1, EndsGoes
<1>2. CASE run' = [run EXCEPT ![s].at = "plan", ![s].vers = manifest, ![s].recs = ParseRecords]
  <2> DEFINE k == [run[s] EXCEPT !.at = "plan", !.vers = manifest, !.recs = ParseRecords]
  <2>1. run[s] \in Runs /\ RunTyped(run[s]) /\ run[s].at = "read"
    BY DEF ChangelogTypeOK, Read
  <2>2. run' = [run EXCEPT ![s] = k]
    BY <1>2 DEF ChangelogTypeOK
  <2>3. manifest \in Manifests /\ ParseRecords \in RecordSets
    BY ParsedIs DEF ChangelogTypeOK
  <2>4. /\ k \in Runs /\ k.at = "plan" /\ k.kind = run[s].kind /\ k.malformed = run[s].malformed
        /\ k.recs = ParseRecords /\ k.vers = manifest /\ k.pr = run[s].pr
    BY <2>1, <2>3 DEF Runs, Steps
  <2> HIDE DEF k
  <2>5. RunTyped(k)
    BY <2>1, <2>4 DEF RunTyped
  <2> QED
    BY <2>2, <2>4, <2>5 DEF Goes
<1> QED
  BY <1>1, <1>2 DEF Read

(* What a plan may make of a run: the records it had are kept with their   *)
(* versions, and what it adds is merged or marked as malformed.            *)
Planned(s, k) ==
    /\ k.kind = run[s].kind /\ k.vers = run[s].vers
    /\ DOMAIN run[s].recs \subseteq DOMAIN k.recs
    /\ \A p \in DOMAIN run[s].recs : run[s].recs[p] # Null => k.recs[p] # Null
    /\ DOMAIN k.recs \ k.malformed \subseteq DOMAIN run[s].recs \cup 1..head
    /\ k.malformed \cap 1..head = {} \/ k.malformed = run[s].malformed
    /\ \/ k.at = "draft" /\ k.kind \in {"update", "backfill"}
       \/ k.at = "render" /\ k.kind = "reconcile" /\ k.malformed = run[s].malformed
       \/ /\ k.at = "release" /\ k.malformed = run[s].malformed
          /\ \/ k.kind = "cut" /\ k.tag \notin ReleaseTags /\ k.tag # Baseline
             \/ k.kind = "baseline" /\ k.tag = Baseline /\ Baseline \notin DOMAIN k.vers

(* Every plan is one of those: of update, backfill, reconcile, cut, baseline.*)
LEMMA ToDraftGoes ==
    ASSUME ChangelogTypeOK, NEW s \in Slots, run[s].at = "plan", NEW recs \in RecordSets,
           NEW malformed \in SUBSET PRs, ToDraft(s, recs, malformed)
    PROVE  \E k : /\ Goes(s, k) /\ k.at = "draft" /\ k.kind = run[s].kind /\ k.vers = run[s].vers
                  /\ k.recs = recs /\ k.malformed = malformed
<1> DEFINE k == [run[s] EXCEPT !.at = "draft", !.recs = recs, !.malformed = malformed]
<1>1. run[s] \in Runs /\ RunTyped(run[s])
  BY DEF ChangelogTypeOK
<1>2. run' = [run EXCEPT ![s] = k]
  BY DEF ChangelogTypeOK, ToDraft
<1>3. /\ k \in Runs /\ k.at = "draft" /\ k.kind = run[s].kind /\ k.vers = run[s].vers
      /\ k.recs = recs /\ k.malformed = malformed /\ k.pr = run[s].pr
  BY <1>1 DEF Runs, Steps
<1> HIDE DEF k
<1>4. RunTyped(k)
  BY <1>1, <1>3 DEF RunTyped
<1> QED
  BY <1>2, <1>3, <1>4 DEF Goes

LEMMA PlanGoes ==
    ASSUME ChangelogTypeOK, NEW s \in Slots, Plan(s)
    PROVE  \E k : Goes(s, k) /\ (k = NoRun \/ Planned(s, k))
<1>1. /\ run[s].at = "plan" /\ run[s] \in Runs /\ RunTyped(run[s]) /\ head \in 0..MaxPR
      /\ run[s].recs \in RecordSets /\ run[s].vers \in Manifests
  <2>1. run[s] \in Runs /\ RunTyped(run[s]) /\ head \in 0..MaxPR
    BY DEF ChangelogTypeOK
  <2>2. run[s].recs \in RecordSets /\ run[s].vers \in Manifests
    BY <2>1 DEF Runs
  <2> QED
    BY <2>1, <2>2 DEF Plan
<1>2. CASE PlanUpdate(s)
  <2> DEFINE p == run[s].pr
             fresh == Only(p, Null)
             recs == Upsert(run[s].recs, fresh)
             invalid == Invalid({p})
  <2>1. run[s].kind = "update" /\ p \in PRs /\ ToDraft(s, recs, invalid)
    BY <1>1, <1>2 DEF PlanUpdate, RunTyped, Summarize
  <2>2. /\ fresh \in RecordSets /\ DOMAIN fresh = {p}
        /\ invalid \in SUBSET PRs /\ invalid \cap 1..head = {}
        /\ {p} \subseteq invalid \cup 1..head
    <3>1. DOMAIN fresh = {p}
      BY DEF Only
    <3> QED
      BY <2>1, <3>1, InvalidIs
  <2> HIDE DEF p, fresh, invalid
  <2>3. recs \in RecordSets
    BY <1>1, <2>2, UpsertTyped
  <2>4. /\ DOMAIN recs = DOMAIN run[s].recs \cup {p}
        /\ \A q \in DOMAIN run[s].recs : recs[q] = run[s].recs[q]
    BY <2>2, UpsertIs
  <2> HIDE DEF recs
  <2>5. PICK k : /\ Goes(s, k) /\ k.at = "draft" /\ k.kind = run[s].kind /\ k.vers = run[s].vers
                 /\ k.recs = recs /\ k.malformed = invalid
    BY <1>1, <2>1, <2>2, <2>3, ToDraftGoes
  <2>6. Planned(s, k)
    BY <2>1, <2>2, <2>4, <2>5 DEF Planned
  <2> QED
    BY <2>5, <2>6
<1>3. CASE PlanBackfill(s)
  <2> DEFINE missing == NeedSummary(run[s].recs, AllMerged)
             fresh == SummarizeBatch(missing)
             recs == Upsert(run[s].recs, fresh)
  <2>1. run[s].kind = "backfill" /\ (ToDraft(s, recs, {}) \/ Ends(s))
    BY <1>3 DEF PlanBackfill
  <2>2. missing \subseteq 1..head /\ missing \in SUBSET PRs
    BY <1>1, TagsAreNumbers DEF NeedSummary, AllMerged, PRs
  <2> HIDE DEF missing
  <2>3. fresh \in RecordSets /\ DOMAIN fresh = missing
    BY <2>2, BatchIs
  <2> HIDE DEF fresh
  <2>4. recs \in RecordSets
    BY <1>1, <2>3, UpsertTyped
  <2>5. /\ DOMAIN recs = DOMAIN run[s].recs \cup missing
        /\ \A q \in DOMAIN run[s].recs : recs[q] = run[s].recs[q]
    BY <2>3, UpsertIs
  <2> HIDE DEF recs
  <2>6. CASE ToDraft(s, recs, {})
    <3>1. PICK k : /\ Goes(s, k) /\ k.at = "draft" /\ k.kind = run[s].kind /\ k.vers = run[s].vers
                   /\ k.recs = recs /\ k.malformed = {}
      BY <1>1, <2>4, <2>6, ToDraftGoes
    <3>2. Planned(s, k)
      BY <2>1, <2>2, <2>5, <3>1 DEF Planned
    <3> QED
      BY <3>1, <3>2
  <2> QED
    BY <2>1, <2>6, EndsGoes
<1>4. CASE PlanReconcile(s)
  <2>1. PICK since \in 0..aged :
          run' = [run EXCEPT
                    ![s].at = "render",
                    ![s].recs = BackfillVersionStamps(Heal(run[s].recs, since), run[s].vers)]
    BY <1>4 DEF PlanReconcile
  <2> DEFINE healed == Heal(run[s].recs, since)
             recs == BackfillVersionStamps(healed, run[s].vers)
             k == [run[s] EXCEPT !.at = "render", !.recs = recs]
  <2>2. since \in Nat
    BY DEF ChangelogTypeOK
  <2>3. /\ healed \in RecordSets /\ DOMAIN run[s].recs \subseteq DOMAIN healed
        /\ DOMAIN healed \subseteq DOMAIN run[s].recs \cup 1..head
        /\ \A p \in DOMAIN run[s].recs : healed[p] = run[s].recs[p]
    BY <1>1, <2>2, HealIs
  <2>4. run' = [run EXCEPT ![s] = k]
    BY <2>1 DEF ChangelogTypeOK
  <2> HIDE DEF healed
  <2>5. /\ recs \in RecordSets /\ DOMAIN recs = DOMAIN healed
        /\ \A p \in DOMAIN healed : healed[p] # Null => recs[p] # Null
    BY <1>1, <2>3, BackfillIs
  <2> HIDE DEF recs
  <2>6. /\ k \in Runs /\ k.at = "render" /\ k.kind = run[s].kind /\ k.vers = run[s].vers
        /\ k.recs = recs /\ k.malformed = run[s].malformed /\ k.pr = run[s].pr
    BY <1>1, <2>5 DEF Runs, Steps
  <2> HIDE DEF k
  <2>7. RunTyped(k)
    BY <1>1, <2>6 DEF RunTyped
  <2>8. Planned(s, k)
    BY <1>4, <2>3, <2>5, <2>6 DEF Planned, PlanReconcile
  <2> QED
    BY <2>4, <2>6, <2>7, <2>8 DEF Goes
<1>5. CASE PlanCut(s)
  <2>1. PICK since \in aged..head :
          LET healed == Heal(run[s].recs, since)
              tag == CalverTag(ReleaseTags \cup DOMAIN run[s].vers) IN
          IF Unreleased(healed) = {} THEN Ends(s)
          ELSE /\ tag \in Tags
               /\ run' = [run EXCEPT ![s].at = "release", ![s].recs = healed, ![s].tag = tag]
    BY <1>5 DEF PlanCut
  <2> DEFINE healed == Heal(run[s].recs, since)
             tag == CalverTag(ReleaseTags \cup DOMAIN run[s].vers)
             k == [run[s] EXCEPT !.at = "release", !.recs = healed, !.tag = tag]
  <2>2. since \in Nat
    BY <1>1 DEF ChangelogTypeOK
  <2>3. /\ healed \in RecordSets /\ DOMAIN run[s].recs \subseteq DOMAIN healed
        /\ DOMAIN healed \subseteq DOMAIN run[s].recs \cup 1..head
        /\ \A p \in DOMAIN run[s].recs : healed[p] = run[s].recs[p]
    BY <1>1, <2>2, HealIs
  <2>4. tag \notin ReleaseTags /\ tag # Baseline
    <3>1. ReleaseTags \cup DOMAIN run[s].vers \in SUBSET Tags
      <4>1. ReleaseTags \subseteq Tags
        BY PartialFun DEF ChangelogTypeOK, ReleaseTags
      <4> QED
        BY <1>1, <4>1, EntriesAre
    <3> QED
      BY <3>1, CalverIsFree DEF Baseline
  <2>5. CASE Ends(s)
    BY <2>5, EndsGoes
  <2>6. CASE /\ tag \in Tags
             /\ run' = [run EXCEPT ![s].at = "release", ![s].recs = healed, ![s].tag = tag]
    <3>1. run' = [run EXCEPT ![s] = k]
      BY <2>6 DEF ChangelogTypeOK
    <3> HIDE DEF healed, tag
    <3>2. /\ k \in Runs /\ k.at = "release" /\ k.kind = run[s].kind /\ k.vers = run[s].vers
          /\ k.recs = healed /\ k.malformed = run[s].malformed /\ k.pr = run[s].pr /\ k.tag = tag
      BY <1>1, <2>3, <2>6 DEF Runs, Steps, Versions
    <3> HIDE DEF k
    <3>3. RunTyped(k) /\ k.kind = "cut"
      BY <1>1, <1>5, <2>6, <3>2 DEF RunTyped, Cutting, PlanCut
    <3>4. Planned(s, k)
      BY <2>3, <2>4, <3>2, <3>3 DEF Planned
    <3> QED
      BY <3>1, <3>2, <3>3, <3>4 DEF Goes
  <2> QED
    BY <2>1, <2>5, <2>6
<1>6. CASE PlanBaseline(s)
  <2>1. CASE Ends(s)
    BY <2>1, EndsGoes
  <2>2. CASE ~Ends(s)
    <3> DEFINE k == [run[s] EXCEPT !.at = "release", !.tag = Baseline]
    <3>1. /\ run' = [run EXCEPT ![s].at = "release", ![s].tag = Baseline]
          /\ Baseline \notin DOMAIN run[s].vers
      BY <1>6, <2>2 DEF PlanBaseline
    <3>2. run' = [run EXCEPT ![s] = k]
      BY <3>1 DEF ChangelogTypeOK
    <3>3. Baseline \in Tags
      BY TagsAreNumbers DEF Baseline
    <3>4. /\ k \in Runs /\ k.at = "release" /\ k.kind = run[s].kind /\ k.vers = run[s].vers
          /\ k.recs = run[s].recs /\ k.malformed = run[s].malformed /\ k.pr = run[s].pr
          /\ k.tag = Baseline
      BY <1>1, <3>3 DEF Runs, Steps, Versions
    <3> HIDE DEF k
    <3>5. RunTyped(k) /\ k.kind = "baseline"
      BY <1>1, <1>6, <3>3, <3>4 DEF RunTyped, Cutting, PlanBaseline
    <3>6. Planned(s, k)
      BY <3>1, <3>4, <3>5 DEF Planned
    <3> QED
      BY <3>2, <3>4, <3>5, <3>6 DEF Goes
  <2> QED
    BY <2>1, <2>2
<1> QED
  BY <1>2, <1>3, <1>4, <1>5, <1>6 DEF Plan

(* There are finitely many releases, each with a body.                     *)
LEMMA ReleasesAre ==
    ASSUME ChangelogTypeOK
    PROVE  /\ ReleaseTags \subseteq Tags /\ IsFiniteSet(ReleaseTags)
           /\ \A t \in ReleaseTags : published[t] \in Bodies
<1>1. ReleaseTags \subseteq Tags /\ \A t \in ReleaseTags : published[t] \in Bodies
  BY PartialFun DEF ChangelogTypeOK, ReleaseTags
<1> QED
  BY <1>1, TagsAreNumbers, FS_Subset

(* The version of a tag: its body, its entry and its stamps.               *)
LEMMA CutIs ==
    ASSUME ChangelogTypeOK, NEW recs \in RecordSets, NEW t \in Tags
    PROVE  /\ BuildCut(recs, t) \in Entries
           /\ BuildCut(recs, t).prs = Unreleased(recs) /\ Unreleased(recs) \subseteq DOMAIN recs
           /\ BuildCut(recs, t).date = Cardinality(ReleaseTags \ {t})
<1>1. Cardinality(ReleaseTags \ {t}) \in Nat
  BY ReleasesAre, FS_Subset, FS_CardinalityType
<1>2. DOMAIN recs \subseteq PRs
  BY PartialFun DEF RecordSets
<1> QED
  BY <1>1, <1>2 DEF BuildCut, Unreleased, Entries

LEMMA RenderIs ==
    ASSUME NEW vers \in Manifests, NEW t, NEW ps \in SUBSET PRs
    PROVE  Render(vers, t, ps) \in Bodies /\ Render(vers, t, ps).prs = ps
<1>1. PreviousVersion(vers, t) \in Versions /\ Null \in Versions
  BY PreviousTyped DEF Versions
<1> QED
  BY <1>1 DEF Render, RenderBaseline, RenderVersion, Bodies

-----------------------------------------------------------------------------
(* The steps of a run from its plan to its end.                            *)
LEMMA EnsureTagRefGoes ==
    ASSUME ChangelogTypeOK, NEW s \in Slots, EnsureTagRef(s)
    PROVE  /\ refs' \in Partial(Tags, 0..MaxPR)
           /\ run[s].at \in {"release", "publish"}
           /\ \E k : Goes(s, k) /\
                \/ k = NoRun
                \/ /\ k.kind = run[s].kind /\ k.vers = run[s].vers /\ k.recs = run[s].recs
                   /\ k.malformed = run[s].malformed
                   /\ \/ k.at = "publish" /\ k.tag = run[s].tag /\ k.tag \notin ReleaseTags
                      \/ /\ k.at = "release" /\ k.kind = "cut"
                         /\ k.tag \notin ReleaseTags /\ k.tag # Baseline
<1> DEFINE next == CalverTag(ReleaseTags \cup {run[s].tag})
<1>1. /\ run[s].at \in {"release", "publish"} /\ run[s] \in Runs /\ RunTyped(run[s])
      /\ run[s].kind \in Cutting /\ run[s].tag \in Tags
      /\ refs \in Partial(Tags, 0..MaxPR) /\ run \in [Slots -> Runs]
  BY DEF ChangelogTypeOK, EnsureTagRef, RunTyped
<1>2. CASE /\ run[s].tag \notin ReleaseTags
           /\ refs' = Over(Only(run[s].tag, run[s].sha), refs)
           /\ run' = [run EXCEPT ![s].at = "publish"]
  <2> DEFINE k == [run[s] EXCEPT !.at = "publish"]
             one == Only(run[s].tag, run[s].sha)
  <2>1. one \in Partial(Tags, 0..MaxPR)
    <3>1. run[s].sha \in 0..MaxPR
      BY <1>1 DEF Runs
    <3> QED
      BY <1>1, <3>1, OnlyPartial
  <2>2. refs' = Over(one, refs) /\ run' = [run EXCEPT ![s] = k]
    BY <1>1, <1>2
  <2> HIDE DEF one
  <2>3. refs' \in Partial(Tags, 0..MaxPR)
    BY <1>1, <2>1, <2>2, OverPartial
  <2>4. /\ k \in Runs /\ k.at = "publish" /\ k.kind = run[s].kind /\ k.vers = run[s].vers
        /\ k.recs = run[s].recs /\ k.malformed = run[s].malformed /\ k.tag = run[s].tag
        /\ k.pr = run[s].pr
    BY <1>1 DEF Runs, Steps
  <2> HIDE DEF k
  <2>5. RunTyped(k)
    BY <1>1, <2>4 DEF RunTyped
  <2>6. k.tag \notin ReleaseTags
    BY <1>2, <2>4
  <2> QED
    BY <1>1, <2>2, <2>3, <2>4, <2>5, <2>6 DEF Goes
<1>3. CASE UNCHANGED refs /\ Ends(s)
  BY <1>1, <1>3, EndsGoes
<1>4. CASE /\ UNCHANGED refs /\ run[s].kind # "baseline" /\ next \in Tags
           /\ run' = [run EXCEPT ![s].at = "release", ![s].tag = next, ![s].retried = TRUE]
  <2> DEFINE k == [run[s] EXCEPT !.at = "release", !.tag = next, !.retried = TRUE]
  <2>1. run' = [run EXCEPT ![s] = k]
    BY <1>1, <1>4
  <2>2. next \notin ReleaseTags /\ next # Baseline
    <3>1. ReleaseTags \cup {run[s].tag} \in SUBSET Tags
      BY <1>1, ReleasesAre
    <3> QED
      BY <3>1, CalverIsFree DEF Baseline
  <2> HIDE DEF next
  <2>3. /\ k \in Runs /\ k.at = "release" /\ k.kind = run[s].kind /\ k.vers = run[s].vers
        /\ k.recs = run[s].recs /\ k.malformed = run[s].malformed /\ k.tag = next
        /\ k.pr = run[s].pr
    BY <1>1, <1>4 DEF Runs, Steps, Versions
  <2> HIDE DEF k
  <2>4. RunTyped(k) /\ k.kind = "cut"
    BY <1>1, <1>4, <2>3 DEF RunTyped, Cutting
  <2> QED
    BY <1>1, <1>4, <2>1, <2>2, <2>3, <2>4 DEF Goes
<1> QED
  BY <1>1, <1>2, <1>3, <1>4 DEF EnsureTagRef, Collides

(* What a run publishes, and takes into its own copy of the store.         *)
Published(s, k) ==
    LET cut == BuildCut(run[s].recs, run[s].tag) IN
    /\ run[s].at \in {"release", "publish"} /\ run[s].kind \in Cutting /\ run[s].tag \in Tags
    /\ published' = Over(Only(run[s].tag, Render(run[s].vers, run[s].tag, cut.prs)), published)
    /\ k.at = "draft" /\ k.kind = run[s].kind /\ k.tag = run[s].tag
    /\ k.malformed = run[s].malformed
    /\ k.recs = StampVersion(run[s].recs, cut.prs, run[s].tag)
    /\ k.vers = IF run[s].kind = "baseline" THEN Only(run[s].tag, cut)
                ELSE UpsertVersion(run[s].vers, run[s].tag, cut)

(* Publish and Rerender replace bodies by bodies.                          *)
LEMMA PublishGoes ==
    ASSUME ChangelogTypeOK, NEW s \in Slots, Publish(s)
    PROVE  /\ published' \in Partial(Tags, Bodies)
           /\ \E k : Goes(s, k) /\ Published(s, k)
<1> DEFINE tag == run[s].tag
           cut == BuildCut(run[s].recs, tag)
           recs == StampVersion(run[s].recs, cut.prs, tag)
           vers == IF run[s].kind = "baseline" THEN Only(tag, cut)
                   ELSE UpsertVersion(run[s].vers, tag, cut)
           k == [run[s] EXCEPT !.at = "draft", !.recs = recs, !.vers = vers]
           body == Render(run[s].vers, tag, cut.prs)
<1>1. /\ run[s].at \in {"release", "publish"} /\ run[s] \in Runs /\ RunTyped(run[s])
      /\ run[s].kind \in Cutting /\ tag \in Tags /\ run \in [Slots -> Runs]
      /\ published \in Partial(Tags, Bodies)
  BY DEF ChangelogTypeOK, Publish, RunTyped
<1>2. run[s].recs \in RecordSets /\ run[s].vers \in Manifests
  BY <1>1 DEF Runs
<1>3. run' = [run EXCEPT ![s] = k] /\ published' = Over(Only(tag, body), published)
  BY <1>1 DEF Publish
<1>4. cut \in Entries /\ cut.prs \in SUBSET PRs
  <2>1. cut \in Entries
    BY <1>1, <1>2, CutIs
  <2> QED
    BY <2>1 DEF Entries
<1>5. recs \in RecordSets
  BY <1>1, <1>2, StampIs
<1>6. vers \in Manifests
  <2>1. Only(tag, cut) \in Partial(Tags, Entries)
    BY <1>1, <1>4, OnlyPartial
  <2> HIDE DEF cut
  <2>2. Over(Only(tag, cut), run[s].vers) \in Partial(Tags, Entries)
    BY <1>2, <2>1, OverPartial DEF Manifests
  <2> QED
    BY <2>1, <2>2 DEF Manifests, UpsertVersion
<1>7. published' \in Partial(Tags, Bodies)
  <2>1. body \in Bodies
    BY <1>2, <1>4, RenderIs
  <2> HIDE DEF body
  <2>2. Only(tag, body) \in Partial(Tags, Bodies)
    BY <1>1, <2>1, OnlyPartial
  <2> QED
    BY <1>1, <1>3, <2>2, OverPartial
<1> HIDE DEF recs, vers
<1>8. /\ k \in Runs /\ k.at = "draft" /\ k.kind = run[s].kind /\ k.vers = vers
      /\ k.recs = recs /\ k.malformed = run[s].malformed /\ k.tag = tag
      /\ k.pr = run[s].pr
  BY <1>1, <1>5, <1>6 DEF Runs, Steps
<1> HIDE DEF k
<1>9. RunTyped(k)
  BY <1>1, <1>8 DEF RunTyped
<1>10. Published(s, k)
  BY <1>1, <1>3, <1>8 DEF Published, recs, vers
<1> QED
  BY <1>3, <1>7, <1>8, <1>9, <1>10 DEF Goes

LEMMA RerenderGoes ==
    ASSUME ChangelogTypeOK, NEW s \in Slots, Rerender(s)
    PROVE  /\ published' \in Partial(Tags, Bodies)
           /\ run[s].at = "render"
           /\ \E k : /\ Goes(s, k) /\ k.at = "draft" /\ k.kind = run[s].kind
                     /\ k.vers = run[s].vers /\ k.recs = run[s].recs
                     /\ k.malformed = run[s].malformed
<1> DEFINE r == run[s]
           again == [t \in Renderable(r) |-> Render(r.vers, t, r.vers[t].prs \cap DOMAIN r.recs)]
           k == [run[s] EXCEPT !.at = "draft"]
<1>1. /\ r.at = "render" /\ r \in Runs /\ RunTyped(r) /\ run \in [Slots -> Runs]
      /\ published \in Partial(Tags, Bodies)
      /\ published' = Over(again, published) /\ run' = [run EXCEPT ![s].at = "draft"]
  BY DEF ChangelogTypeOK, Rerender
<1>2. r.recs \in RecordSets /\ r.vers \in Manifests
  BY <1>1 DEF Runs
<1>3. again \in Partial(Tags, Bodies)
  <2>1. DOMAIN again \subseteq Tags /\ again = [t \in DOMAIN again |-> again[t]]
    BY <1>2, EntriesAre DEF Renderable
  <2>2. ASSUME NEW t \in DOMAIN again PROVE again[t] \in Bodies
    <3>1. t \in DOMAIN r.vers /\ again[t] = Render(r.vers, t, r.vers[t].prs \cap DOMAIN r.recs)
      BY <2>2 DEF Renderable
    <3>2. r.vers[t].prs \cap DOMAIN r.recs \in SUBSET PRs
      BY <1>2, <3>1, EntriesAre
    <3> QED
      BY <1>2, <3>1, <3>2, RenderIs
  <2> HIDE DEF again
  <2> QED
    BY <2>1, <2>2, PartialFun
<1> HIDE DEF again
<1>4. published' \in Partial(Tags, Bodies)
  BY <1>1, <1>3, OverPartial
<1>5. run' = [run EXCEPT ![s] = k]
  BY <1>1
<1>6. /\ k \in Runs /\ k.at = "draft" /\ k.kind = run[s].kind /\ k.vers = run[s].vers
      /\ k.recs = run[s].recs /\ k.malformed = run[s].malformed /\ k.pr = run[s].pr
  BY <1>1 DEF Runs, Steps
<1> HIDE DEF k
<1>7. RunTyped(k)
  BY <1>1, <1>6 DEF RunTyped
<1> QED
  BY <1>1, <1>4, <1>5, <1>6, <1>7 DEF Goes

(* The three steps of writeDraft, and the death of a run.                  *)
LEMMA EditDraftGoes ==
    ASSUME ChangelogTypeOK, NEW s \in Slots, EditDraft(s)
    PROVE  /\ preview' \subseteq PRs
           /\ run[s].at = "draft"
           /\ \E k : /\ Goes(s, k) /\ k.at = "upload" /\ k.kind = run[s].kind
                     /\ k.tag = run[s].tag /\ k.vers = run[s].vers /\ k.recs = run[s].recs
                     /\ k.malformed = run[s].malformed /\ k.gone = Assets /\ k.owed = Assets
<1> DEFINE k == [run[s] EXCEPT !.at = "upload", !.gone = Assets, !.owed = Assets]
<1>1. /\ run[s].at = "draft" /\ run[s] \in Runs /\ RunTyped(run[s]) /\ run \in [Slots -> Runs]
  BY DEF ChangelogTypeOK, EditDraft
<1>2. preview' \subseteq PRs
  <2>1. run[s].recs \in RecordSets
    BY <1>1 DEF Runs
  <2>2. DOMAIN run[s].recs \subseteq PRs
    BY <2>1, PartialFun DEF RecordSets
  <2> QED
    BY <2>2 DEF EditDraft, RenderUnreleased, Unreleased
<1>3. run' = [run EXCEPT ![s] = k]
  BY <1>1 DEF EditDraft
<1>4. /\ k \in Runs /\ k.at = "upload" /\ k.kind = run[s].kind /\ k.vers = run[s].vers
      /\ k.recs = run[s].recs /\ k.malformed = run[s].malformed /\ k.pr = run[s].pr
      /\ k.tag = run[s].tag /\ k.gone = Assets /\ k.owed = Assets
  BY <1>1 DEF Runs, Steps
<1> HIDE DEF k
<1>5. RunTyped(k)
  BY <1>1, <1>4 DEF RunTyped
<1> QED
  BY <1>1, <1>2, <1>3, <1>4, <1>5 DEF Goes

LEMMA DeleteAssetGoes ==
    ASSUME ChangelogTypeOK, NEW s \in Slots, DeleteAsset(s)
    PROVE  /\ run[s].at = "upload"
           /\ \E a \in run[s].gone :
                /\ \E k : /\ Goes(s, k) /\ k.at = "upload" /\ k.kind = run[s].kind
                          /\ k.tag = run[s].tag /\ k.vers = run[s].vers /\ k.recs = run[s].recs
                          /\ k.malformed = run[s].malformed /\ k.gone = run[s].gone \ {a}
                          /\ k.owed = run[s].owed
                /\ IF a = "records"
                     THEN lines' = Empty /\ bad' = {} /\ UNCHANGED manifest
                     ELSE manifest' = Empty /\ UNCHANGED <<lines, bad>>
<1>1. PICK a \in run[s].gone :
        /\ run' = [run EXCEPT ![s].gone = @ \ {a}]
        /\ IF a = "records"
             THEN lines' = Empty /\ bad' = {} /\ UNCHANGED manifest
             ELSE manifest' = Empty /\ UNCHANGED <<lines, bad>>
  BY DEF DeleteAsset
<1> DEFINE gone == run[s].gone \ {a}
           k == [run[s] EXCEPT !.gone = gone]
<1>2. /\ run[s].at = "upload" /\ run[s] \in Runs /\ RunTyped(run[s]) /\ run \in [Slots -> Runs]
  BY DEF ChangelogTypeOK, DeleteAsset
<1>3. run' = [run EXCEPT ![s] = k]
  BY <1>1, <1>2
<1>4. gone \in SUBSET Assets
  BY <1>2 DEF Runs
<1> HIDE DEF gone
<1>5. /\ k \in Runs /\ k.at = "upload" /\ k.kind = run[s].kind /\ k.vers = run[s].vers
      /\ k.recs = run[s].recs /\ k.malformed = run[s].malformed /\ k.pr = run[s].pr
      /\ k.tag = run[s].tag /\ k.gone = gone /\ k.owed = run[s].owed
  BY <1>2, <1>4 DEF Runs, Steps
<1> HIDE DEF k
<1>6. RunTyped(k)
  BY <1>2, <1>5 DEF RunTyped
<1> QED
  BY <1>1, <1>2, <1>3, <1>5, <1>6 DEF Goes, gone

LEMMA UploadAssetGoes ==
    ASSUME ChangelogTypeOK, NEW s \in Slots, UploadAsset(s)
    PROVE  /\ run[s].at = "upload"
           /\ \E a \in run[s].owed \ run[s].gone :
                /\ \E k : Goes(s, k) /\
                     \/ k = NoRun /\ run[s].owed = {a}
                     \/ /\ k.at = "upload" /\ k.kind = run[s].kind
                        /\ k.tag = run[s].tag /\ k.vers = run[s].vers /\ k.recs = run[s].recs
                        /\ k.malformed = run[s].malformed /\ k.gone = run[s].gone
                        /\ k.owed = run[s].owed \ {a} /\ run[s].owed # {a}
                /\ IF a = "records"
                     THEN lines' = run[s].recs /\ bad' = run[s].malformed /\ UNCHANGED manifest
                     ELSE manifest' = run[s].vers /\ UNCHANGED <<lines, bad>>
<1>1. PICK a \in run[s].owed \ run[s].gone :
        /\ IF run[s].owed = {a} THEN Ends(s) ELSE run' = [run EXCEPT ![s].owed = @ \ {a}]
        /\ IF a = "records"
             THEN lines' = run[s].recs /\ bad' = run[s].malformed /\ UNCHANGED manifest
             ELSE manifest' = run[s].vers /\ UNCHANGED <<lines, bad>>
  BY DEF UploadAsset
<1> DEFINE owed == run[s].owed \ {a}
           k == [run[s] EXCEPT !.owed = owed]
<1>2. /\ run[s].at = "upload" /\ run[s] \in Runs /\ RunTyped(run[s]) /\ run \in [Slots -> Runs]
  BY DEF ChangelogTypeOK, UploadAsset
<1>3. CASE run[s].owed = {a}
  BY <1>1, <1>2, <1>3, EndsGoes
<1>4. CASE run[s].owed # {a}
  <2>1. run' = [run EXCEPT ![s] = k]
    BY <1>1, <1>2, <1>4
  <2>2. owed \in SUBSET Assets
    BY <1>2 DEF Runs
  <2> HIDE DEF owed
  <2>3. /\ k \in Runs /\ k.at = "upload" /\ k.kind = run[s].kind /\ k.vers = run[s].vers
        /\ k.recs = run[s].recs /\ k.malformed = run[s].malformed /\ k.pr = run[s].pr
        /\ k.tag = run[s].tag /\ k.gone = run[s].gone /\ k.owed = owed
    BY <1>2, <2>2 DEF Runs, Steps
  <2> HIDE DEF k
  <2>4. RunTyped(k)
    BY <1>2, <2>3 DEF RunTyped
  <2> QED
    BY <1>1, <1>2, <1>4, <2>1, <2>3, <2>4 DEF Goes, owed
<1> QED
  BY <1>3, <1>4

LEMMA DiesGoes ==
    ASSUME ChangelogTypeOK, NEW s \in Slots, Dies(s)
    PROVE  Goes(s, NoRun) /\ run[s] # NoRun
  BY EndsGoes DEF Dies

(* The types hold at first, and every step keeps them.                     *)
LEMMA TypeInit == ChangelogInit => ChangelogTypeOK
<1> SUFFICES ASSUME ChangelogInit PROVE ChangelogTypeOK
  OBVIOUS
<1>1. /\ Empty \in RecordSets /\ Empty \in Manifests /\ Empty \in Partial(Tags, 0..MaxPR)
      /\ Empty \in Partial(Tags, Bodies)
  BY EmptyPartial DEF RecordSets, Manifests
<1>2. 0 \in 0..MaxPR /\ MaxPR \in Nat
  BY ChangelogAssumption DEF ChangelogAssumption
<1>3. NoJob \in Requests /\ NoJob.kind = "none"
  BY <1>2 DEF NoJob, Requests
<1>4. run \in [Slots -> Runs] /\ \A s \in Slots : RunTyped(run[s])
  BY NoRunTyped DEF ChangelogInit
<1>5. queued.kind = "update" => queued.pr \in PRs
  BY <1>3 DEF ChangelogInit
<1>6. /\ merges \in 0..MaxPR /\ mishaps \in Nat /\ dispatches \in Nat /\ locals \in Locals
  <2>1. PICK b \in Budgets :
          /\ merges = b.merges /\ mishaps = b.mishaps
          /\ dispatches = b.dispatches /\ locals = b.locals
    BY DEF ChangelogInit
  <2>2. b \in [merges : 0..MaxPR, mishaps : Nat, dispatches : Nat, locals : Locals]
    BY ChangelogAssumption DEF ChangelogAssumption
  <2> QED
    BY <2>1, <2>2
<1>7. merges \in Nat /\ head + merges <= MaxPR
  BY <1>2, <1>6 DEF ChangelogInit
<1>8. torn \in BOOLEAN /\ crossed \in BOOLEAN
  BY DEF ChangelogInit
<1> QED
  BY <1>1, <1>2, <1>3, <1>4, <1>5, <1>6, <1>7, <1>8 DEF ChangelogInit, ChangelogTypeOK

LEMMA QueueTyped ==
    ASSUME NEW kind \in {"none", "update", "cut", "reconcile"}, NEW pr \in 0..MaxPR,
           NEW sha \in 0..MaxPR, kind = "update" => pr \in PRs, Enqueue(kind, pr, sha)
    PROVE  /\ queued' \in Requests
           /\ queued'.kind = "update" => queued'.pr \in PRs
  BY DEF Enqueue, Requests

LEMMA WorkType ==
    ASSUME ChangelogTypeOK, NEW s \in Slots, Work(s)
    PROVE  ChangelogTypeOK'
<1> USE DEF store, releases, bounds, mayHappen, past, losses
<1>1. CASE Read(s)
  <2>1. PICK k : Goes(s, k)
    BY <1>1, ReadGoes
  <2> QED
    BY <1>1, <2>1, GoesTyped DEF ChangelogTypeOK, RunsTyped, Read, NoteCrossing
<1>2. CASE Plan(s)
  <2>1. PICK k : Goes(s, k)
    BY <1>2, PlanGoes
  <2> QED
    BY <1>2, <2>1, GoesTyped DEF ChangelogTypeOK, RunsTyped, Plan
<1>3. CASE EnsureTagRef(s)
  <2>1. PICK k : Goes(s, k)
    BY <1>3, EnsureTagRefGoes
  <2>2. refs' \in Partial(Tags, 0..MaxPR)
    BY <1>3, EnsureTagRefGoes
  <2> QED
    BY <1>3, <2>1, <2>2, GoesTyped DEF ChangelogTypeOK, RunsTyped, EnsureTagRef
<1>4. CASE Publish(s)
  <2>1. PICK k : Goes(s, k)
    BY <1>4, PublishGoes
  <2>2. published' \in Partial(Tags, Bodies)
    BY <1>4, PublishGoes
  <2>3. recut' \subseteq Tags
    <3>1. run[s].tag \in Tags
      BY <1>4, PublishGoes DEF Published
    <3> QED
      BY <1>4, <3>1 DEF Publish, ChangelogTypeOK
  <2> QED
    BY <1>4, <2>1, <2>2, <2>3, GoesTyped DEF ChangelogTypeOK, RunsTyped, Publish, NoteCrossing
<1>5. CASE Rerender(s)
  <2>1. PICK k : Goes(s, k)
    BY <1>5, RerenderGoes
  <2>2. published' \in Partial(Tags, Bodies)
    BY <1>5, RerenderGoes
  <2> QED
    BY <1>5, <2>1, <2>2, GoesTyped DEF ChangelogTypeOK, RunsTyped, Rerender
<1>6. CASE EditDraft(s)
  <2>1. PICK k : Goes(s, k)
    BY <1>6, EditDraftGoes
  <2>2. preview' \subseteq PRs
    BY <1>6, EditDraftGoes
  <2> QED
    BY <1>6, <2>1, <2>2, GoesTyped DEF ChangelogTypeOK, RunsTyped, EditDraft
<1>7. CASE DeleteAsset(s)
  <2>1. PICK k : Goes(s, k)
    BY <1>7, DeleteAssetGoes
  <2>2. lines' \in RecordSets /\ bad' \subseteq PRs /\ manifest' \in Manifests
    <3>1. Empty \in RecordSets /\ Empty \in Manifests
      BY EmptyPartial DEF RecordSets, Manifests
    <3> QED
      BY <1>7, <3>1, DeleteAssetGoes DEF ChangelogTypeOK
  <2> QED
    BY <1>7, <2>1, <2>2, GoesTyped DEF ChangelogTypeOK, RunsTyped, DeleteAsset, NoteCrossing
<1>8. CASE UploadAsset(s)
  <2>1. PICK k : Goes(s, k)
    BY <1>8, UploadAssetGoes
  <2>2. lines' \in RecordSets /\ bad' \subseteq PRs /\ manifest' \in Manifests
    <3>1. run[s] \in Runs
      BY DEF ChangelogTypeOK
    <3>2. run[s].recs \in RecordSets /\ run[s].malformed \subseteq PRs /\ run[s].vers \in Manifests
      BY <3>1 DEF Runs
    <3> QED
      BY <1>8, <3>2, UploadAssetGoes DEF ChangelogTypeOK
  <2> QED
    BY <1>8, <2>1, <2>2, GoesTyped DEF ChangelogTypeOK, RunsTyped, UploadAsset
<1> QED
  BY <1>1, <1>2, <1>3, <1>4, <1>5, <1>6, <1>7, <1>8 DEF Work

LEMMA TypeStep ==
    ASSUME ChangelogTypeOK, [ChangelogNext]_changelogVars
    PROVE  ChangelogTypeOK'
<1> USE DEF store, releases, bounds, mayHappen, past, losses
<1>0. /\ MaxPR \in Nat /\ 1..head \subseteq PRs /\ head \in 0..MaxPR
      /\ 0 \in 0..MaxPR /\ PRs \subseteq 0..MaxPR
  BY TagsAreNumbers DEF ChangelogTypeOK, PRs
<1>1. CASE Merge
  <2>1. /\ head' \in 0..MaxPR /\ head + 1 \in PRs
        /\ merges' \in Nat /\ head' + merges' <= MaxPR
    BY <1>0, <1>1 DEF Merge, PRs, ChangelogTypeOK
  <2>2. /\ queued' \in Requests
        /\ queued'.kind = "update" => queued'.pr \in PRs
    BY <1>0, <1>1, <2>1, QueueTyped DEF Merge
  <2> QED
    BY <1>1, <2>1, <2>2 DEF Merge, ChangelogTypeOK
<1>2. CASE Dispatch
  <2>1. PICK n \in 1..head : Enqueue("update", n, 0) \/ Enqueue("cut", 0, n)
    BY <1>2 DEF Dispatch
  <2>2. /\ queued' \in Requests
        /\ queued'.kind = "update" => queued'.pr \in PRs
    BY <1>0, <2>1, QueueTyped
  <2>3. dispatches' \in Nat
    BY <1>2 DEF Dispatch, ChangelogTypeOK
  <2> QED
    BY <1>2, <2>2, <2>3 DEF Dispatch, ChangelogTypeOK
<1>3. CASE Schedule
  <2>1. /\ queued' \in Requests
        /\ queued'.kind = "update" => queued'.pr \in PRs
    BY <1>0, <1>3, QueueTyped DEF Schedule
  <2> QED
    BY <1>3, <2>1 DEF Schedule, ChangelogTypeOK
<1>4. CASE StartQueued
  <2>1. PICK k : Goes("ci", k)
    BY <1>4, QueuedGoes DEF QueuedRun
  <2>2. NoJob \in Requests /\ NoJob.kind = "none" /\ "ci" \in Slots
    BY <1>0 DEF NoJob, Requests, Slots
  <2> QED
    BY <1>4, <2>1, <2>2, GoesTyped DEF ChangelogTypeOK, RunsTyped, StartQueued
<1>5. CASE StartLocal
  <2>1. PICK k : Goes("local", k)
    BY <1>5, LocalGoes DEF LocalRun
  <2>2. locals' \in Locals /\ crossed' \in BOOLEAN /\ "local" \in Slots
    BY <1>5 DEF StartLocal, Locals, NoteCrossing, ChangelogTypeOK, Slots
  <2> QED
    BY <1>5, <2>1, <2>2, GoesTyped DEF ChangelogTypeOK, RunsTyped, StartLocal
<1>6. CASE Age
  <2>1. aged' \in 0..MaxPR
    BY <1>0, <1>6 DEF Age, ChangelogTypeOK
  <2> QED
    BY <1>6, <2>1 DEF Age, ChangelogTypeOK
<1>7. CASE Damage
  <2>1. PICK p \in DOMAIN lines \ bad : bad' = bad \cup {p} /\ damaged' = damaged \cup {p}
    BY <1>7 DEF Damage
  <2>2. p \in PRs
    BY PartialFun DEF ChangelogTypeOK, RecordSets
  <2>3. mishaps' \in Nat
    BY <1>7 DEF Damage, ChangelogTypeOK
  <2> QED
    BY <1>7, <2>1, <2>2, <2>3 DEF Damage, ChangelogTypeOK
<1>8. ASSUME NEW s \in Slots, Dies(s) PROVE ChangelogTypeOK'
  <2>1. Goes(s, NoRun)
    BY <1>8, DiesGoes
  <2>2. mishaps' \in Nat
    BY <1>8 DEF Dies, ChangelogTypeOK
  <2>3. orphans' \subseteq Versions
    <3>1. run[s] \in Runs
      BY DEF ChangelogTypeOK
    <3>2. run[s].tag \in Versions
      BY <3>1 DEF Runs
    <3> QED
      BY <1>8, <3>2 DEF Dies, ChangelogTypeOK
  <2>4. torn' \in BOOLEAN
    BY <1>8 DEF Dies
  <2> QED
    BY <1>8, <2>1, <2>2, <2>3, <2>4, GoesTyped DEF ChangelogTypeOK, RunsTyped, Dies
<1>9. CASE UNCHANGED changelogVars
  BY <1>9 DEF changelogVars, ChangelogTypeOK
<1> QED
  BY <1>1, <1>2, <1>3, <1>4, <1>5, <1>6, <1>7, <1>8, <1>9, WorkType DEF ChangelogNext

(* The assets, the releases, the queue and the runs keep their types: a    *)
(* request for update has a PR, only a cut or a baseline has a tag to      *)
(* publish, and a slot where nothing runs holds nothing.                   *)
THEOREM ChangelogTypeCorrect == ChangelogSpec => []ChangelogTypeOK
  BY TypeInit, TypeStep, PTL DEF ChangelogSpec

(* The releases whose run lived to record them.                            *)
Sound == ReleaseTags \ orphans

(* Where a run holds a copy of the store.                                  *)
MidRun == {"plan", "release", "publish", "render", "draft", "upload"}

(* Every version of a manifest was published, with the PRs it lists, and   *)
(* rendering it again gives the body it has; each is older than the next.  *)
VersionsTrue(vers) ==
    \A t \in DOMAIN vers :
        /\ t \in ReleaseTags /\ vers[t].date < Cardinality(ReleaseTags)
        /\ vers[t].prs = published[t].prs /\ published[t] = Render(vers, t, vers[t].prs)

(* Every PR of a release carries a version. *)
Stamped(recs) ==
    \A t \in Sound : \A p \in published[t].prs \ damaged : p \in DOMAIN recs /\ recs[p] # Null

(* What is recorded, and what is published, is merged.                     *)
Merged ==
    /\ DOMAIN lines \ bad \subseteq 1..head
    /\ \A t \in ReleaseTags : published[t].prs \subseteq 1..head

(* The copy of a run says the truth of the releases: its versions are      *)
(* theirs, and the PRs of every one are in it with a version.              *)
CopyTrue(r) ==
    r.at \in MidRun =>
        /\ VersionsTrue(r.vers)
        /\ DOMAIN r.recs \ r.malformed \subseteq 1..head
        /\ ~torn => Sound \subseteq DOMAIN r.vers
        /\ ~torn => \A t \in Sound : \A p \in published[t].prs \ damaged :
                       p \in DOMAIN r.recs /\ r.recs[p] # Null

(* A record that will not validate is of a PR that is in no release.       *)
MalformedAside(r) ==
    /\ r.at \notin {"draft", "upload"} => r.malformed = {}
    /\ \A t \in ReleaseTags : r.malformed \cap published[t].prs = {}

(* Until it writes, a run that publishes has the manifest as it is; the    *)
(* baseline is of nothing that was cut, a cut of a tag that is free.       *)
Unwritten(r) ==
    /\ r.at \in {"plan", "release", "publish"} => r.vers = manifest
    /\ r.at = "render" => r.kind = "reconcile"
    /\ r.kind = "baseline" /\ r.at \in {"read", "plan", "release", "publish"} =>
         ReleaseTags \subseteq {Baseline} \cap orphans
    /\ r.at \in {"release", "publish"} =>
         IF r.kind = "baseline" THEN r.tag = Baseline /\ DOMAIN r.vers = {}
         ELSE r.tag \notin ReleaseTags

(* While it uploads, an asset it has written is right, and one it has not  *)
(* is the one that it deletes, if anything.                                *)
HalfWritten(r) ==
    r.at = "upload" =>
        /\ r.gone \subseteq r.owed
        /\ ~torn /\ "records" \notin r.owed => Stamped(ParseRecords)
        /\ "versions" \notin r.owed => manifest = r.vers

(* The release that a run has published and not recorded.                  *)
Unrecorded(r) == IF r.kind \in Cutting /\ r.at \in {"draft", "upload"} THEN {r.tag} ELSE {}

(* The store is whole: it knows every other release, and its records stamp *)
(* their PRs.  Between the steps of an upload nothing is said.             *)
StoreHas(r) ==
    ~torn /\ (r.at = "upload" => r.gone = Assets) =>
        \A t \in Sound \ Unrecorded(r) :
            /\ t \in DOMAIN manifest
            /\ \A p \in published[t].prs \ damaged :
                 p \in DOMAIN ParseRecords /\ ParseRecords[p] # Null

Whole(r) == CopyTrue(r) /\ MalformedAside(r) /\ Unwritten(r) /\ HalfWritten(r) /\ StoreHas(r)

(* Nobody writes in the other slots.                                       *)
Undisturbed(s) == \A o \in Slots \ {s} : ~Writing(run[o])

(* A PR ships in one version.                                              *)
Once ==
    ~torn => \A t, u \in DOMAIN published \ orphans :
        t # u => published[t].prs \cap published[u].prs \subseteq damaged

(* What holds of the releases and the manifest whatever runs.              *)
Books == Merged /\ VersionsTrue(manifest) /\ Once

(* Until two runs cross: nobody writes while another relies on the store,  *)
(* and all of the above holds of a run that is not disturbed; of a slot    *)
(* where nothing runs it is what the store holds while nobody writes.      *)
StoreIInv ==
    /\ ~Crossing
    /\ Books
    /\ \A s \in Slots : run[s].at \in {"idle", "read"} => run[s].malformed = {}
    /\ \A s \in Slots : Undisturbed(s) => Whole(run[s])

-----------------------------------------------------------------------------
(* What does not touch the store or the releases keeps the invariant.      *)
LEMMA WholeKept ==
    ASSUME ChangelogTypeOK, NEW r, Whole(r), head' \in Nat, head' >= head,
           UNCHANGED <<store, published, torn, damaged>>, orphans \subseteq orphans'
    PROVE  Whole(r)'
<1>1. 1..head \subseteq 1..head'
  BY DEF ChangelogTypeOK
<1>2. UNCHANGED <<lines, bad, manifest, published, torn, damaged>>
  BY DEF store
<1>3. Sound' \subseteq Sound /\ ReleaseTags' = ReleaseTags /\ ParseRecords' = ParseRecords
  BY <1>2 DEF Sound, ReleaseTags, ParseRecords
<1>4. CopyTrue(r)'
  BY <1>1, <1>2, <1>3 DEF Whole, CopyTrue, VersionsTrue
<1>5. MalformedAside(r)' /\ Unwritten(r)'
  BY <1>2, <1>3 DEF Whole, MalformedAside, Unwritten
<1>6. HalfWritten(r)'
  BY <1>2, <1>3 DEF Whole, HalfWritten, Stamped
<1>7. StoreHas(r)'
  <2>1. Unrecorded(r)' = Unrecorded(r)
    BY DEF Unrecorded
  <2> QED
    BY <1>2, <1>3, <2>1 DEF Whole, StoreHas
<1> QED
  BY <1>4, <1>5, <1>6, <1>7 DEF Whole

LEMMA BooksKept ==
    ASSUME ChangelogTypeOK, Books, head' \in Nat, head' >= head,
           UNCHANGED <<store, published, torn, damaged>>, orphans \subseteq orphans'
    PROVE  Books'
<1>1. 1..head \subseteq 1..head'
  BY DEF ChangelogTypeOK
<1>2. UNCHANGED <<lines, bad, manifest, published, torn, damaged>>
  BY DEF store
<1>3. ReleaseTags' = ReleaseTags
  BY <1>2 DEF ReleaseTags
<1> QED
  BY <1>1, <1>2, <1>3 DEF Books, Merged, VersionsTrue, Once

(* What the published releases, and what the store, says of a run that     *)
(* goes on without touching either.                                        *)
LEMMA CopyKept ==
    ASSUME NEW r, NEW k, CopyTrue(r), r.at \in MidRun, k.vers = r.vers, k.recs = r.recs,
           k.malformed = r.malformed, UNCHANGED <<head, published, losses>>
    PROVE  CopyTrue(k)'
<1>1. UNCHANGED <<head, published, torn, damaged, orphans>>
  BY DEF losses
<1>2. Sound' = Sound /\ ReleaseTags' = ReleaseTags
  BY <1>1 DEF Sound, ReleaseTags
<1> QED
  BY <1>1, <1>2 DEF CopyTrue, VersionsTrue

LEMMA StoreKept ==
    ASSUME NEW r, NEW k, StoreHas(r), Unrecorded(r) \subseteq Unrecorded(k),
           r.at = "upload" => r.gone = Assets, UNCHANGED <<store, published, losses>>
    PROVE  StoreHas(k)'
<1>1. UNCHANGED <<lines, bad, manifest, published, torn, damaged, orphans>>
  BY DEF store, losses
<1>2. Sound' = Sound /\ ParseRecords' = ParseRecords
  BY <1>1 DEF Sound, ReleaseTags, ParseRecords
<1>3. Unrecorded(k)' = Unrecorded(k)
  BY DEF Unrecorded
<1> QED
  BY <1>1, <1>2, <1>3 DEF StoreHas

(* A run that is over leaves nothing but the store.                        *)
LEMMA IdleWhole == StoreHas(NoRun)' => Whole(NoRun)'
  BY DEF Whole, CopyTrue, MidRun, MalformedAside, Unwritten, HalfWritten, NoRun

(* The records it set aside stay aside.                                    *)
LEMMA AsideKept ==
    ASSUME NEW r, NEW k, MalformedAside(r), k.malformed = r.malformed,
           k.at \in {"draft", "upload"} \/ r.at \notin {"draft", "upload"}, UNCHANGED published
    PROVE  MalformedAside(k)'
  BY DEF MalformedAside, ReleaseTags

(* Each step of a run, from an invariant that holds of the run to one that *)
(* holds of what it goes to.  Read: the copy is what the store held.       *)
LEMMA ReadStep ==
    ASSUME ChangelogTypeOK, Books, NEW s \in Slots, Whole(run[s]), Read(s)
    PROVE  Books' /\ \E k : Goes(s, k) /\ Whole(k)'
<1>1. /\ run[s].at = "read" /\ UNCHANGED <<head, store, published, losses>>
      /\ head \in Nat /\ lines \in RecordSets
  BY DEF Read, releases, ChangelogTypeOK
<1>2. Books'
  BY <1>1, BooksKept DEF losses
<1>3. PICK k : Goes(s, k) /\
        \/ k = NoRun
        \/ /\ k.at = "plan" /\ k.kind = run[s].kind /\ k.malformed = run[s].malformed
           /\ k.recs = ParseRecords /\ k.vers = manifest
  BY ReadGoes
<1>4. StoreHas(k)'
  <2>1. Unrecorded(run[s]) = {} /\ StoreHas(run[s])
    BY <1>1 DEF Unrecorded, Whole
  <2> QED
    BY <1>1, <2>1, StoreKept
<1>5. CASE k = NoRun
  BY <1>2, <1>3, <1>4, <1>5, IdleWhole
<1>6. CASE k.at = "plan" /\ k.kind = run[s].kind /\ k.malformed = run[s].malformed
           /\ k.recs = ParseRecords /\ k.vers = manifest
  <2>1. UNCHANGED <<head, lines, bad, manifest, published, torn, damaged, orphans>>
    BY <1>1 DEF store, losses
  <2>2. Sound' = Sound /\ ReleaseTags' = ReleaseTags
    BY <2>1 DEF Sound, ReleaseTags
  <2>3. CopyTrue(k)'
    <3>1. VersionsTrue(k.vers) /\ DOMAIN k.recs \subseteq 1..head
      BY <1>1, <1>6, ParsedIs DEF Books, Merged
    <3>2. ~torn => \A t \in Sound : t \in DOMAIN manifest
            /\ \A p \in published[t].prs \ damaged :
                 p \in DOMAIN ParseRecords /\ ParseRecords[p] # Null
      BY <1>1 DEF Whole, StoreHas, Unrecorded
    <3> QED
      BY <1>6, <2>1, <2>2, <3>1, <3>2 DEF CopyTrue, VersionsTrue
  <2>4. MalformedAside(k)'
    BY <1>1, <1>6, <2>1, <2>2 DEF Whole, MalformedAside
  <2>5. Unwritten(k)' /\ HalfWritten(k)'
    BY <1>1, <1>6, <2>1, <2>2 DEF Whole, Unwritten, HalfWritten
  <2> QED
    BY <1>2, <1>3, <1>4, <2>3, <2>4, <2>5 DEF Whole
<1> QED
  BY <1>3, <1>5, <1>6

(* Plan: a plan keeps every stamp; the tag it takes is of no release.      *)
LEMMA PlanStep ==
    ASSUME ChangelogTypeOK, Books, NEW s \in Slots, Whole(run[s]), Plan(s)
    PROVE  Books' /\ \E k : Goes(s, k) /\ Whole(k)'
<1>1. /\ run[s].at = "plan" /\ UNCHANGED <<head, store, published, losses>> /\ head \in Nat
  BY DEF Plan, past, releases, ChangelogTypeOK
<1>2. Books'
  BY <1>1, BooksKept DEF losses
<1>3. PICK k : Goes(s, k) /\ (k = NoRun \/ Planned(s, k))
  BY PlanGoes
<1>4. StoreHas(k)'
  <2>1. Unrecorded(run[s]) = {} /\ StoreHas(run[s])
    BY <1>1 DEF Unrecorded, Whole
  <2> QED
    BY <1>1, <2>1, StoreKept
<1>5. CASE k = NoRun
  BY <1>2, <1>3, <1>4, <1>5, IdleWhole
<1>6. CASE Planned(s, k)
  <2>1. UNCHANGED <<head, lines, bad, manifest, published, torn, damaged, orphans>>
    BY <1>1 DEF store, losses
  <2>2. Sound' = Sound /\ ReleaseTags' = ReleaseTags
    BY <2>1 DEF Sound, ReleaseTags
  <2>3. /\ VersionsTrue(run[s].vers) /\ DOMAIN run[s].recs \subseteq 1..head
        /\ ~torn => Sound \subseteq DOMAIN run[s].vers
        /\ ~torn => \A t \in Sound : \A p \in published[t].prs \ damaged :
                       p \in DOMAIN run[s].recs /\ run[s].recs[p] # Null
        /\ run[s].malformed = {}
    BY <1>1 DEF Whole, CopyTrue, MidRun, MalformedAside
  <2>4. CopyTrue(k)'
    <3>1. DOMAIN k.recs \ k.malformed \subseteq 1..head
      BY <1>6, <2>3 DEF Planned
    <3>2. ~torn => \A t \in Sound : \A p \in published[t].prs \ damaged :
                      p \in DOMAIN k.recs /\ k.recs[p] # Null
      BY <1>6, <2>3 DEF Planned
    <3>3. k.vers = run[s].vers
      BY <1>6 DEF Planned
    <3> QED
      BY <2>1, <2>2, <2>3, <3>1, <3>2, <3>3 DEF CopyTrue, VersionsTrue
  <2>5. MalformedAside(k)'
    <3>1. \A t \in ReleaseTags : k.malformed \cap published[t].prs = {}
      BY <1>6, <2>3 DEF Planned, Books, Merged
    <3>2. k.at = "draft" \/ k.malformed = {}
      BY <1>6, <2>3 DEF Planned
    <3> QED
      BY <2>1, <2>2, <3>1, <3>2 DEF MalformedAside
  <2>6. Unwritten(k)'
    <3>1. k.kind = run[s].kind /\ k.vers = run[s].vers /\ run[s].vers = manifest
      BY <1>1, <1>6 DEF Planned, Whole, Unwritten
    <3>2. k.kind = "baseline" => ReleaseTags \subseteq {Baseline} \cap orphans
      BY <1>1, <3>1 DEF Whole, Unwritten
    <3>3. k.at = "release" =>
            IF k.kind = "baseline" THEN k.tag = Baseline /\ DOMAIN k.vers = {}
            ELSE k.tag \notin ReleaseTags
      <4>1. DOMAIN k.vers \subseteq ReleaseTags
        BY <2>3, <3>1 DEF VersionsTrue
      <4> QED
        BY <1>6, <3>2, <4>1 DEF Planned
    <3>4. k.at # "publish" /\ (k.at = "render" => k.kind = "reconcile")
      BY <1>6 DEF Planned
    <3> QED
      BY <2>1, <2>2, <3>1, <3>2, <3>3, <3>4 DEF Unwritten
  <2>7. HalfWritten(k)'
    BY <1>6 DEF Planned, HalfWritten
  <2> QED
    BY <1>2, <1>3, <1>4, <2>4, <2>5, <2>6, <2>7 DEF Whole
<1> QED
  BY <1>3, <1>5, <1>6

(* EnsureTagRef: so does the second tag that a cut tries.                  *)
LEMMA EnsureTagRefStep ==
    ASSUME ChangelogTypeOK, Books, NEW s \in Slots, Whole(run[s]), EnsureTagRef(s)
    PROVE  Books' /\ \E k : Goes(s, k) /\ Whole(k)'
<1>1. /\ run[s].at \in {"release", "publish"} /\ head \in Nat
      /\ UNCHANGED <<head, store, published, losses>>
  BY DEF EnsureTagRef, past, ChangelogTypeOK
<1>2. Books'
  BY <1>1, BooksKept DEF losses
<1>3. PICK k : Goes(s, k) /\
        \/ k = NoRun
        \/ /\ k.kind = run[s].kind /\ k.vers = run[s].vers /\ k.recs = run[s].recs
           /\ k.malformed = run[s].malformed
           /\ \/ k.at = "publish" /\ k.tag = run[s].tag /\ k.tag \notin ReleaseTags
              \/ /\ k.at = "release" /\ k.kind = "cut"
                 /\ k.tag \notin ReleaseTags /\ k.tag # Baseline
  BY EnsureTagRefGoes
<1>4. StoreHas(k)'
  <2>1. Unrecorded(run[s]) = {} /\ StoreHas(run[s])
    BY <1>1 DEF Unrecorded, Whole
  <2> QED
    BY <1>1, <2>1, StoreKept
<1>5. CASE k = NoRun
  BY <1>2, <1>3, <1>4, <1>5, IdleWhole
<1>6. CASE k # NoRun
  <2>1. UNCHANGED <<manifest, published, orphans>> /\ ReleaseTags' = ReleaseTags
    BY <1>1 DEF store, losses, ReleaseTags
  <2>2. CopyTrue(k)'
    BY <1>1, <1>3, <1>6, CopyKept DEF Whole, MidRun
  <2>3. MalformedAside(k)'
    BY <1>1, <1>3, <1>6, AsideKept DEF Whole
  <2>4. Unwritten(k)'
    BY <1>1, <1>3, <1>6, <2>1 DEF Whole, Unwritten
  <2>5. HalfWritten(k)'
    BY <1>3, <1>6 DEF HalfWritten
  <2> QED
    BY <1>2, <1>3, <1>4, <2>2, <2>3, <2>4, <2>5 DEF Whole
<1> QED
  BY <1>5, <1>6

(* Rerender: a version is rendered from the manifest that published it, or *)
(* from one that only has later versions besides; the body is the same.    *)
LEMMA RerenderChangesNothing ==
    ASSUME ChangelogTypeOK, NEW s \in Slots, CopyTrue(run[s]), Rerender(s)
    PROVE  published' = published
<1> DEFINE r == run[s]
           again == [t \in Renderable(r) |-> Render(r.vers, t, r.vers[t].prs \cap DOMAIN r.recs)]
<1>1. r.at = "render" /\ VersionsTrue(r.vers) /\ published' = Over(again, published)
  BY DEF Rerender, CopyTrue, MidRun
<1>2. \A t \in DOMAIN again : t \in DOMAIN published /\ again[t] = published[t]
  <2>1. ASSUME NEW t \in DOMAIN r.vers, r.vers[t].prs \subseteq DOMAIN r.recs
        PROVE  /\ t \in DOMAIN published
               /\ Render(r.vers, t, r.vers[t].prs \cap DOMAIN r.recs) = published[t]
    <3>1. r.vers[t].prs \cap DOMAIN r.recs = r.vers[t].prs
      BY <2>1
    <3> QED
      BY <1>1, <3>1 DEF VersionsTrue, ReleaseTags
  <2> QED
    BY <2>1 DEF Renderable
<1>3. published = [t \in DOMAIN published |-> published[t]]
  BY PartialFun DEF ChangelogTypeOK
<1> HIDE DEF again
<1>4. /\ published' = [t \in DOMAIN again \cup DOMAIN published |->
                         IF t \in DOMAIN again THEN again[t] ELSE published[t]]
  BY <1>1 DEF Over
<1>5. DOMAIN again \cup DOMAIN published = DOMAIN published
  BY <1>2
<1> DEFINE Body(t) == IF t \in DOMAIN again THEN again[t] ELSE published[t]
<1>6. published' = [t \in DOMAIN published |-> Body(t)]
  BY <1>4, <1>5
<1>7. \A t \in DOMAIN published : Body(t) = published[t]
  BY <1>2
<1> HIDE DEF Body
<1> QED
  BY <1>3, <1>6, <1>7

LEMMA RerenderStep ==
    ASSUME ChangelogTypeOK, Books, NEW s \in Slots, Whole(run[s]), Rerender(s)
    PROVE  Books' /\ \E k : Goes(s, k) /\ Whole(k)'
<1>1. /\ run[s].at = "render" /\ UNCHANGED <<head, store, published, losses>> /\ head \in Nat
      /\ run[s].kind = "reconcile"
  <2>1. published' = published
    BY RerenderChangesNothing DEF Whole
  <2> QED
    BY <2>1 DEF Rerender, past, ChangelogTypeOK, Whole, Unwritten
<1>2. Books'
  BY <1>1, BooksKept DEF losses
<1>3. PICK k : /\ Goes(s, k) /\ k.at = "draft" /\ k.kind = run[s].kind
               /\ k.vers = run[s].vers /\ k.recs = run[s].recs
               /\ k.malformed = run[s].malformed
  BY RerenderGoes
<1>4. StoreHas(k)'
  <2>1. Unrecorded(run[s]) = {} /\ StoreHas(run[s])
    BY <1>1 DEF Unrecorded, Whole
  <2> QED
    BY <1>1, <2>1, StoreKept
<1>5. CopyTrue(k)'
  BY <1>1, <1>3, CopyKept DEF Whole, MidRun
<1>6. MalformedAside(k)'
  BY <1>1, <1>3, AsideKept DEF Whole
<1>7. Unwritten(k)' /\ HalfWritten(k)'
  BY <1>3 DEF Unwritten, HalfWritten
<1> QED
  BY <1>2, <1>3, <1>4, <1>5, <1>6, <1>7 DEF Whole

LEMMA EditDraftStep ==
    ASSUME ChangelogTypeOK, Books, NEW s \in Slots, Whole(run[s]), EditDraft(s)
    PROVE  Books' /\ \E k : Goes(s, k) /\ Whole(k)'
<1>1. run[s].at = "draft" /\ UNCHANGED <<head, store, published, losses>> /\ head \in Nat
  BY DEF EditDraft, past, releases, ChangelogTypeOK
<1>2. Books'
  BY <1>1, BooksKept DEF losses
<1>3. PICK k : /\ Goes(s, k) /\ k.at = "upload" /\ k.kind = run[s].kind
               /\ k.tag = run[s].tag /\ k.vers = run[s].vers /\ k.recs = run[s].recs
               /\ k.malformed = run[s].malformed /\ k.gone = Assets /\ k.owed = Assets
  BY EditDraftGoes
<1>4. StoreHas(k)'
  <2>1. Unrecorded(run[s]) \subseteq Unrecorded(k) /\ StoreHas(run[s])
    BY <1>1, <1>3 DEF Unrecorded, Whole
  <2> QED
    BY <1>1, <2>1, StoreKept
<1>5. CopyTrue(k)'
  BY <1>1, <1>3, CopyKept DEF Whole, MidRun
<1>6. MalformedAside(k)'
  BY <1>1, <1>3, AsideKept DEF Whole
<1>7. Unwritten(k)' /\ HalfWritten(k)'
  BY <1>3 DEF Unwritten, HalfWritten, Assets
<1> QED
  BY <1>2, <1>3, <1>4, <1>5, <1>6, <1>7 DEF Whole

(* DeleteAsset, UploadAsset: what is deleted is still owed, and what is    *)
(* uploaded is the copy.                                                   *)
LEMMA DeleteAssetStep ==
    ASSUME ChangelogTypeOK, Books, NEW s \in Slots, Whole(run[s]), DeleteAsset(s)
    PROVE  Books' /\ \E k : Goes(s, k) /\ Whole(k)'
<1>1. /\ run[s].at = "upload" /\ UNCHANGED <<head, published, losses>> /\ head \in Nat
      /\ run[s].gone \subseteq Assets /\ run[s].gone \subseteq run[s].owed
  <2>1. run[s] \in Runs
    BY DEF ChangelogTypeOK
  <2> QED
    BY <2>1 DEF DeleteAsset, releases, ChangelogTypeOK, Whole, HalfWritten, Runs
<1>2. PICK a \in run[s].gone :
        /\ \E k : /\ Goes(s, k) /\ k.at = "upload" /\ k.kind = run[s].kind
                  /\ k.tag = run[s].tag /\ k.vers = run[s].vers /\ k.recs = run[s].recs
                  /\ k.malformed = run[s].malformed /\ k.gone = run[s].gone \ {a}
                  /\ k.owed = run[s].owed
        /\ IF a = "records"
             THEN lines' = Empty /\ bad' = {} /\ UNCHANGED manifest
             ELSE manifest' = Empty /\ UNCHANGED <<lines, bad>>
  BY DeleteAssetGoes
<1>3. PICK k : /\ Goes(s, k) /\ k.at = "upload" /\ k.kind = run[s].kind
               /\ k.tag = run[s].tag /\ k.vers = run[s].vers /\ k.recs = run[s].recs
               /\ k.malformed = run[s].malformed /\ k.gone = run[s].gone \ {a}
               /\ k.owed = run[s].owed
  BY <1>2
<1>4. /\ UNCHANGED <<published, torn, damaged, orphans>> /\ ReleaseTags' = ReleaseTags
      /\ Sound' = Sound /\ head' = head
  BY <1>1 DEF losses, ReleaseTags, Sound
<1>5. Books'
  <2>1. DOMAIN lines' \ bad' \subseteq 1..head
    BY <1>2, EmptyPartial DEF Books, Merged
  <2>2. VersionsTrue(manifest)'
    <3>1. DOMAIN manifest' = {} \/ manifest' = manifest
      BY <1>2, EmptyPartial
    <3> QED
      BY <1>4, <3>1 DEF Books, VersionsTrue
  <2> QED
    BY <1>4, <2>1, <2>2 DEF Books, Merged, Once
<1>6. CopyTrue(k)'
  BY <1>1, <1>3, CopyKept DEF Whole, MidRun
<1>7. MalformedAside(k)'
  BY <1>1, <1>3, AsideKept DEF Whole
<1>8. Unwritten(k)'
  BY <1>3 DEF Unwritten
<1>9. StoreHas(k)'
  BY <1>1, <1>2, <1>3 DEF StoreHas
<1>10. HalfWritten(k)'
  <2>1. a \in run[s].owed /\ a \in {"records", "versions"}
    BY <1>1, <1>2 DEF Assets
  <2>2. k.gone \subseteq k.owed
    BY <1>1, <1>3
  <2>3. "records" \notin k.owed => UNCHANGED <<lines, bad>>
    BY <1>2, <1>3, <2>1
  <2>4. "versions" \notin k.owed => UNCHANGED manifest
    BY <1>2, <1>3, <2>1
  <2> QED
    BY <1>1, <1>3, <1>4, <2>2, <2>3, <2>4 DEF Whole, HalfWritten, Stamped, ParseRecords
<1> QED
  BY <1>3, <1>5, <1>6, <1>7, <1>8, <1>9, <1>10 DEF Whole

LEMMA UploadAssetStep ==
    ASSUME ChangelogTypeOK, Books, NEW s \in Slots, Whole(run[s]), UploadAsset(s)
    PROVE  Books' /\ \E k : Goes(s, k) /\ Whole(k)'
<1>1. /\ run[s].at = "upload" /\ UNCHANGED <<head, published, losses>> /\ head \in Nat
      /\ run[s].owed \subseteq Assets /\ run[s].gone \subseteq run[s].owed
      /\ run[s].recs \in RecordSets
  <2>1. run[s] \in Runs
    BY DEF ChangelogTypeOK
  <2> QED
    BY <2>1 DEF UploadAsset, past, releases, ChangelogTypeOK, Whole, HalfWritten, Runs
<1>2. PICK a \in run[s].owed \ run[s].gone :
        /\ \E k : Goes(s, k) /\
             \/ k = NoRun /\ run[s].owed = {a}
             \/ /\ k.at = "upload" /\ k.kind = run[s].kind
                /\ k.tag = run[s].tag /\ k.vers = run[s].vers /\ k.recs = run[s].recs
                /\ k.malformed = run[s].malformed /\ k.gone = run[s].gone
                /\ k.owed = run[s].owed \ {a} /\ run[s].owed # {a}
        /\ IF a = "records"
             THEN lines' = run[s].recs /\ bad' = run[s].malformed /\ UNCHANGED manifest
             ELSE manifest' = run[s].vers /\ UNCHANGED <<lines, bad>>
  BY UploadAssetGoes
<1>3. a \in {"records", "versions"} /\ a \in Assets /\ a \notin run[s].gone
  BY <1>1, <1>2 DEF Assets
<1>4. /\ UNCHANGED <<published, torn, damaged, orphans>> /\ ReleaseTags' = ReleaseTags
      /\ Sound' = Sound /\ head' = head
  BY <1>1 DEF losses, ReleaseTags, Sound
<1>5. /\ VersionsTrue(run[s].vers) /\ DOMAIN run[s].recs \ run[s].malformed \subseteq 1..head
      /\ ~torn => Sound \subseteq DOMAIN run[s].vers
      /\ ~torn => \A t \in Sound : \A p \in published[t].prs \ damaged :
                     p \in DOMAIN run[s].recs /\ run[s].recs[p] # Null
      /\ \A t \in ReleaseTags : run[s].malformed \cap published[t].prs = {}
  BY <1>1 DEF Whole, CopyTrue, MidRun, MalformedAside
<1>6. Books'
  <2>1. DOMAIN lines' \ bad' \subseteq 1..head
    BY <1>2, <1>5 DEF Books, Merged
  <2>2. VersionsTrue(manifest)'
    <3>1. manifest' = run[s].vers \/ manifest' = manifest
      BY <1>2
    <3> QED
      BY <1>4, <1>5, <3>1 DEF Books, VersionsTrue
  <2> QED
    BY <1>4, <2>1, <2>2 DEF Books, Merged, Once
<1>7. a = "records" /\ ~torn => Stamped(ParseRecords)'
  <2> SUFFICES ASSUME a = "records", ~torn PROVE Stamped(ParseRecords)'
    OBVIOUS
  <2>1. lines' = run[s].recs /\ bad' = run[s].malformed
    BY <1>2
  <2>2. ParseRecords' = [p \in DOMAIN run[s].recs \ run[s].malformed |-> run[s].recs[p]]
    BY <2>1 DEF ParseRecords
  <2>3. Sound \subseteq ReleaseTags
    BY DEF Sound
  <2> QED
    BY <1>4, <1>5, <2>2, <2>3 DEF Stamped
<1>8. /\ ~torn /\ "records" \notin run[s].owed \ {a} => Stamped(ParseRecords)'
      /\ "versions" \notin run[s].owed \ {a} => manifest' = run[s].vers
  <2>1. /\ ~torn /\ "records" \notin run[s].owed => Stamped(ParseRecords)
        /\ "versions" \notin run[s].owed => manifest = run[s].vers
    BY <1>1 DEF Whole, HalfWritten
  <2>2. a = "versions" => Stamped(ParseRecords)' = Stamped(ParseRecords)
    BY <1>2, <1>4 DEF Stamped, ParseRecords
  <2>3. "records" \notin run[s].owed \ {a} => a = "records" \/ "records" \notin run[s].owed
    OBVIOUS
  <2>4. "versions" \notin run[s].owed \ {a} => a = "versions" \/ "versions" \notin run[s].owed
    OBVIOUS
  <2>5. a = "records" => manifest' = manifest
    BY <1>2
  <2>6. a = "versions" => manifest' = run[s].vers
    BY <1>2
  <2> QED
    BY <1>3, <1>7, <2>1, <2>2, <2>3, <2>4, <2>5, <2>6
<1>9. PICK k : Goes(s, k) /\
        \/ k = NoRun /\ run[s].owed = {a}
        \/ /\ k.at = "upload" /\ k.kind = run[s].kind
           /\ k.tag = run[s].tag /\ k.vers = run[s].vers /\ k.recs = run[s].recs
           /\ k.malformed = run[s].malformed /\ k.gone = run[s].gone
           /\ k.owed = run[s].owed \ {a} /\ run[s].owed # {a}
  BY <1>2
<1>10. CASE k = NoRun /\ run[s].owed = {a}
  <2>1. ~torn => Stamped(ParseRecords)' /\ manifest' = run[s].vers
    BY <1>8, <1>10
  <2>2. StoreHas(NoRun)'
    <3>1. /\ ~torn => Sound' \subseteq DOMAIN manifest'
          /\ ~torn => \A t \in Sound' : \A p \in published'[t].prs \ damaged' :
                         p \in DOMAIN ParseRecords' /\ ParseRecords'[p] # Null
      BY <1>4, <1>5, <2>1 DEF Stamped
    <3> QED
      BY <1>4, <3>1 DEF StoreHas
  <2> QED
    BY <1>6, <1>9, <1>10, <2>2, IdleWhole
<1>11. CASE /\ k.at = "upload" /\ k.kind = run[s].kind
            /\ k.tag = run[s].tag /\ k.vers = run[s].vers /\ k.recs = run[s].recs
            /\ k.malformed = run[s].malformed /\ k.gone = run[s].gone
            /\ k.owed = run[s].owed \ {a} /\ run[s].owed # {a}
  <2>1. CopyTrue(k)'
    BY <1>1, <1>11, CopyKept DEF Whole, MidRun
  <2>2. MalformedAside(k)'
    BY <1>1, <1>11, AsideKept DEF Whole
  <2>3. Unwritten(k)' /\ StoreHas(k)'
    BY <1>3, <1>11 DEF Unwritten, StoreHas
  <2>4. HalfWritten(k)'
    BY <1>1, <1>3, <1>4, <1>8, <1>11 DEF HalfWritten
  <2> QED
    BY <1>6, <1>9, <2>1, <2>2, <2>3, <2>4 DEF Whole
<1> QED
  BY <1>9, <1>10, <1>11

(* Dies: a release that was not recorded yet counts as lost from then on,  *)
(* and an upload that was begun as torn.                                   *)
LEMMA DiesStep ==
    ASSUME ChangelogTypeOK, Books, NEW s \in Slots, Whole(run[s]), Dies(s)
    PROVE  Books' /\ \E k : Goes(s, k) /\ Whole(k)'
<1>1. /\ UNCHANGED <<head, lines, bad, manifest, published, damaged>>
      /\ torn' = (torn \/ (run[s].at = "upload" /\ run[s].gone # Assets))
      /\ orphans' =
           IF run[s].kind \in Cutting /\ (run[s].at = "draft" \/ "versions" \in run[s].owed)
             THEN orphans \cup {run[s].tag} ELSE orphans
  BY DEF Dies, store, releases
<1>2. ReleaseTags' = ReleaseTags /\ ParseRecords' = ParseRecords /\ Sound' \subseteq Sound
  BY <1>1 DEF ReleaseTags, ParseRecords, Sound
<1>3. Books'
  <2>1. Merged'
    BY <1>1, <1>2 DEF Books, Merged
  <2>2. VersionsTrue(manifest)'
    BY <1>1, <1>2 DEF Books, VersionsTrue
  <2>3. orphans \subseteq orphans' /\ (~torn' => ~torn)
    BY <1>1
  <2>4. Once'
    BY <1>1, <2>3 DEF Books, Once
  <2> QED
    BY <2>1, <2>2, <2>4 DEF Books
<1>4. StoreHas(NoRun)'
  <2> SUFFICES ASSUME ~torn' PROVE StoreHas(NoRun)'
    BY DEF StoreHas
  <2>1. ~torn /\ (run[s].at = "upload" => run[s].gone = Assets)
    BY <1>1
  <2>2. Sound' \subseteq Sound \ Unrecorded(run[s])
    <3>1. run[s].at = "upload" => "versions" \in run[s].owed
      BY <2>1 DEF Whole, HalfWritten, Assets
    <3> QED
      BY <1>1, <3>1 DEF Unrecorded, Sound, ReleaseTags
  <2> QED
    BY <1>1, <1>2, <2>1, <2>2 DEF Whole, StoreHas
<1> QED
  BY <1>3, <1>4, IdleWhole, DiesGoes

(* The latest of some versions depends on their dates alone.               *)
LEMMA LatestKept ==
    ASSUME NEW v, NEW w, NEW ts, \A t \in ts : v[t].date = w[t].date
    PROVE  LatestOf(v, ts) = LatestOf(w, ts)
  BY DEF LatestOf

(* What a manifest becomes by a version that is cut after all others.      *)
LatestAdded(more, vers, t, v) ==
    /\ DOMAIN more = DOMAIN vers \cup {t} /\ more[t] = v
    /\ \A u \in DOMAIN vers : more[u] = vers[u]
    /\ \A u \in DOMAIN more : PreviousVersion(more, u) = PreviousVersion(vers, u)

(* It comes before none of them, and so changes the body of none.          *)
LEMMA PreviousKept ==
    ASSUME NEW vers \in Manifests, NEW t \in Tags \ DOMAIN vers, NEW v \in Entries,
           \A u \in DOMAIN vers : vers[u].date < v.date
    PROVE  LatestAdded(UpsertVersion(vers, t, v), vers, t, v)
<1> DEFINE more == UpsertVersion(vers, t, v)
           Before(w, u) == {x \in DOMAIN w : w[x].date < w[u].date}
<1>0. DOMAIN Only(t, v) = {t} /\ Only(t, v)[t] = v
  BY DEF Only
<1>1. /\ DOMAIN more = DOMAIN vers \cup {t} /\ more[t] = v
      /\ \A u \in DOMAIN vers : more[u] = vers[u]
  <2>1. more = Over(Only(t, v), vers)
    BY DEF UpsertVersion
  <2> DEFINE over == Over(Only(t, v), vers)
  <2>2. /\ DOMAIN over = DOMAIN vers \cup {t} /\ over[t] = v
        /\ \A u \in DOMAIN vers \ {t} : over[u] = vers[u]
    BY <1>0 DEF Over
  <2> HIDE DEF more, over
  <2> QED
    BY <2>1, <2>2 DEF over
<1> HIDE DEF more
<1>2. v.date \in Nat /\ \A u \in DOMAIN vers : vers[u].date \in Nat
  BY EntriesAre DEF Entries
<1>3. ASSUME NEW u \in DOMAIN vers PROVE PreviousVersion(more, u) = PreviousVersion(vers, u)
  <2>1. Before(more, u) = Before(vers, u)
    BY <1>1, <1>2, <1>3
  <2>2. \A x \in Before(vers, u) : more[x].date = vers[x].date
    BY <1>1
  <2>3. /\ PreviousVersion(more, u) =
             IF Before(more, u) = {} THEN Null ELSE LatestOf(more, Before(more, u))
        /\ PreviousVersion(vers, u) =
             IF Before(vers, u) = {} THEN Null ELSE LatestOf(vers, Before(vers, u))
    BY <1>1, <1>3 DEF PreviousVersion
  <2> HIDE DEF Before
  <2>4. LatestOf(more, Before(vers, u)) = LatestOf(vers, Before(vers, u))
    BY <2>2, LatestKept
  <2> QED
    BY <2>1, <2>3, <2>4
<1>4. PreviousVersion(more, t) = PreviousVersion(vers, t)
  <2>1. Before(more, t) = DOMAIN vers
    BY <1>1, <1>2
  <2>2. /\ PreviousVersion(more, t) =
             IF Before(more, t) = {} THEN Null ELSE LatestOf(more, Before(more, t))
        /\ PreviousVersion(vers, t) =
             IF DOMAIN vers = {} THEN Null ELSE LatestOf(vers, DOMAIN vers)
    BY <1>1 DEF PreviousVersion
  <2> HIDE DEF Before
  <2>3. LatestOf(more, DOMAIN vers) = LatestOf(vers, DOMAIN vers)
    BY <1>1, LatestKept
  <2> QED
    BY <2>1, <2>2, <2>3
<1>5. \A u \in DOMAIN more : PreviousVersion(more, u) = PreviousVersion(vers, u)
  BY <1>1, <1>3, <1>4
<1> QED
  BY <1>1, <1>5 DEF more, LatestAdded

(* What is true of a release that is published: no version had it, and     *)
(* only a baseline that was never recorded is there already.               *)
LEMMA PublishedIs ==
    ASSUME ChangelogTypeOK, Books, NEW s \in Slots, Whole(run[s]), Publish(s)
    PROVE  LET tag == run[s].tag
               ps == Unreleased(run[s].recs) IN
           /\ ReleaseTags' = ReleaseTags \cup {tag}
           /\ \A t \in ReleaseTags \ {tag} : published'[t] = published[t]
           /\ published'[tag] = Render(run[s].vers, tag, ps) /\ published'[tag].prs = ps
           /\ tag \notin DOMAIN manifest /\ run[s].vers = manifest
           /\ tag \notin Sound /\ Sound' \subseteq Sound \cup {tag}
           /\ run[s].kind = "baseline" =>
                Sound = {} /\ tag = Baseline /\ DOMAIN manifest = {}
           /\ tag \in ReleaseTags => tag = Baseline /\ tag \in orphans
           /\ ps \subseteq DOMAIN run[s].recs /\ DOMAIN run[s].recs \subseteq 1..head
           /\ ps \in SUBSET PRs
<1> DEFINE tag == run[s].tag
           ps == Unreleased(run[s].recs)
           body == Render(run[s].vers, tag, ps)
<1>0. DOMAIN Only(tag, body) = {tag} /\ Only(tag, body)[tag] = body
  BY DEF Only
<1>1. /\ run[s].at \in {"release", "publish"} /\ run[s].kind \in Cutting /\ tag \in Tags
      /\ run[s] \in Runs /\ orphans' = orphans
      /\ published' = Over(Only(tag, body), published)
  BY DEF Publish, ChangelogTypeOK, RunTyped, BuildCut, losses
<1>2. run[s].recs \in RecordSets /\ run[s].vers \in Manifests
  BY <1>1 DEF Runs
<1>3. /\ run[s].vers = manifest /\ VersionsTrue(manifest)
      /\ DOMAIN run[s].recs \ run[s].malformed \subseteq 1..head /\ run[s].malformed = {}
  BY <1>1 DEF Whole, CopyTrue, Unwritten, MalformedAside, MidRun
<1>4. ps \subseteq DOMAIN run[s].recs /\ ps \in SUBSET PRs
  <2>1. DOMAIN run[s].recs \subseteq PRs
    BY <1>2, PartialFun DEF RecordSets
  <2> QED
    BY <2>1 DEF Unreleased
<1>5. body.prs = ps
  BY <1>2, <1>4, RenderIs
<1>6. /\ run[s].kind = "baseline" =>
           /\ ReleaseTags \subseteq {Baseline} \cap orphans
           /\ tag = Baseline /\ DOMAIN manifest = {}
      /\ run[s].kind # "baseline" => tag \notin ReleaseTags
  BY <1>1, <1>3 DEF Whole, Unwritten
<1>7. DOMAIN manifest \subseteq ReleaseTags
  BY <1>3 DEF VersionsTrue
<1>8. /\ ReleaseTags' = ReleaseTags \cup {tag} /\ published'[tag] = body
      /\ \A t \in ReleaseTags \ {tag} : published'[t] = published[t]
  <2> DEFINE over == Over(Only(tag, body), published)
  <2>1. /\ DOMAIN over = DOMAIN published \cup {tag} /\ over[tag] = body
        /\ \A t \in DOMAIN published \ {tag} : over[t] = published[t]
    BY <1>0 DEF Over
  <2>2. published' = over
    BY <1>1
  <2> HIDE DEF body, tag, over
  <2> QED
    BY <2>1, <2>2 DEF ReleaseTags
<1>9. Sound' = (ReleaseTags \cup {tag}) \ orphans
  BY <1>1, <1>8 DEF Sound
<1> HIDE DEF tag, ps, body
<1> QED
  BY <1>3, <1>4, <1>5, <1>6, <1>7, <1>8, <1>9 DEF Sound, tag, ps, body

(* Publish: what a cut lists has no version in the copy, and what is in a  *)
(* release has one, so that no PR is in both.                              *)
LEMMA PublishStep ==
    ASSUME ChangelogTypeOK, Books, NEW s \in Slots, Whole(run[s]), Publish(s)
    PROVE  Books' /\ \E k : Goes(s, k) /\ Whole(k)'
<1> DEFINE tag == run[s].tag
           recs == run[s].recs
           ps == Unreleased(recs)
           N == Cardinality(ReleaseTags \ {tag})
           cut == BuildCut(recs, tag)
<1>1. PICK k : Goes(s, k) /\ Published(s, k)
  BY PublishGoes
<1>2. /\ run[s].at \in {"release", "publish"} /\ tag \in Tags /\ run[s].kind \in Cutting
      /\ k.at = "draft" /\ k.kind = run[s].kind /\ k.tag = tag /\ k.malformed = run[s].malformed
      /\ k.recs = StampVersion(recs, cut.prs, tag)
      /\ k.vers = IF run[s].kind = "baseline" THEN Only(tag, cut)
                  ELSE UpsertVersion(run[s].vers, tag, cut)
  BY <1>1 DEF Published
<1>3. /\ ReleaseTags' = ReleaseTags \cup {tag}
      /\ \A t \in ReleaseTags \ {tag} : published'[t] = published[t]
      /\ published'[tag] = Render(run[s].vers, tag, ps) /\ published'[tag].prs = ps
      /\ tag \notin DOMAIN manifest /\ run[s].vers = manifest
      /\ tag \notin Sound /\ Sound' \subseteq Sound \cup {tag}
      /\ run[s].kind = "baseline" =>
           Sound = {} /\ tag = Baseline /\ DOMAIN manifest = {}
      /\ tag \in ReleaseTags => tag = Baseline /\ tag \in orphans
      /\ ps \subseteq DOMAIN recs /\ DOMAIN recs \subseteq 1..head
      /\ ps \in SUBSET PRs
  BY PublishedIs
<1>4. /\ UNCHANGED <<head, lines, bad, manifest, torn, damaged, orphans>>
      /\ ParseRecords' = ParseRecords /\ recs \in RecordSets /\ manifest \in Manifests
  <2>1. run[s] \in Runs
    BY DEF ChangelogTypeOK
  <2>2. UNCHANGED <<head, lines, bad, manifest, torn, damaged, orphans>>
    BY DEF Publish, store, losses
  <2> QED
    BY <2>1, <2>2 DEF Runs, ParseRecords, ChangelogTypeOK
<1>5. cut \in Entries /\ cut.prs = ps /\ cut.date = N
  BY <1>2, <1>4, CutIs
<1>6. /\ N \in Nat /\ Cardinality(ReleaseTags') = N + 1
      /\ DOMAIN manifest # {} => Cardinality(ReleaseTags) = N
  <2>1. IsFiniteSet(ReleaseTags \ {tag})
    BY ReleasesAre, FS_Subset
  <2>2. Cardinality((ReleaseTags \ {tag}) \cup {tag}) = N + 1 /\ N \in Nat
    BY <2>1, FS_AddElement, FS_CardinalityType
  <2>3. (ReleaseTags \ {tag}) \cup {tag} = ReleaseTags'
    BY <1>3
  <2>4. DOMAIN manifest # {} => ReleaseTags \ {tag} = ReleaseTags
    <3>1. run[s].kind # "baseline" => tag \notin ReleaseTags
      BY <1>2 DEF Whole, Unwritten
    <3> QED
      BY <1>3, <3>1
  <2> QED
    BY <2>2, <2>3, <2>4
<1>7. /\ VersionsTrue(manifest) /\ \A t \in DOMAIN manifest : manifest[t].date \in Nat
      /\ DOMAIN manifest \subseteq ReleaseTags
  BY <1>4, EntriesAre DEF Books, VersionsTrue
<1>8. VersionsTrue(manifest)'
  <2>1. ASSUME NEW t \in DOMAIN manifest
        PROVE  /\ t \in ReleaseTags' /\ manifest[t].date < Cardinality(ReleaseTags')
               /\ published'[t] = published[t]
    BY <1>3, <1>6, <1>7, <2>1 DEF VersionsTrue
  <2> QED
    BY <1>4, <1>7, <2>1 DEF VersionsTrue
<1>9. VersionsTrue(k.vers)'
  <2>1. CASE run[s].kind = "baseline"
    <3>1. k.vers = Only(tag, cut) /\ DOMAIN k.vers = {tag} /\ k.vers[tag] = cut
      BY <1>2, <2>1 DEF Only
    <3>2. Render(run[s].vers, tag, ps) = Render(k.vers, tag, ps)
      BY <1>3, <2>1 DEF Render
    <3> HIDE DEF cut, ps, tag, N
    <3> QED
      BY <1>3, <1>5, <1>6, <3>1, <3>2 DEF VersionsTrue
  <2>2. CASE run[s].kind # "baseline"
    <3> DEFINE more == UpsertVersion(manifest, tag, cut)
    <3>1. \A u \in DOMAIN manifest : manifest[u].date < cut.date
      BY <1>5, <1>6, <1>7 DEF VersionsTrue
    <3>2. k.vers = more
      BY <1>2, <1>3, <2>2
    <3> HIDE DEF cut, ps, tag, N
    <3>3. /\ DOMAIN more = DOMAIN manifest \cup {tag} /\ more[tag] = cut
          /\ \A u \in DOMAIN manifest : more[u] = manifest[u]
          /\ \A u \in DOMAIN more : PreviousVersion(more, u) = PreviousVersion(manifest, u)
      <4>1. tag \in Tags \ DOMAIN manifest
        BY <1>2, <1>3
      <4>2. LatestAdded(more, manifest, tag, cut)
        BY <1>4, <1>5, <3>1, <4>1, PreviousKept
      <4> HIDE DEF more
      <4> QED
        BY <4>2 DEF LatestAdded
    <3> HIDE DEF more
    <3>4. \A u \in DOMAIN more : \A qs : Render(more, u, qs) = Render(manifest, u, qs)
      BY <3>3 DEF Render, RenderVersion
    <3>5. ASSUME NEW t \in DOMAIN manifest
          PROVE  /\ t \in ReleaseTags' /\ more[t].date < Cardinality(ReleaseTags')
                 /\ more[t].prs = published'[t].prs
                 /\ published'[t] = Render(more, t, more[t].prs)
      <4>1. /\ t \in ReleaseTags' /\ manifest[t].date < Cardinality(ReleaseTags')
            /\ manifest[t].prs = published'[t].prs
            /\ published'[t] = Render(manifest, t, manifest[t].prs)
        BY <1>4, <1>8, <3>5 DEF VersionsTrue
      <4> QED
        BY <3>3, <3>4, <3>5, <4>1
    <3>6. /\ tag \in ReleaseTags' /\ more[tag].date < Cardinality(ReleaseTags')
          /\ more[tag].prs = published'[tag].prs
          /\ published'[tag] = Render(more, tag, more[tag].prs)
      BY <1>3, <1>5, <1>6, <3>3, <3>4
    <3> QED
      BY <3>2, <3>3, <3>5, <3>6 DEF VersionsTrue
  <2> QED
    BY <2>1, <2>2
<1>10. ~torn => \A t \in Sound : \A p \in published[t].prs \ damaged :
                   p \in DOMAIN recs /\ recs[p] # Null
  BY <1>2 DEF Whole, CopyTrue, MidRun
<1>11. /\ \A t \in Sound : t \in ReleaseTags \ {tag} /\ published'[t] = published[t]
       /\ \A t \in Sound' : t \in Sound \/ t = tag
  BY <1>3 DEF Sound
<1>12. Once'
  <2> SUFFICES ASSUME ~torn', NEW t \in Sound', NEW u \in Sound', t # u,
                      NEW p \in published'[t].prs \cap published'[u].prs
               PROVE  p \in damaged'
    BY DEF Once, Sound, ReleaseTags
  <2>1. CASE t \in Sound /\ u \in Sound
    <3>1. published[t].prs \cap published[u].prs \subseteq damaged
      BY <1>4, <2>1 DEF Books, Once, Sound, ReleaseTags
    <3> QED
      BY <1>4, <1>11, <2>1, <3>1
  <2>2. ASSUME NEW o \in Sound, p \in published'[o].prs, p \in ps PROVE p \in damaged
    <3>1. recs[p] = Null
      BY <2>2 DEF Unreleased
    <3> QED
      BY <1>4, <1>10, <1>11, <2>2, <3>1
  <2>3. CASE t = tag /\ u \in Sound
    BY <1>3, <1>4, <2>2, <2>3
  <2>4. CASE u = tag /\ t \in Sound
    BY <1>3, <1>4, <2>2, <2>4
  <2> QED
    BY <1>11, <2>1, <2>3, <2>4
<1>13. Merged'
  <2>1. ASSUME NEW t \in ReleaseTags' PROVE published'[t].prs \subseteq 1..head
    <3>1. CASE t = tag
      BY <1>3, <3>1
    <3>2. CASE t # tag
      BY <1>3, <3>2 DEF Books, Merged
    <3> QED
      BY <3>1, <3>2
  <2> QED
    BY <1>4, <2>1 DEF Books, Merged
<1>14. CopyTrue(k)'
  <2>1. /\ DOMAIN k.recs = DOMAIN recs
        /\ \A p \in DOMAIN recs : k.recs[p] = IF p \in ps THEN tag ELSE recs[p]
    <3> HIDE DEF cut, ps, tag, N, recs
    <3> QED
      BY <1>2, <1>4, <1>5, StampIs
  <2>2. ~torn => Sound' \subseteq DOMAIN k.vers
    <3>1. ~torn => Sound \subseteq DOMAIN manifest
      BY <1>2, <1>3 DEF Whole, CopyTrue, MidRun
    <3>2. /\ tag \in DOMAIN k.vers
          /\ run[s].kind # "baseline" => DOMAIN manifest \subseteq DOMAIN k.vers
      BY <1>2, <1>3 DEF Only, UpsertVersion, Over
    <3> QED
      BY <1>3, <1>11, <3>1, <3>2
  <2>3. tag # Null
    BY <1>2, TagsAreNumbers
  <2>4. ~torn => \A t \in Sound' : \A p \in published'[t].prs \ damaged :
                    p \in DOMAIN k.recs /\ k.recs[p] # Null
    <3> SUFFICES ASSUME ~torn, NEW t \in Sound', NEW p \in published'[t].prs \ damaged
                 PROVE  p \in DOMAIN k.recs /\ k.recs[p] # Null
      OBVIOUS
    <3>1. CASE t = tag
      BY <1>3, <2>1, <2>3, <3>1
    <3>2. CASE t \in Sound
      BY <1>10, <1>11, <2>1, <2>3, <3>2
    <3> QED
      BY <1>11, <3>1, <3>2
  <2>5. DOMAIN k.recs \subseteq 1..head
    BY <1>3, <2>1
  <2> QED
    BY <1>4, <1>9, <2>2, <2>4, <2>5 DEF CopyTrue
<1>15. MalformedAside(k)' /\ Unwritten(k)' /\ HalfWritten(k)'
  <2>1. k.malformed = {}
    BY <1>2 DEF Whole, MalformedAside
  <2> QED
    BY <1>2, <2>1 DEF MalformedAside, Unwritten, HalfWritten
<1>16. StoreHas(k)'
  <2>1. Unrecorded(k)' = {tag}
    BY <1>2 DEF Unrecorded
  <2>2. \A t \in Sound' \ {tag} : t \in Sound /\ published'[t] = published[t]
    BY <1>11
  <2>3. ~torn => \A t \in Sound :
          /\ t \in DOMAIN manifest
          /\ \A p \in published[t].prs \ damaged :
               p \in DOMAIN ParseRecords /\ ParseRecords[p] # Null
    BY <1>2 DEF Whole, StoreHas, Unrecorded
  <2> QED
    BY <1>4, <2>1, <2>2, <2>3 DEF StoreHas
<1>17. Books'
  BY <1>8, <1>12, <1>13 DEF Books
<1> QED
  BY <1>1, <1>14, <1>15, <1>16, <1>17 DEF Whole

(* At first there is nothing.                                              *)
LEMMA StoreInitially == ChangelogInit => StoreIInv
<1> SUFFICES ASSUME ChangelogInit PROVE StoreIInv
  OBVIOUS
<1>1. /\ DOMAIN lines = {} /\ DOMAIN manifest = {} /\ DOMAIN published = {}
      /\ \A s \in Slots : run[s] = NoRun
  BY EmptyPartial DEF ChangelogInit
<1>2. Books
  BY <1>1 DEF Books, Merged, VersionsTrue, Once, ReleaseTags
<1>3. Whole(NoRun)
  BY <1>1 DEF Whole, CopyTrue, MidRun, MalformedAside, Unwritten, HalfWritten, StoreHas, NoRun,
              Sound, ReleaseTags
<1>4. ~Writing(NoRun) /\ NoRun.malformed = {}
  BY DEF Writing, NoRun, Cutting
<1> QED
  BY <1>1, <1>2, <1>3, <1>4 DEF StoreIInv, Crossing

-----------------------------------------------------------------------------
(* Who relies on the store is not disturbed; of a run that neither writes  *)
(* nor relies on it only the store can say anything.                       *)
LEMMA ReliesUndisturbed ==
    ASSUME ~Crossing, NEW s \in Slots, Relies(run[s])
    PROVE  Undisturbed(s)
  BY DEF Crossing, Undisturbed

LEMMA QuietWhole ==
    ASSUME NEW r, ~Relies(r), r.malformed = {}, StoreHas(r)'
    PROVE  Whole(r)'
<1>1. r.at \in {"idle", "read"} /\ ~(r.kind = "baseline" /\ r.at = "read")
  BY DEF Relies
<1>2. r.at = "idle" => Unwritten(r)'
  BY DEF Unwritten
<1>3. r.at = "read" => Unwritten(r)'
  BY <1>1 DEF Unwritten
<1> QED
  BY <1>1, <1>2, <1>3 DEF Whole, CopyTrue, MidRun, MalformedAside, HalfWritten

(* What a run that does not write finds in the store, any such run finds.  *)
LEMMA StoreForAll ==
    ASSUME NEW k, NEW r, ~Writing(k), StoreHas(k)'
    PROVE  StoreHas(r)'
<1>1. Unrecorded(k)' = {} /\ (k.at = "upload" => k.gone = Assets)
  BY DEF Writing, Unrecorded
<1> QED
  BY <1>1 DEF StoreHas

(* A step of a run that nobody disturbs leaves the invariant as it is for  *)
(* the run, and for every other that is not disturbed after it: what the   *)
(* run wrote, if it has stopped writing now, is a whole store.             *)
LEMMA RunStep ==
    ASSUME ChangelogTypeOK, StoreIInv, NEW s \in Slots, NEW k, Goes(s, k), ~Crossing', Books',
           k.at \in {"idle", "read"} => k.malformed = {},
           Undisturbed(s) => Whole(k)',
           ~Writing(run[s]) /\ ~Writing(k) =>
               UNCHANGED <<head, store, published, torn, damaged>> /\ orphans \subseteq orphans',
           ~Undisturbed(s) => ~Writing(k)
    PROVE  StoreIInv'
<1>1. run'[s] = k /\ \A o \in Slots \ {s} : run'[o] = run[o]
  BY GoesTyped DEF ChangelogTypeOK, RunsTyped
<1>2. Undisturbed(s)' <=> Undisturbed(s)
  BY <1>1 DEF Undisturbed
<1>3. ~Undisturbed(s) => ~Writing(run[s])
  BY DEF StoreIInv, Crossing, Undisturbed, Writing, Relies
<1>4. ASSUME NEW o \in Slots \ {s}, Undisturbed(o)' PROVE Whole(run[o])'
  <2>1. ~Writing(k)
    BY <1>1, <1>4 DEF Undisturbed
  <2>2. PICK r : r = run[o]
    OBVIOUS
  <2>3. CASE ~Writing(run[s])
    <3>1. Undisturbed(o)
      BY <1>1, <1>4, <2>3 DEF Undisturbed
    <3>2. Whole(r)
      BY <2>2, <3>1 DEF StoreIInv
    <3>3. head \in Nat
      BY DEF ChangelogTypeOK
    <3>4. head' \in Nat /\ head' >= head
      BY <2>1, <2>3, <3>3
    <3>5. Whole(r)'
      BY <2>1, <2>3, <3>2, <3>4, WholeKept
    <3> QED
      BY <1>1, <2>2, <3>5
  <2>4. CASE Writing(run[s])
    <3>1. ~Relies(r) /\ Undisturbed(s)
      BY <1>3, <2>2, <2>4 DEF StoreIInv, Crossing
    <3>2. r.malformed = {}
      BY <2>2, <3>1 DEF StoreIInv, Relies
    <3>3. StoreHas(k)'
      BY <3>1 DEF Whole
    <3>4. Whole(r)'
      BY <2>1, <3>1, <3>2, <3>3, StoreForAll, QuietWhole
    <3> QED
      BY <1>1, <2>2, <3>4
  <2> QED
    BY <2>3, <2>4
<1>5. ASSUME Undisturbed(s)' PROVE Whole(run[s])'
  <2>1. Whole(k)'
    BY <1>2, <1>5
  <2> QED
    BY <1>1, <2>1
<1>6. \A o \in Slots : run'[o].at \in {"idle", "read"} => run'[o].malformed = {}
  BY <1>1 DEF StoreIInv
<1> QED
  BY <1>4, <1>5, <1>6 DEF StoreIInv

(* Runs do not begin to cross where none begins to write or to rely.       *)
LEMMA StillApart ==
    ASSUME ChangelogTypeOK, ~Crossing, NEW s \in Slots, NEW k, Goes(s, k),
           Writing(k) => Writing(run[s]), Relies(k) => Relies(run[s])
    PROVE  ~Crossing'
<1>1. run'[s] = k /\ \A o \in Slots \ {s} : run'[o] = run[o]
  BY GoesTyped DEF ChangelogTypeOK, RunsTyped
<1> QED
  BY <1>1 DEF Crossing

LEMMA GoesIsOne ==
    ASSUME ChangelogTypeOK, NEW s \in Slots, NEW k, NEW j, Goes(s, k), Goes(s, j)
    PROVE  k = j
  BY GoesTyped DEF ChangelogTypeOK, RunsTyped

LEMMA NoRunQuiet == ~Writing(NoRun) /\ ~Relies(NoRun) /\ NoRun.malformed = {}
  BY DEF Writing, Relies, NoRun, Cutting

(* The steps of a run, from a store it may rely on.                        *)
LEMMA CopyStep ==
    ASSUME ChangelogTypeOK, StoreIInv, NEW s \in Slots,
           Plan(s) \/ EnsureTagRef(s) \/ Rerender(s) \/ EditDraft(s)
    PROVE  StoreIInv'
<1>1. run[s].at \in MidRun \ {"upload"} /\ Relies(run[s])
  BY DEF Plan, EnsureTagRef, Rerender, EditDraft, Relies, MidRun
<1>2. Undisturbed(s) /\ Books /\ Whole(run[s]) /\ ~Crossing
  BY <1>1, ReliesUndisturbed DEF StoreIInv
<1>3. Books' /\ \E k : Goes(s, k) /\ Whole(k)'
  BY <1>2, PlanStep, EnsureTagRefStep, RerenderStep, EditDraftStep
<1>4. PICK k : Goes(s, k) /\ Whole(k)'
  BY <1>3
<1>5. Writing(k) => Writing(run[s])
  <2>1. CASE Plan(s)
    <3>1. PICK j : Goes(s, j) /\ (j = NoRun \/ Planned(s, j))
      BY <2>1, PlanGoes
    <3>2. j = k
      BY <1>4, <3>1, GoesIsOne
    <3> QED
      BY <3>1, <3>2, NoRunQuiet DEF Planned, Writing, Cutting
  <2>2. CASE EnsureTagRef(s)
    <3>1. PICK j : Goes(s, j) /\ (j = NoRun \/ j.at \in {"publish", "release"})
      BY <2>2, EnsureTagRefGoes
    <3>2. j = k
      BY <1>4, <3>1, GoesIsOne
    <3> QED
      BY <3>1, <3>2, NoRunQuiet DEF Writing
  <2>3. CASE Rerender(s)
    <3>1. PICK j : Goes(s, j) /\ j.at = "draft" /\ j.kind = run[s].kind
      BY <2>3, RerenderGoes
    <3>2. j = k
      BY <1>4, <3>1, GoesIsOne
    <3>3. run[s].kind = "reconcile"
      BY <1>2, <2>3 DEF Whole, Unwritten, Rerender
    <3> QED
      BY <3>1, <3>2, <3>3 DEF Writing, Cutting
  <2>4. CASE EditDraft(s)
    <3>1. PICK j : Goes(s, j) /\ j.at = "upload" /\ j.kind = run[s].kind /\ j.gone = Assets
      BY <2>4, EditDraftGoes
    <3>2. j = k
      BY <1>4, <3>1, GoesIsOne
    <3> QED
      BY <2>4, <3>1, <3>2 DEF Writing, EditDraft
  <2> QED
    BY <2>1, <2>2, <2>3, <2>4
<1>6. ~Crossing'
  BY <1>1, <1>2, <1>4, <1>5, StillApart
<1>7. k.at \in {"idle", "read"} => k.malformed = {}
  BY <1>4 DEF Whole, MalformedAside
<1>8. UNCHANGED <<head, store, published, torn, damaged, orphans>>
  <2>1. Rerender(s) => published' = published
    BY <1>2, RerenderChangesNothing DEF Whole
  <2> QED
    BY <2>1 DEF Plan, EnsureTagRef, Rerender, EditDraft, releases, past, losses
<1> QED
  BY <1>2, <1>3, <1>4, <1>6, <1>7, <1>8, RunStep

(* The steps that write: before the first of them the run has not written, *)
(* and after it, it has.                                                   *)
LEMMA WriteStep ==
    ASSUME ChangelogTypeOK, StoreIInv, NEW s \in Slots,
           Publish(s) \/ DeleteAsset(s) \/ UploadAsset(s), ~crossed'
    PROVE  StoreIInv'
<1>0. run[s] \in Runs /\ run[s].gone \subseteq Assets /\ run[s].owed \subseteq Assets
  <2>1. run[s] \in Runs
    BY DEF ChangelogTypeOK
  <2> QED
    BY <2>1 DEF Runs
<1>1. Relies(run[s])
  BY DEF Publish, DeleteAsset, UploadAsset, Relies
<1>2. Undisturbed(s) /\ Books /\ Whole(run[s]) /\ ~Crossing
  BY <1>1, ReliesUndisturbed DEF StoreIInv
<1>3. Books' /\ \E k : Goes(s, k) /\ Whole(k)'
  BY <1>2, PublishStep, DeleteAssetStep, UploadAssetStep
<1>4. PICK k : Goes(s, k) /\ Whole(k)'
  BY <1>3
<1>5. k.at \in {"idle", "read"} => k.malformed = {}
  BY <1>4 DEF Whole, MalformedAside
<1>6. CASE Publish(s)
  <2>1. PICK j : Goes(s, j) /\ Published(s, j)
    BY <1>6, PublishGoes
  <2>2. j = k
    BY <1>4, <2>1, GoesIsOne
  <2>3. Writing(k)
    BY <2>1, <2>2 DEF Published, Writing
  <2>4. ~Crossing'
    BY <1>6 DEF Publish, NoteCrossing
  <2> QED
    BY <1>2, <1>3, <1>4, <1>5, <2>3, <2>4, RunStep
<1>7. CASE DeleteAsset(s)
  <2>1. PICK a \in run[s].gone :
          \E j : Goes(s, j) /\ j.at = "upload" /\ j.gone = run[s].gone \ {a}
    BY <1>7, DeleteAssetGoes
  <2>2. PICK j : Goes(s, j) /\ j.at = "upload" /\ j.gone = run[s].gone \ {a}
    BY <2>1
  <2>3. j = k
    BY <1>4, <2>2, GoesIsOne
  <2>4. Writing(k)
    BY <1>0, <2>1, <2>2, <2>3 DEF Writing
  <2>5. ~Crossing'
    BY <1>7 DEF DeleteAsset, NoteCrossing
  <2> QED
    BY <1>2, <1>3, <1>4, <1>5, <2>4, <2>5, RunStep
<1>8. CASE UploadAsset(s)
  <2>1. PICK a \in run[s].owed : a \notin run[s].gone
    BY <1>8, UploadAssetGoes
  <2>2. Writing(run[s])
    BY <1>0, <1>8, <2>1 DEF Writing, UploadAsset
  <2>3. ~Crossing'
    BY <1>1, <1>2, <1>4, <2>2, StillApart
  <2> QED
    BY <1>2, <1>3, <1>4, <1>5, <2>2, <2>3, RunStep
<1> QED
  BY <1>6, <1>7, <1>8

(* A run that reads: where another writes, it may only fail.               *)
LEMMA ReadsStep ==
    ASSUME ChangelogTypeOK, StoreIInv, NEW s \in Slots, Read(s), ~crossed'
    PROVE  StoreIInv'
<1>0. ~Crossing'
  BY DEF Read, NoteCrossing
<1>1. /\ run[s].at = "read" /\ head \in Nat
      /\ UNCHANGED <<head, store, published, torn, damaged, orphans>>
  BY DEF Read, releases, losses, ChangelogTypeOK
<1>2. Books'
  BY <1>1, BooksKept DEF StoreIInv
<1>3. PICK k : Goes(s, k) /\ (k = NoRun \/ k.at = "plan")
  BY ReadGoes
<1>4. ASSUME Undisturbed(s) PROVE Whole(k)'
  <2>1. PICK j : Goes(s, j) /\ Whole(j)'
    BY <1>4, ReadStep DEF StoreIInv
  <2>2. j = k
    BY <1>3, <2>1, GoesIsOne
  <2> QED
    BY <2>1, <2>2
<1>5. ~Writing(k) /\ (k.at \in {"idle", "read"} => k.malformed = {})
  BY <1>3, NoRunQuiet DEF Writing
<1> QED
  BY <1>0, <1>1, <1>2, <1>3, <1>4, <1>5, RunStep

(* A run that dies: undisturbed or not, it stops.                          *)
LEMMA DeathStep ==
    ASSUME ChangelogTypeOK, StoreIInv, NEW s \in Slots, Dies(s)
    PROVE  StoreIInv'
<1>1. Goes(s, NoRun) /\ ~Writing(NoRun) /\ ~Relies(NoRun) /\ NoRun.malformed = {}
  BY DiesGoes, NoRunQuiet
<1>2. ~Crossing'
  BY <1>1, StillApart DEF StoreIInv
<1>3. ASSUME Undisturbed(s) PROVE Books' /\ Whole(NoRun)'
  <2>1. Books' /\ \E k : Goes(s, k) /\ Whole(k)'
    BY <1>3, DiesStep DEF StoreIInv
  <2>2. PICK j : Goes(s, j) /\ Whole(j)'
    BY <2>1
  <2>3. j = NoRun
    BY <1>1, <2>2, GoesIsOne
  <2> QED
    BY <2>1, <2>2, <2>3
<1>4. ASSUME ~Writing(run[s])
      PROVE  /\ UNCHANGED <<head, store, published, torn, damaged>>
             /\ orphans \subseteq orphans'
  BY <1>4 DEF Dies, releases, Writing, ChangelogTypeOK
<1>5. ~Undisturbed(s) => ~Writing(run[s])
  BY DEF StoreIInv, Crossing, Undisturbed, Writing, Relies
<1>6. Books'
  <2>1. head \in Nat
    BY DEF ChangelogTypeOK
  <2>2. CASE ~Undisturbed(s)
    BY <1>4, <1>5, <2>1, <2>2, BooksKept DEF StoreIInv
  <2> QED
    BY <1>3, <2>2
<1> QED
  BY <1>1, <1>2, <1>3, <1>4, <1>6, RunStep

(* A run starts with what was true of the store while nothing ran; where   *)
(* another writes nothing is said of it.                                   *)
LEMMA StartStep ==
    ASSUME ChangelogTypeOK, StoreIInv, NEW s \in Slots, run[s] = NoRun,
           NEW k, Goes(s, k), k.at = "read", k.malformed = {},
           k.kind = "baseline" => ReleaseTags \subseteq {Baseline} \cap orphans,
           UNCHANGED <<head, store, published, losses>>, ~Crossing'
    PROVE  StoreIInv'
<1>1. head \in Nat /\ UNCHANGED <<head, store, published, torn, damaged, orphans>>
  BY DEF ChangelogTypeOK, losses
<1>2. Books'
  BY <1>1, BooksKept DEF StoreIInv
<1>3. ~Writing(k)
  BY DEF Writing
<1>4. ASSUME Undisturbed(s) PROVE Whole(k)'
  <2>1. StoreHas(NoRun)
    BY <1>4 DEF StoreIInv, Whole
  <2>2. StoreHas(k)'
    <3>1. Unrecorded(NoRun) = {}
      BY DEF Unrecorded, NoRun
    <3>2. NoRun.at # "upload"
      BY NoRunTyped
    <3> QED
      BY <2>1, <3>1, <3>2, StoreKept
  <2>3. CopyTrue(k)' /\ MalformedAside(k)' /\ HalfWritten(k)'
    BY DEF CopyTrue, MidRun, MalformedAside, HalfWritten
  <2>4. Unwritten(k)'
    BY <1>1 DEF Unwritten, ReleaseTags
  <2> QED
    BY <2>2, <2>3, <2>4 DEF Whole
<1> QED
  BY <1>1, <1>2, <1>3, <1>4, RunStep

(* So does what changes neither the store, the releases nor the runs,      *)
LEMMA RestKept ==
    ASSUME ChangelogTypeOK, StoreIInv, run' = run, head' \in Nat, head' >= head,
           UNCHANGED <<store, published, losses>>
    PROVE  StoreIInv'
<1>0. UNCHANGED <<store, published, torn, damaged, orphans>>
  BY DEF losses
<1>1. Books'
  BY <1>0, BooksKept DEF StoreIInv
<1>2. ASSUME NEW s \in Slots, Undisturbed(s)' PROVE Whole(run[s])'
  <2>1. Undisturbed(s)
    BY <1>2 DEF Undisturbed
  <2>2. PICK r : r = run[s]
    OBVIOUS
  <2>3. Whole(r)'
    BY <1>0, <2>1, <2>2, WholeKept DEF StoreIInv
  <2> QED
    BY <2>2, <2>3
<1>3. ~Crossing'
  BY DEF StoreIInv, Crossing
<1> QED
  BY <1>1, <1>2, <1>3 DEF StoreIInv

(* and a line that is damaged: it is of no consequence for the others.     *)
LEMMA DamageStep ==
    ASSUME ChangelogTypeOK, StoreIInv, Damage
    PROVE  StoreIInv'
<1>1. PICK p \in DOMAIN lines \ bad : bad' = bad \cup {p} /\ damaged' = damaged \cup {p}
  BY DEF Damage
<1>2. /\ UNCHANGED <<head, lines, manifest, published, run, torn, orphans>>
      /\ ReleaseTags' = ReleaseTags /\ Sound' = Sound
  BY DEF Damage, releases, ReleaseTags, Sound
<1>3. \A q \in DOMAIN ParseRecords :
        q = p \/ (q \in DOMAIN ParseRecords' /\ ParseRecords'[q] = ParseRecords[q])
  BY <1>1, <1>2 DEF ParseRecords
<1>4. Books'
  <2>1. Merged'
    BY <1>1, <1>2 DEF StoreIInv, Books, Merged
  <2>2. VersionsTrue(manifest)'
    BY <1>2 DEF StoreIInv, Books, VersionsTrue
  <2>3. Once'
    BY <1>1, <1>2 DEF StoreIInv, Books, Once
  <2> QED
    BY <2>1, <2>2, <2>3 DEF Books
<1>5. ASSUME NEW r, Whole(r) PROVE Whole(r)'
  <2>1. CopyTrue(r)'
    <3>1. r.at \in MidRun =>
            /\ VersionsTrue(r.vers)
            /\ DOMAIN r.recs \ r.malformed \subseteq 1..head
            /\ ~torn => Sound \subseteq DOMAIN r.vers
            /\ ~torn => \A t \in Sound : \A q \in published[t].prs \ damaged' :
                           q \in DOMAIN r.recs /\ r.recs[q] # Null
      BY <1>1, <1>5 DEF Whole, CopyTrue
    <3> QED
      BY <1>2, <3>1 DEF CopyTrue, VersionsTrue
  <2>2. MalformedAside(r)' /\ Unwritten(r)'
    BY <1>2, <1>5 DEF Whole, MalformedAside, Unwritten
  <2>3. HalfWritten(r)'
    <3>1. Stamped(ParseRecords) => Stamped(ParseRecords)'
      BY <1>1, <1>2, <1>3 DEF Stamped
    <3> QED
      BY <1>2, <1>5, <3>1 DEF Whole, HalfWritten
  <2>4. StoreHas(r)'
    <3>1. Unrecorded(r)' = Unrecorded(r)
      BY DEF Unrecorded
    <3>2. ~torn /\ (r.at = "upload" => r.gone = Assets) =>
            \A t \in Sound \ Unrecorded(r) :
                /\ t \in DOMAIN manifest
                /\ \A q \in published[t].prs \ damaged' :
                     q \in DOMAIN ParseRecords' /\ ParseRecords'[q] # Null
      BY <1>1, <1>3, <1>5 DEF Whole, StoreHas
    <3> QED
      BY <1>2, <3>1, <3>2 DEF StoreHas
  <2> QED
    BY <2>1, <2>2, <2>3, <2>4 DEF Whole
<1>6. ASSUME NEW s \in Slots, Undisturbed(s)' PROVE Whole(run[s])'
  <2>1. Undisturbed(s)
    BY <1>2, <1>6 DEF Undisturbed
  <2>2. PICK r : r = run[s]
    OBVIOUS
  <2>3. Whole(r)'
    BY <1>5, <2>1, <2>2 DEF StoreIInv
  <2> QED
    BY <1>2, <2>2, <2>3
<1>7. ~Crossing' /\ \A s \in Slots : run'[s].at \in {"idle", "read"} => run'[s].malformed = {}
  BY <1>2 DEF StoreIInv, Crossing
<1> QED
  BY <1>4, <1>6, <1>7 DEF StoreIInv

(* What has crossed stays so: nothing more is said from then on.           *)
LEMMA CrossedStays ==
    ASSUME ChangelogTypeOK, crossed, [ChangelogNext]_changelogVars
    PROVE  crossed'
<1>1. crossed' = (crossed \/ Crossing') \/ crossed' = crossed
  BY DEF ChangelogNext, changelogVars, past, NoteCrossing, Merge, Dispatch, Schedule, StartQueued,
         StartLocal, Age, Damage, Work, Read, Plan, EnsureTagRef, Publish, Rerender, EditDraft,
         DeleteAsset, UploadAsset, Dies
<1> QED
  BY <1>1 DEF ChangelogTypeOK

(* The invariant is inductive as long as no two runs have crossed.         *)
LEMMA StoreInductive ==
    ASSUME ChangelogTypeOK, StoreIInv, [ChangelogNext]_changelogVars, ~crossed'
    PROVE  StoreIInv'
<1>0. /\ head \in Nat /\ MaxPR \in Nat /\ head \in 0..MaxPR /\ "ci" \in Slots /\ "local" \in Slots
      /\ 0 \in 0..MaxPR
  BY TagsAreNumbers DEF ChangelogTypeOK, Slots
<1>1. CASE Merge \/ Dispatch \/ Schedule \/ Age
  <2>1. /\ run' = run /\ head' \in Nat /\ head' >= head /\ UNCHANGED <<store, published, losses>>
    BY <1>0, <1>1 DEF Merge, Dispatch, Schedule, Age, releases, past
  <2> QED
    BY <2>1, RestKept
<1>2. CASE StartQueued
  <2>1. run["ci"] = NoRun /\ UNCHANGED <<head, store, published, losses>>
    BY <1>2 DEF StartQueued, releases, past
  <2>2. PICK k : QueuedRun(k)
    BY <1>2, QueuedGoes
  <2>3. ~Writing(k) /\ ~Relies(k)
    BY <2>2 DEF QueuedRun, Writing, Relies
  <2>4. ~Crossing'
    BY <1>0, <2>2, <2>3, StillApart DEF StoreIInv, QueuedRun
  <2> QED
    BY <1>0, <2>1, <2>2, <2>4, StartStep DEF QueuedRun
<1>3. CASE StartLocal
  <2>1. /\ run["local"] = NoRun /\ ~Crossing' /\ UNCHANGED <<head, store, published, losses>>
    BY <1>3 DEF StartLocal, NoteCrossing, releases
  <2>2. PICK k : LocalRun(k)
    BY <1>3, LocalGoes
  <2> QED
    BY <1>0, <2>1, <2>2, StartStep DEF LocalRun
<1>4. CASE UNCHANGED changelogVars
  <2>1. /\ run' = run /\ head' \in Nat /\ head' >= head /\ UNCHANGED <<store, published, losses>>
    BY <1>0, <1>4 DEF changelogVars, releases, past
  <2> QED
    BY <2>1, RestKept
<1>5. ASSUME NEW s \in Slots, Work(s) PROVE StoreIInv'
  BY <1>5, ReadsStep, CopyStep, WriteStep DEF Work
<1> QED
  BY <1>1, <1>2, <1>3, <1>4, <1>5, DeathStep, DamageStep DEF ChangelogNext

LEMMA StoreInvariant == ChangelogSpec => [](ChangelogTypeOK /\ (crossed \/ StoreIInv))
<1>1. ChangelogInit => ChangelogTypeOK /\ (crossed \/ StoreIInv)
  BY TypeInit, StoreInitially
<1>2. ASSUME ChangelogTypeOK, crossed \/ StoreIInv, [ChangelogNext]_changelogVars
      PROVE  ChangelogTypeOK' /\ (crossed' \/ StoreIInv')
  BY <1>2, TypeStep, StoreInductive, CrossedStays
<1>3. ChangelogTypeOK /\ (crossed \/ StoreIInv) /\ [ChangelogNext]_changelogVars
        => (ChangelogTypeOK /\ (crossed \/ StoreIInv))'
  BY <1>2
<1> QED
  BY <1>1, <1>3, PTL DEF ChangelogSpec

(* A PR ships in one version: no two releases list the same one, unless the*)
(* run of one died before its version was recorded, a line was damaged, or *)
(* a run wrote while another relied on the store.                          *)
THEOREM ChangelogShipsOnce == ChangelogSpec => []ShipsOnce
<1>1. ASSUME ChangelogTypeOK, crossed \/ StoreIInv PROVE ShipsOnce
  BY <1>1 DEF StoreIInv, Books, Once, ShipsOnce
<1> QED
  BY <1>1, StoreInvariant, PTL

(* While nothing runs, every published release is in the manifest with the *)
(* PRs of its body, unless its run died before it was recorded, an upload  *)
(* was cut short, or two runs crossed.                                     *)
THEOREM ChangelogKnowsReleases == ChangelogSpec => []ManifestKnowsReleases
<1>1. ASSUME ChangelogTypeOK, crossed \/ StoreIInv PROVE ManifestKnowsReleases
  <2> SUFFICES ASSUME StoreIInv, ~torn, run["ci"] = NoRun, run["local"] = NoRun,
                      NEW t \in Sound
               PROVE  t \in DOMAIN manifest /\ manifest[t].prs = published[t].prs
    BY <1>1 DEF ManifestKnowsReleases, Sound, ReleaseTags
  <2>1. Whole(NoRun)
    BY NoRunQuiet DEF StoreIInv, Undisturbed, Slots
  <2>2. NoRun.at # "upload" /\ Unrecorded(NoRun) = {}
    BY NoRunTyped DEF Unrecorded, NoRun
  <2>3. t \in DOMAIN manifest
    BY <2>1, <2>2 DEF Whole, StoreHas
  <2> QED
    BY <2>3 DEF StoreIInv, Books, VersionsTrue
<1> QED
  BY <1>1, StoreInvariant, PTL

-----------------------------------------------------------------------------
(* What holds even when runs cross and uploads are cut short.  A manifest, *)
(* and any copy of one, lists for a tag the PRs its release was published  *)
(* with, unless a baseline that was never recorded is published again, or  *)
(* a second cut wrote over the release.                                    *)
Faithful(vers) ==
    \A t \in DOMAIN vers :
        /\ t \in ReleaseTags
        /\ (t = Baseline /\ t \in orphans) \/ t \in recut \/ vers[t].prs = published[t].prs

(* Only a checkout makes the baseline: its tag is one that only it         *)
(* publishes, and that of a cut one that is free and stays so, unless two  *)
(* runs cross.                                                             *)
OwnTag(r) ==
    /\ r.at \in {"release", "publish"} =>
         IF r.kind = "baseline" THEN r.tag = Baseline
         ELSE r.tag # Baseline /\ (crossed \/ r.tag \notin ReleaseTags)
    /\ r.kind = "baseline" /\ r.at \in {"read", "plan", "release", "publish"} =>
         Baseline \notin ReleaseTags \/ Baseline \in orphans

OwnKind(s, r) == s = "ci" => r.kind # "baseline"

BodyIInv ==
    /\ recut # {} => crossed
    /\ Faithful(manifest)
    /\ \A s \in Slots : Faithful(run[s].vers) /\ OwnTag(run[s]) /\ OwnKind(s, run[s])

(* No release loses or gains a PR, but by a cut that crossed another.      *)
BodiesKept ==
    /\ orphans \subseteq orphans' /\ ReleaseTags \subseteq ReleaseTags'
    /\ recut \subseteq recut' /\ (crossed => crossed')
    /\ \A t \in ReleaseTags :
         \/ t = Baseline /\ t \in orphans
         \/ crossed /\ t \in recut'
         \/ published'[t].prs = published[t].prs

LEMMA FaithfulKept ==
    ASSUME NEW vers, Faithful(vers), BodiesKept
    PROVE  Faithful(vers)'
  BY DEF Faithful, BodiesKept

(* A run keeps its tag while nothing, or one of the other kind, publishes; *)
(* and a cut loses nothing by a crossing.                                  *)
LEMMA OwnTagKept ==
    ASSUME NEW r, OwnTag(r), orphans \subseteq orphans', crossed => crossed',
           \/ ReleaseTags' = ReleaseTags
           \/ \E t : /\ ReleaseTags' = ReleaseTags \cup {t}
                     /\ r.at \in {"release", "publish"} /\ r.kind # "baseline" =>
                          t = Baseline \/ crossed'
                     /\ r.kind = "baseline" => t # Baseline
    PROVE  OwnTag(r)'
<1>1. CASE ReleaseTags' = ReleaseTags
  BY <1>1 DEF OwnTag
<1>2. ASSUME NEW t, ReleaseTags' = ReleaseTags \cup {t},
             r.at \in {"release", "publish"} /\ r.kind # "baseline" => t = Baseline \/ crossed',
             r.kind = "baseline" => t # Baseline
      PROVE  OwnTag(r)'
  BY <1>2 DEF OwnTag
<1> QED
  BY <1>1, <1>2

LEMMA NoRunOwn ==
    /\ Faithful(Empty) /\ NoRun.vers = Empty /\ OwnTag(NoRun)
    /\ \A s : OwnKind(s, NoRun)
  BY EmptyPartial DEF Faithful, NoRun, OwnTag, OwnKind

(* A step of a run that publishes nothing.                                 *)
LEMMA BodyStep ==
    ASSUME ChangelogTypeOK, BodyIInv, NEW s \in Slots, NEW k, Goes(s, k), OwnKind(s, k),
           published' = published, recut' = recut, orphans \subseteq orphans',
           crossed => crossed',
           manifest' = manifest \/ manifest' = Empty \/ manifest' = run[s].vers,
           k.vers = run[s].vers \/ k.vers = manifest \/ k.vers = Empty, OwnTag(k)
    PROVE  BodyIInv' /\ BodiesKept
<1>1. run'[s] = k /\ \A o \in Slots \ {s} : run'[o] = run[o]
  BY GoesTyped DEF ChangelogTypeOK, RunsTyped
<1>2. BodiesKept /\ ReleaseTags' = ReleaseTags
  BY DEF BodiesKept, ReleaseTags
<1>3. ASSUME NEW vers, Faithful(vers) PROVE Faithful(vers)'
  BY <1>2, <1>3, FaithfulKept
<1>4. ASSUME NEW r, OwnTag(r) PROVE OwnTag(r)'
  BY <1>2, <1>4, OwnTagKept
<1>5. Faithful(manifest)'
  <2>1. PICK vers : vers = manifest' /\ Faithful(vers)
    BY NoRunOwn DEF BodyIInv
  <2>2. Faithful(vers)'
    BY <1>3, <2>1
  <2> QED
    BY <2>1, <2>2 DEF Faithful
<1>6. Faithful(k.vers)' /\ OwnTag(k)'
  <2>1. Faithful(k.vers)
    BY NoRunOwn DEF BodyIInv
  <2> QED
    BY <1>3, <1>4, <2>1
<1>7. ASSUME NEW o \in Slots \ {s}
      PROVE  Faithful(run[o].vers)' /\ OwnTag(run[o])' /\ OwnKind(o, run[o])'
  <2>1. PICK r : r = run[o]
    OBVIOUS
  <2>2. Faithful(r.vers)' /\ OwnTag(r)' /\ OwnKind(o, r)
    BY <1>3, <1>4, <2>1 DEF BodyIInv
  <2> QED
    BY <1>1, <2>1, <2>2 DEF OwnKind, Faithful, OwnTag
<1>8. Faithful(run[s].vers)' /\ OwnTag(run[s])' /\ OwnKind(s, run[s])'
  BY <1>1, <1>6 DEF OwnKind, Faithful, OwnTag
<1>9. recut' # {} => crossed'
  BY DEF BodyIInv
<1> QED
  BY <1>2, <1>5, <1>7, <1>8, <1>9 DEF BodyIInv

(* Rerender: it gives a release the PRs its version lists, or leaves it.   *)
LEMMA RerenderBodies ==
    ASSUME ChangelogTypeOK, BodyIInv, NEW s \in Slots, Rerender(s)
    PROVE  BodiesKept /\ ReleaseTags' = ReleaseTags
<1> DEFINE r == run[s]
           again == [t \in Renderable(r) |-> Render(r.vers, t, r.vers[t].prs \cap DOMAIN r.recs)]
<1>1. /\ r \in Runs /\ published' = Over(again, published) /\ Faithful(r.vers)
      /\ UNCHANGED <<orphans, recut, crossed>>
  BY DEF ChangelogTypeOK, BodyIInv, Rerender, past, losses
<1>2. r.vers \in Manifests
  BY <1>1 DEF Runs
<1>3. \A t \in DOMAIN again : /\ t \in DOMAIN r.vers /\ again[t].prs = r.vers[t].prs
  <2>1. ASSUME NEW t \in DOMAIN r.vers, r.vers[t].prs \subseteq DOMAIN r.recs
        PROVE  Render(r.vers, t, r.vers[t].prs \cap DOMAIN r.recs).prs = r.vers[t].prs
    <3>1. r.vers[t].prs \cap DOMAIN r.recs = r.vers[t].prs /\ r.vers[t].prs \in SUBSET PRs
      BY <1>2, <2>1, EntriesAre
    <3> DEFINE ps == r.vers[t].prs \cap DOMAIN r.recs
               vers == r.vers
    <3>2. ps \in SUBSET PRs /\ ps = r.vers[t].prs /\ vers \in Manifests
      BY <1>2, <3>1
    <3> HIDE DEF ps, vers
    <3>3. Render(vers, t, ps).prs = ps
      BY <3>2, RenderIs
    <3> QED
      BY <3>2, <3>3 DEF ps, vers
  <2> QED
    BY <2>1 DEF Renderable
<1> HIDE DEF again
<1>4. /\ DOMAIN published' = DOMAIN again \cup DOMAIN published
      /\ \A t \in DOMAIN published :
           published'[t] = IF t \in DOMAIN again THEN again[t] ELSE published[t]
  BY <1>1 DEF Over
<1>5. DOMAIN again \subseteq ReleaseTags
  BY <1>1, <1>3 DEF Faithful
<1>6. recut # {} => crossed
  BY DEF BodyIInv
<1>7. ASSUME NEW t \in ReleaseTags, ~(t = Baseline /\ t \in orphans), t \notin recut
      PROVE  published'[t].prs = published[t].prs
  BY <1>1, <1>3, <1>4, <1>7 DEF ReleaseTags, Faithful
<1> QED
  BY <1>1, <1>4, <1>5, <1>6, <1>7 DEF BodiesKept, ReleaseTags

(* Publish: the tag of a cut is of no release, unless it crossed another;  *)
(* of the baseline, of none or of one that was never recorded.             *)
LEMMA PublishBodies ==
    ASSUME ChangelogTypeOK, BodyIInv, NEW s \in Slots, Publish(s)
    PROVE  LET tag == run[s].tag IN
           /\ BodiesKept /\ ReleaseTags' = ReleaseTags \cup {tag}
           /\ IF run[s].kind = "baseline" THEN tag = Baseline ELSE tag # Baseline
           /\ manifest' = manifest /\ (recut' # {} => crossed')
           /\ \E k : /\ Goes(s, k) /\ Faithful(k.vers)' /\ k.kind = run[s].kind
                    /\ k.kind \in Cutting /\ k.at = "draft"
<1> DEFINE tag == run[s].tag
           cut == BuildCut(run[s].recs, tag)
           body == Render(run[s].vers, tag, cut.prs)
<1>1. PICK k : Goes(s, k) /\ Published(s, k)
  BY PublishGoes
<1>2. /\ run[s].at \in {"release", "publish"} /\ run[s].kind \in Cutting /\ tag \in Tags
      /\ published' = Over(Only(tag, body), published)
      /\ k.at = "draft" /\ k.kind = run[s].kind
      /\ k.vers = IF run[s].kind = "baseline" THEN Only(tag, cut)
                  ELSE UpsertVersion(run[s].vers, tag, cut)
  BY <1>1 DEF Published
<1>3. run[s].recs \in RecordSets /\ run[s].vers \in Manifests
  <2>1. run[s] \in Runs
    BY DEF ChangelogTypeOK
  <2> QED
    BY <2>1 DEF Runs
<1>4. body.prs = cut.prs
  <2>1. cut \in Entries
    BY <1>2, <1>3, CutIs
  <2>2. cut.prs \in SUBSET PRs
    BY <2>1 DEF Entries
  <2> HIDE DEF cut
  <2> QED
    BY <1>3, <2>2, RenderIs
<1>5. /\ run[s].kind = "baseline" =>
           tag = Baseline /\ (Baseline \notin ReleaseTags \/ Baseline \in orphans)
      /\ run[s].kind # "baseline" => tag # Baseline /\ (crossed \/ tag \notin ReleaseTags)
      /\ Faithful(run[s].vers) /\ (recut # {} => crossed)
  <2>1. OwnTag(run[s]) /\ Faithful(run[s].vers) /\ (recut # {} => crossed)
    BY DEF BodyIInv
  <2> QED
    BY <1>2, <2>1 DEF OwnTag
<1>6. /\ manifest' = manifest /\ orphans' = orphans /\ (crossed => crossed')
      /\ recut \subseteq recut' /\ (recut' \subseteq recut \cup ({tag} \cap ReleaseTags))
      /\ run[s].kind = "baseline" => recut' = recut
      /\ run[s].kind # "baseline" /\ tag \in ReleaseTags => tag \in recut'
  BY <1>2 DEF Publish, NoteCrossing, store, Cutting
<1> HIDE DEF cut, body, tag
<1>7. /\ ReleaseTags' = ReleaseTags \cup {tag} /\ published'[tag].prs = cut.prs
      /\ \A t \in ReleaseTags \ {tag} : published'[t] = published[t]
  <2> DEFINE over == Over(Only(tag, body), published)
  <2>1. DOMAIN Only(tag, body) = {tag} /\ Only(tag, body)[tag] = body
    BY DEF Only
  <2>2. /\ DOMAIN over = DOMAIN published \cup {tag} /\ over[tag] = body
        /\ \A t \in DOMAIN published \ {tag} : over[t] = published[t]
    BY <2>1 DEF Over
  <2>3. published' = over
    BY <1>2
  <2> HIDE DEF over
  <2> QED
    BY <1>4, <2>2, <2>3 DEF ReleaseTags
<1>8. BodiesKept /\ (recut' # {} => crossed')
  <2>1. recut' # {} => crossed'
    BY <1>5, <1>6
  <2>2. ASSUME NEW t \in ReleaseTags
        PROVE  \/ t = Baseline /\ t \in orphans
               \/ crossed /\ t \in recut'
               \/ published'[t].prs = published[t].prs
    BY <1>5, <1>6, <1>7
  <2> QED
    BY <1>6, <1>7, <2>1, <2>2 DEF BodiesKept
<1>9. Faithful(k.vers)'
  <2>1. DOMAIN Only(tag, cut) = {tag} /\ Only(tag, cut)[tag] = cut
    BY DEF Only
  <2>2. \A t \in DOMAIN k.vers :
          \/ t = tag /\ k.vers[t] = cut
          \/ t \in DOMAIN run[s].vers /\ k.vers[t] = run[s].vers[t]
    <3>1. CASE run[s].kind = "baseline"
      BY <1>2, <2>1, <3>1
    <3>2. CASE run[s].kind # "baseline"
      <4>1. k.vers = Over(Only(tag, cut), run[s].vers)
        BY <1>2, <3>2 DEF UpsertVersion
      <4> DEFINE over == Over(Only(tag, cut), run[s].vers)
      <4>2. \A t \in DOMAIN over :
              \/ t = tag /\ over[t] = cut
              \/ t \in DOMAIN run[s].vers /\ over[t] = run[s].vers[t]
        BY <2>1 DEF Over
      <4> QED
        BY <4>1, <4>2
    <3> QED
      BY <3>1, <3>2
  <2>3. PICK vers : vers = run[s].vers
    OBVIOUS
  <2>4. Faithful(vers)'
    BY <1>5, <1>8, <2>3, FaithfulKept
  <2> QED
    BY <1>7, <2>2, <2>3, <2>4 DEF Faithful
<1> QED
  BY <1>1, <1>2, <1>5, <1>6, <1>7, <1>8, <1>9 DEF tag

(* The invariant is inductive, and no step changes what a body lists.      *)
LEMMA BodyInductive ==
    ASSUME ChangelogTypeOK, BodyIInv, ChangelogNext
    PROVE  BodyIInv' /\ BodiesKept
<1>0. "ci" \in Slots /\ "local" \in Slots
  BY DEF Slots
<1>1. CASE Merge \/ Dispatch \/ Schedule \/ Age \/ Damage
  <2>1. run' = run /\ UNCHANGED <<manifest, published, orphans, recut, crossed>>
    BY <1>1 DEF Merge, Dispatch, Schedule, Age, Damage, releases, past, losses, store
  <2> QED
    BY <2>1 DEF BodyIInv, Faithful, OwnTag, OwnKind, BodiesKept, ReleaseTags
<1>2. CASE StartQueued
  <2>1. PICK k : QueuedRun(k)
    BY <1>2, QueuedGoes
  <2>2. UNCHANGED <<manifest, published, orphans, recut, crossed>>
    BY <1>2 DEF StartQueued, releases, past, losses, store
  <2>3. OwnKind("ci", k) /\ OwnTag(k)
    BY <2>1 DEF QueuedRun, OwnKind, OwnTag
  <2> QED
    BY <1>0, <2>1, <2>2, <2>3, BodyStep DEF QueuedRun
<1>3. CASE StartLocal
  <2>1. PICK k : LocalRun(k)
    BY <1>3, LocalGoes
  <2>2. UNCHANGED <<manifest, published, orphans, recut>> /\ (crossed => crossed')
    BY <1>3 DEF StartLocal, NoteCrossing, releases, losses, store
  <2>3. OwnKind("local", k) /\ OwnTag(k)
    BY <2>1 DEF LocalRun, OwnKind, OwnTag
  <2> QED
    BY <1>0, <2>1, <2>2, <2>3, BodyStep DEF LocalRun
<1>4. ASSUME NEW s \in Slots, Dies(s) PROVE BodyIInv' /\ BodiesKept
  <2>1. /\ Goes(s, NoRun) /\ UNCHANGED <<manifest, published, recut, crossed>>
        /\ orphans \subseteq orphans'
    BY <1>4, DiesGoes DEF Dies, releases, store
  <2> QED
    BY <2>1, NoRunOwn, BodyStep
<1>5. ASSUME NEW s \in Slots, Read(s) \/ Plan(s) \/ EnsureTagRef(s)
      PROVE  BodyIInv' /\ BodiesKept
  <2>1. UNCHANGED <<manifest, published, orphans, recut>> /\ (crossed => crossed')
    <3>1. CASE Read(s)
      BY <3>1 DEF Read, NoteCrossing, releases, losses, store
    <3>2. CASE Plan(s)
      BY <3>2 DEF Plan, releases, past, losses, store
    <3>3. CASE EnsureTagRef(s)
      BY <3>3 DEF EnsureTagRef, past, losses, store
    <3> QED
      BY <1>5, <3>1, <3>2, <3>3
  <2>2. OwnTag(run[s]) /\ OwnKind(s, run[s])
    BY DEF BodyIInv
  <2>3. \E k : /\ Goes(s, k) /\ OwnKind(s, k) /\ OwnTag(k)
               /\ k.vers = run[s].vers \/ k.vers = manifest \/ k.vers = Empty
    <3>1. CASE Read(s)
      <4>1. PICK k : Goes(s, k) /\
              \/ k = NoRun
              \/ k.at = "plan" /\ k.kind = run[s].kind /\ k.vers = manifest
        BY <3>1, ReadGoes
      <4>2. k = NoRun \/ (OwnKind(s, k) /\ OwnTag(k))
        BY <2>2, <3>1, <4>1 DEF OwnKind, OwnTag, Read
      <4> QED
        BY <4>1, <4>2, NoRunOwn
    <3>2. CASE Plan(s)
      <4>1. PICK k : Goes(s, k) /\ (k = NoRun \/ Planned(s, k))
        BY <3>2, PlanGoes
      <4>2. Planned(s, k) => OwnKind(s, k) /\ OwnTag(k)
        BY <2>2, <3>2 DEF OwnKind, OwnTag, Plan, Planned
      <4>3. Planned(s, k) => k.vers = run[s].vers
        BY DEF Planned
      <4> QED
        BY <4>1, <4>2, <4>3, NoRunOwn
    <3>3. CASE EnsureTagRef(s)
      <4>1. run[s].at \in {"release", "publish"}
        BY <3>3, EnsureTagRefGoes
      <4>2. PICK k : Goes(s, k) /\
              \/ k = NoRun
              \/ /\ k.kind = run[s].kind /\ k.vers = run[s].vers
                 /\ \/ k.at = "publish" /\ k.tag = run[s].tag
                    \/ /\ k.at = "release" /\ k.kind = "cut"
                       /\ k.tag \notin ReleaseTags /\ k.tag # Baseline
        BY <3>3, EnsureTagRefGoes
      <4>3. k = NoRun \/ (OwnKind(s, k) /\ OwnTag(k))
        BY <2>2, <4>1, <4>2 DEF OwnKind, OwnTag
      <4> QED
        BY <4>2, <4>3, NoRunOwn
    <3> QED
      BY <1>5, <3>1, <3>2, <3>3
  <2>4. PICK k : /\ Goes(s, k) /\ OwnKind(s, k) /\ OwnTag(k)
                 /\ k.vers = run[s].vers \/ k.vers = manifest \/ k.vers = Empty
    BY <2>3
  <2> QED
    BY <2>1, <2>4, BodyStep
<1>6. ASSUME NEW s \in Slots, EditDraft(s) \/ DeleteAsset(s) \/ UploadAsset(s)
      PROVE  BodyIInv' /\ BodiesKept
  <2>1. /\ UNCHANGED <<published, orphans, recut>> /\ (crossed => crossed')
        /\ manifest' = manifest \/ manifest' = Empty \/ manifest' = run[s].vers
    <3>1. CASE EditDraft(s)
      BY <3>1 DEF EditDraft, releases, past, losses, store
    <3>2. CASE DeleteAsset(s)
      BY <3>2 DEF DeleteAsset, NoteCrossing, releases, losses
    <3>3. CASE UploadAsset(s)
      BY <3>3 DEF UploadAsset, releases, past, losses
    <3> QED
      BY <1>6, <3>1, <3>2, <3>3
  <2>2. \E k : Goes(s, k) /\
          \/ k = NoRun
          \/ k.at = "upload" /\ k.kind = run[s].kind /\ k.vers = run[s].vers
    BY <1>6, EditDraftGoes, DeleteAssetGoes, UploadAssetGoes
  <2>3. PICK k : Goes(s, k) /\
          \/ k = NoRun
          \/ k.at = "upload" /\ k.kind = run[s].kind /\ k.vers = run[s].vers
    BY <2>2
  <2>4. OwnKind(s, k) /\ OwnTag(k)
    <3>1. OwnKind(s, run[s])
      BY DEF BodyIInv
    <3> QED
      BY <2>3, <3>1, NoRunOwn DEF OwnKind, OwnTag
  <2> QED
    BY <2>1, <2>3, <2>4, NoRunOwn, BodyStep
<1>7. ASSUME NEW s \in Slots, Rerender(s) \/ Publish(s) PROVE BodyIInv' /\ BodiesKept
  <2>1. /\ BodiesKept /\ manifest' = manifest /\ (recut' # {} => crossed')
        /\ ReleaseTags' = ReleaseTags \/
             /\ Publish(s) /\ ReleaseTags' = ReleaseTags \cup {run[s].tag}
             /\ IF run[s].kind = "baseline" THEN run[s].tag = Baseline ELSE run[s].tag # Baseline
        /\ \E k : /\ Goes(s, k) /\ Faithful(k.vers)' /\ k.kind = run[s].kind /\ k.at = "draft"
                  /\ Publish(s) => k.kind \in Cutting
    <3>1. CASE Rerender(s)
      <4>1. PICK k : Goes(s, k) /\ k.at = "draft" /\ k.kind = run[s].kind /\ k.vers = run[s].vers
        BY <3>1, RerenderGoes
      <4>2. BodiesKept /\ ReleaseTags' = ReleaseTags
        BY <3>1, RerenderBodies
      <4>3. Faithful(k.vers)
        BY <4>1 DEF BodyIInv
      <4>4. Faithful(k.vers)'
        BY <4>2, <4>3, FaithfulKept
      <4>5. manifest' = manifest /\ (recut' # {} => crossed') /\ ~Publish(s)
        BY <3>1 DEF Rerender, Publish, BodyIInv, past, losses, store
      <4> QED
        BY <4>1, <4>2, <4>4, <4>5
    <3>2. CASE Publish(s)
      BY <3>2, PublishBodies
    <3> QED
      BY <1>7, <3>1, <3>2
  <2>2. PICK k : /\ Goes(s, k) /\ Faithful(k.vers)' /\ k.kind = run[s].kind /\ k.at = "draft"
                 /\ Publish(s) => k.kind \in Cutting
    BY <2>1
  <2>3. run'[s] = k /\ \A o \in Slots \ {s} : run'[o] = run[o]
    BY <2>2, GoesTyped DEF ChangelogTypeOK, RunsTyped
  <2>4. Faithful(manifest)'
    <3>1. PICK vers : vers = manifest
      OBVIOUS
    <3>2. Faithful(vers)'
      BY <2>1, <3>1, FaithfulKept DEF BodyIInv
    <3> QED
      BY <2>1, <3>1, <3>2
  <2>5. Faithful(run[s].vers)' /\ OwnTag(run[s])' /\ OwnKind(s, run[s])'
    <3>1. OwnKind(s, run[s])
      BY DEF BodyIInv
    <3> QED
      BY <2>2, <2>3, <3>1 DEF OwnTag, OwnKind
  <2>6. ASSUME NEW o \in Slots \ {s}
        PROVE  Faithful(run[o].vers)' /\ OwnTag(run[o])' /\ OwnKind(o, run[o])'
    <3>1. PICK r : r = run[o]
      OBVIOUS
    <3>2. Faithful(r.vers) /\ OwnTag(r) /\ OwnKind(o, r)
      BY <3>1 DEF BodyIInv
    <3>3. Faithful(r.vers)'
      BY <2>1, <3>2, FaithfulKept
    <3>4. r.kind = "baseline" => s = "ci"
      BY <3>2 DEF Slots, OwnKind
    <3>5. run[s].kind = "baseline" => s # "ci"
      BY DEF BodyIInv, OwnKind
    <3>6. OwnTag(r)'
      <4>1. CASE ReleaseTags' = ReleaseTags
        BY <2>1, <3>2, <4>1, OwnTagKept DEF BodiesKept
      <4>2. CASE /\ Publish(s) /\ ReleaseTags' = ReleaseTags \cup {run[s].tag}
                 /\ IF run[s].kind = "baseline" THEN run[s].tag = Baseline
                    ELSE run[s].tag # Baseline
        <5>1. r.at \in {"release", "publish"} => crossed'
          <6>1. r.at \in {"release", "publish"} => Crossing'
            BY <2>2, <2>3, <3>1, <4>2 DEF Crossing, Writing, Relies
          <6> QED
            BY <4>2, <6>1 DEF Publish, NoteCrossing
        <5> QED
          BY <2>1, <3>2, <3>4, <3>5, <4>2, <5>1, OwnTagKept DEF BodiesKept
      <4> QED
        BY <2>1, <4>1, <4>2
    <3> QED
      BY <2>3, <3>1, <3>2, <3>3, <3>6 DEF OwnKind
  <2>7. \A o \in Slots : Faithful(run[o].vers)' /\ OwnTag(run[o])' /\ OwnKind(o, run[o])'
    BY <2>5, <2>6
  <2>8. BodyIInv'
    BY <2>1, <2>4, <2>7 DEF BodyIInv
  <2> QED
    BY <2>1, <2>8
<1> QED
  BY <1>1, <1>2, <1>3, <1>4, <1>5, <1>6, <1>7 DEF ChangelogNext, Work

LEMMA BodyInvariant == ChangelogSpec => []BodyIInv
<1>1. ChangelogInit => BodyIInv
  BY NoRunOwn DEF ChangelogInit, BodyIInv
<1>2. ASSUME ChangelogTypeOK, BodyIInv, [ChangelogNext]_changelogVars PROVE BodyIInv'
  <2>1. CASE UNCHANGED changelogVars
    BY <1>2, <2>1 DEF changelogVars, store, releases, past, losses, BodyIInv, Faithful, OwnTag,
                      OwnKind, ReleaseTags
  <2> QED
    BY <1>2, <2>1, BodyInductive
<1>3. ChangelogTypeOK /\ BodyIInv /\ [ChangelogNext]_changelogVars => BodyIInv'
  BY <1>2
<1> QED
  BY <1>1, <1>3, ChangelogTypeCorrect, PTL DEF ChangelogSpec

(* A body that is published never loses or gains a PR, however runs cross  *)
(* and uploads are cut short, but by a second of two cuts that crossed on  *)
(* one tag; and while none do nothing of it changes.                       *)
THEOREM ChangelogBodyStable == ChangelogSpec => PublishedBodyStable
<1> DEFINE Stable ==
             \A t \in DOMAIN published :
               /\ \/ t = Baseline /\ t \in orphans
                  \/ crossed /\ t \in recut'
                  \/ published'[t].prs = published[t].prs
               /\ ~torn /\ ~crossed /\ t \notin orphans => published'[t] = published[t]
<1>1. ASSUME ChangelogTypeOK, crossed \/ StoreIInv, BodyIInv, ChangelogNext PROVE Stable
  <2>1. \A t \in DOMAIN published :
           \/ t = Baseline /\ t \in orphans
           \/ crossed /\ t \in recut'
           \/ published'[t].prs = published[t].prs
    BY <1>1, BodyInductive DEF BodiesKept, ReleaseTags
  <2>2. ASSUME ~crossed, NEW s \in Slots, Rerender(s) \/ Publish(s)
        PROVE  \A t \in DOMAIN published : t \notin orphans => published'[t] = published[t]
    <3>1. Relies(run[s])
      BY <2>2 DEF Rerender, Publish, Relies
    <3>2. Books /\ Whole(run[s])
      BY <1>1, <2>2, <3>1, ReliesUndisturbed DEF StoreIInv
    <3>3. CASE Rerender(s)
      BY <1>1, <3>2, <3>3, RerenderChangesNothing DEF Whole
    <3>4. CASE Publish(s)
      <4> DEFINE tag == run[s].tag
      <4>1. /\ \A t \in ReleaseTags \ {tag} : published'[t] = published[t]
            /\ tag \in ReleaseTags => tag = Baseline /\ tag \in orphans
        BY <1>1, <3>2, <3>4, PublishedIs
      <4> HIDE DEF tag
      <4> QED
        BY <4>1 DEF ReleaseTags
    <3> QED
      BY <2>2, <3>3, <3>4
  <2>3. CASE UNCHANGED published
    BY <2>1, <2>3
  <2>4. UNCHANGED published \/ \E s \in Slots : Rerender(s) \/ Publish(s)
    BY <1>1 DEF ChangelogNext, Work, Merge, Dispatch, Schedule, StartQueued, StartLocal, Age,
       Damage, Dies, Read, Plan, EnsureTagRef, EditDraft, DeleteAsset, UploadAsset, releases
  <2> QED
    BY <2>1, <2>2, <2>3, <2>4
<1>2. ChangelogTypeOK /\ (crossed \/ StoreIInv) /\ BodyIInv /\ [ChangelogNext]_changelogVars
        => Stable \/ UNCHANGED changelogVars
  BY <1>1
<1> QED
  BY <1>2, StoreInvariant, BodyInvariant, PTL DEF ChangelogSpec, PublishedBodyStable

=============================================================================
