-------------------------- MODULE InstanceScheduler --------------------------
(***************************************************************************)
(* The power switch of the k3s node: the Lambda of infra/terraform/lambda/ *)
(* instance_scheduler.py, invoked by the nightly schedules, by the         *)
(* operator and by itself.  Invocations run side by side, each a sequence  *)
(* of calls to AWS, any of which may fail; EC2, the two CloudWatch alarms  *)
(* and EventBridge are modelled from how the Lambda uses them.             *)
(***************************************************************************)
EXTENDS Naturals, FiniteSets

CONSTANTS
    Tasks,        \* invocations that may run at the same time
    Alarms,       \* ALARM_NAMES, one region each
    AsyncRetries, \* how often Lambda retries an asynchronous invocation
    MaxFaults     \* how often calls fail, whichever they are

ASSUME InstanceSchedulerAssumption == AsyncRetries \in Nat /\ MaxFaults \in Nat

VARIABLES
    instance,   \* EC2 state
    alarm,      \* StateValue of every alarm
    armed,      \* its ActionsEnabled
    schedule,   \* the nightly schedules that are ENABLED
    task,       \* the invocations
    faults,
    told,       \* history: the operator was told of the alarm's present state
    calm,       \* history: the last invocation is a stop that overlaps no other
    forsaken,   \* history: suppressed alarms an invocation left so and gave up
    unheard     \* history: alarms in ALARM that nobody is there to tell of

vars == <<instance, alarm, armed, schedule, task, faults, told, calm, forsaken, unheard>>
aws == <<instance, alarm, armed, schedule>>
exceptions == <<forsaken, unheard>>
history == <<told, calm, exceptions>>

Schedules == {"start", "stop"}
Idle == [do |-> "none", at |-> "idle", todo |-> {}, after |-> "end", tries |-> 0, good |-> TRUE]

Init ==
    /\ instance = "running"
    /\ alarm = [a \in Alarms |-> "OK"]
    /\ armed = [a \in Alarms |-> TRUE]
    /\ schedule \in {{}, Schedules}
    /\ task = [t \in Tasks |-> Idle]
    /\ faults = 0
    /\ told = [a \in Alarms |-> FALSE]
    /\ calm = "no"
    /\ forsaken = {} /\ unheard = {}

-----------------------------------------------------------------------------
(* handler: the first call of an action.                                   *)
Begin(do, tries) ==
    LET at == CASE do \in {"on", "off", "auto"} -> "schedules"
                [] do = "start"  -> "starting"
                [] do = "stop"   -> "disarming"
                [] do = "rearm"  -> "polling"
        todo == CASE do \in {"on", "off", "auto"} -> Schedules
                  [] do = "start"  -> {}
                  [] OTHER         -> Alarms
    IN [do |-> do, at |-> at, todo |-> todo, after |-> "end", tries |-> tries, good |-> TRUE]

Put(t, rec) == task' = [task EXCEPT ![t] = rec]
Step(t, at, todo) == Put(t, [task[t] EXCEPT !.at = at, !.todo = todo])
ToArming(t, after) == Put(t, [task[t] EXCEPT !.at = "arming", !.todo = Alarms, !.after = after])

(* An invocation that raises: the asynchronous ones are retried.           *)
Retried == {"start", "stop", "rearm"}

Raised(t) ==
    IF task[t].do \in Retried /\ task[t].tries < AsyncRetries
      THEN Begin(task[t].do, task[t].tries + 1)
      ELSE Idle

AllIdle == \A t \in Tasks : task[t] = Idle
Alone(t) == \A u \in Tasks \ {t} : task[u] = Idle

Invoke(t, do) ==
    /\ task[t] = Idle
    /\ Put(t, Begin(do, 0))
    /\ calm' = IF do \in {"stop", "off"} /\ Alone(t) THEN "stopping" ELSE "no"
    /\ UNCHANGED <<aws, faults, told, exceptions>>

Nightly(t) == \E s \in schedule : Invoke(t, s)                    \* EventBridge
Operate(t) == \E do \in {"on", "off", "auto"} : Invoke(t, do)     \* power.sh

(* One more call fails. *)
Fails ==
    /\ faults < MaxFaults
    /\ faults' = faults + 1

(* The invocation raises.  When nobody retries it, what is suppressed or   *)
(* untold by then stays so (history).                                      *)
GivesUp(t) == Raised(t) = Idle

LeavesUnarmed(t) ==
    forsaken' = forsaken \cup {a \in Alarms : GivesUp(t) /\ ~armed[a]}

LeavesUntold(t) ==
    unheard' = unheard \cup {a \in Alarms : GivesUp(t) /\ alarm[a] = "ALARM" /\ ~told[a]}

-----------------------------------------------------------------------------
(* _set_schedule_state: a full replace, schedule by schedule.              *)
SetSchedule(t) == \E s \in task[t].todo :
    /\ task[t].at = "schedules"
    /\ schedule' = IF task[t].do = "auto" THEN schedule \cup {s} ELSE schedule \ {s}
    /\ IF task[t].todo # {s} THEN Step(t, "schedules", task[t].todo \ {s})
       ELSE IF task[t].do = "off" THEN Step(t, "disarming", Alarms)
       ELSE Step(t, "starting", {})
    /\ UNCHANGED <<instance, alarm, armed, faults, history>>

ScheduleFails(t) ==
    /\ task[t].at = "schedules"
    /\ Fails
    /\ Put(t, Idle)
    /\ UNCHANGED <<aws, history>>

(* _stop: suppress the alarms, then stop; a stop that fails is rolled back. *)
(* Slips: one region's alarm is suppressed for all; no rollback.            *)
DisarmOneRegion(t) == \E a \in task[t].todo :
    /\ task[t].at = "disarming"
    /\ armed' = [armed EXCEPT ![a] = FALSE]
    /\ Step(t, "stopping", {})
    /\ UNCHANGED <<instance, alarm, schedule, faults, history>>

Disarm(t) == \E a \in task[t].todo :
    /\ task[t].at = "disarming"
    /\ armed' = [armed EXCEPT ![a] = FALSE]
    /\ IF task[t].todo # {a} THEN Step(t, "disarming", task[t].todo \ {a})
       ELSE Step(t, "stopping", {})
    /\ UNCHANGED <<instance, alarm, schedule, faults, history>>

DisarmFails(t) ==
    /\ task[t].at = "disarming"
    /\ Fails
    /\ Put(t, Raised(t))
    /\ LeavesUnarmed(t)
    /\ UNCHANGED <<aws, told, calm, unheard>>

StopCall(t) ==
    /\ task[t].at = "stopping"
    /\ instance' = IF instance = "running" THEN "stopping" ELSE instance
    /\ Step(t, "reporting", {})
    /\ calm' = IF calm = "stopping" THEN "asleep" ELSE calm
    /\ UNCHANGED <<alarm, armed, schedule, faults, told, exceptions>>

StopFailsUnarmed(t) ==
    /\ task[t].at = "stopping"
    /\ Fails
    /\ Put(t, Raised(t))
    /\ calm' = "no"
    /\ UNCHANGED <<aws, told, exceptions>>

StopFails(t) ==
    /\ task[t].at = "stopping"
    /\ Fails
    /\ ToArming(t, "raise")
    /\ calm' = "no"
    /\ UNCHANGED <<aws, told, exceptions>>

(* _start: EC2 refuses to start a node that is still stopping.             *)
StartCall(t) ==
    /\ task[t].at = "starting"
    /\ instance # "stopping"
    /\ instance' = "running"
    /\ Step(t, "handing", {})
    /\ forsaken' = {}
    /\ UNCHANGED <<alarm, armed, schedule, faults, told, calm, unheard>>

StartFails(t) ==
    /\ task[t].at = "starting"
    /\ IF instance = "stopping" THEN UNCHANGED faults ELSE Fails
    /\ ToArming(t, "page and raise")
    /\ UNCHANGED <<aws, history>>

(* The hand-off of the re-arming to an asynchronous invocation of itself.  *)
HandOff(t) == \E u \in Tasks \ {t} :
    /\ task[t].at = "handing"
    /\ task[u] = Idle
    /\ task' = [task EXCEPT ![t].at = "reporting", ![u] = Begin("rearm", 0)]
    /\ UNCHANGED <<aws, faults, history>>

HandOffFails(t) ==
    /\ task[t].at = "handing"
    /\ Fails
    /\ ToArming(t, "page and raise")
    /\ UNCHANGED <<aws, history>>

(* _rearm: _alarm_states asks region by region.  When all are OK the       *)
(* actions are enabled, else it polls again until the deadline, where a    *)
(* node that was stopped again is left alone.                              *)
PollAlarm(t) == \E a \in task[t].todo :
    /\ task[t].at = "polling"
    /\ Put(t, [task[t] EXCEPT !.todo = @ \ {a}, !.good = @ /\ alarm[a] = "OK"])
    /\ unheard' = unheard \ {a}
    /\ UNCHANGED <<aws, faults, told, calm, forsaken>>

PollFails(t) ==
    /\ task[t].at = "polling" /\ task[t].todo # {}
    /\ Fails
    /\ ToArming(t, "page and raise")
    /\ UNCHANGED <<aws, history>>

PollDone(t) ==
    /\ task[t].at = "polling" /\ task[t].todo = {}
    /\ \/ task[t].good /\ ToArming(t, "end")
       \/ ~task[t].good /\ Put(t, Begin("rearm", task[t].tries))
       \/ ~task[t].good /\ Step(t, "checking", {})
    /\ UNCHANGED <<aws, faults, history>>

(* A slip: the deadline arms, and tells nobody. *)
CheckInstanceQuietly(t) ==
    /\ task[t].at = "checking"
    /\ IF instance = "running" THEN ToArming(t, "end") ELSE Step(t, "reporting", {})
    /\ UNCHANGED <<aws, faults, history>>

CheckInstance(t) ==
    /\ task[t].at = "checking"
    /\ IF instance = "running" THEN ToArming(t, "page") ELSE Step(t, "reporting", {})
    /\ UNCHANGED <<aws, faults, history>>

CheckFails(t) ==
    /\ task[t].at = "checking"
    /\ Fails
    /\ Put(t, Raised(t))
    /\ LeavesUnarmed(t) /\ LeavesUntold(t)
    /\ UNCHANGED <<aws, told, calm>>

(* _set_alarm_actions(True), and what follows it. *)
Arm(t) == \E a \in task[t].todo :
    /\ task[t].at = "arming"
    /\ armed' = [armed EXCEPT ![a] = TRUE]
    /\ forsaken' = forsaken \ {a}
    /\ IF task[t].todo # {a} THEN Step(t, "arming", task[t].todo \ {a})
       ELSE Put(t, CASE task[t].after = "end"   -> [task[t] EXCEPT !.at = "reporting", !.todo = {}]
                     [] task[t].after = "raise" -> Raised(t)
                     [] OTHER -> [task[t] EXCEPT !.at = "paging", !.todo = {}])
    /\ UNCHANGED <<instance, alarm, schedule, faults, told, calm, unheard>>

(* The last call of the loop of _rearm is inside its try: one more pass    *)
(* over the alarms, and a page.                                            *)
ArmFails(t) ==
    /\ task[t].at = "arming"
    /\ Fails
    /\ IF task[t].after = "end" THEN ToArming(t, "page and raise") /\ UNCHANGED exceptions
       ELSE Put(t, Raised(t)) /\ LeavesUnarmed(t) /\ LeavesUntold(t)
    /\ UNCHANGED <<aws, told, calm>>

Page(t) ==
    /\ task[t].at = "paging"
    /\ told' = [a \in Alarms |-> TRUE]
    /\ unheard' = {}
    /\ IF task[t].after = "page" THEN Step(t, "reporting", {}) ELSE Put(t, Raised(t))
    /\ UNCHANGED <<aws, faults, calm, forsaken>>

PageFails(t) ==
    /\ task[t].at = "paging"
    /\ Fails
    /\ Put(t, Raised(t))
    /\ LeavesUntold(t)
    /\ UNCHANGED <<aws, told, calm, forsaken>>

(* The end of handler: the state of the instance, for the answer.          *)
Report(t) ==
    /\ task[t].at = "reporting"
    /\ Put(t, Idle)
    /\ UNCHANGED <<aws, faults, history>>

ReportFails(t) ==
    /\ task[t].at = "reporting"
    /\ Fails
    /\ Put(t, Raised(t))
    /\ UNCHANGED <<aws, history>>

-----------------------------------------------------------------------------
(* EC2 and CloudWatch.  An alarm follows the node with any delay, and      *)
(* notifies on the transition to ALARM if its actions are enabled.         *)
Stopped ==
    /\ instance = "stopping" /\ instance' = "stopped"
    /\ UNCHANGED <<alarm, armed, schedule, task, faults, history>>

Fires(a) ==
    /\ alarm[a] = "OK"
    /\ alarm' = [alarm EXCEPT ![a] = "ALARM"]
    /\ told' = [told EXCEPT ![a] = armed[a]]
    /\ unheard' = IF instance = "running" /\ ~armed[a] THEN unheard \cup {a} ELSE unheard
    /\ UNCHANGED <<instance, armed, schedule, task, faults, calm, forsaken>>

Recovers(a) ==
    /\ alarm[a] = "ALARM" /\ instance = "running"
    /\ alarm' = [alarm EXCEPT ![a] = "OK"]
    /\ told' = [told EXCEPT ![a] = FALSE]
    /\ unheard' = unheard \ {a}
    /\ UNCHANGED <<instance, armed, schedule, task, faults, calm, forsaken>>

Run(t) ==
    \/ SetSchedule(t) \/ ScheduleFails(t)
    \/ Disarm(t) \/ DisarmFails(t) \/ StopCall(t) \/ StopFails(t)
    \/ StartCall(t) \/ StartFails(t) \/ HandOff(t) \/ HandOffFails(t)
    \/ PollAlarm(t) \/ PollFails(t) \/ PollDone(t) \/ CheckInstance(t) \/ CheckFails(t)
    \/ Arm(t) \/ ArmFails(t) \/ Page(t) \/ PageFails(t)
    \/ Report(t) \/ ReportFails(t)

Next ==
    \/ \E t \in Tasks : Nightly(t) \/ Operate(t) \/ Run(t)
    \/ Stopped
    \/ \E a \in Alarms : Fires(a) \/ Recovers(a)

Spec == Init /\ [][Next]_vars

-----------------------------------------------------------------------------
(* "a still-running node must stay monitored": however invocations overlap *)
(* and whichever calls fail, a node that runs when they are over has its   *)
(* alarms armed, but for those an invocation left suppressed when it gave  *)
(* up: a call of _set_alarm_actions failed, suppressing (line 259 is       *)
(* before the try of _stop), rolling back or arming, or that of the        *)
(* deadline to EC2 (line 238), in an operator's action or in the last      *)
(* retry of an asynchronous one.  No other failure leaves one so.          *)
MonitoredWhenRunning ==
    AllIdle /\ instance = "running" => \A a \in Alarms : armed[a] \/ a \in forsaken

(* "a suppressed alarm stuck in ALARM can't re-notify": an alarm that      *)
(* stands in ALARM over a running node has been told of, by its own        *)
(* notification or by a page, but for one that fired while suppressed over *)
(* a node that ran and that no poll has seen since (between the poll of    *)
(* line 221 and the arming of line 222, or before a failed stop was rolled *)
(* back), and one left untold by an invocation that gave up.               *)
NoSilentAlarm ==
    AllIdle /\ instance = "running" =>
        \A a \in Alarms : alarm[a] = "ALARM" => told[a] \/ a \in unheard

(* The planned cycle produces "zero notifications": a stop that overlaps  *)
(* no other invocation and does not fail puts the node to sleep without an *)
(* alarm notifying.                                                        *)
QuietSleep ==
    [][\A a \in Alarms :
         calm = "asleep" /\ instance # "running" /\ alarm[a] = "OK" /\ alarm'[a] = "ALARM" =>
            ~told'[a]]_vars

=============================================================================
