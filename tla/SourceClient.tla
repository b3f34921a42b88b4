---------------------------- MODULE SourceClient ----------------------------
(***************************************************************************)
(* The client of one external source: the retrying fetch loop of           *)
(* createRateLimitedFetch (ingestion/rate-limited-fetch.ts) behind the     *)
(* circuit breaker of the source (ingestion/circuit-breaker.ts), used by   *)
(* several callers at once, as the workers of the lyrics stage do.         *)
(*                                                                         *)
(* Time is the number of ticks since the last trip, up to the cooldown;    *)
(* sleeps and answers take any number of ticks.                            *)
(***************************************************************************)
EXTENDS Naturals

CONSTANTS
    Callers,      \* calls that may be open at the same time
    Threshold,    \* consecutive fatals before the breaker opens
    Cooldown,     \* CIRCUIT_BREAKER_COOLDOWN_MS in ticks, when it is set
    MaxRetries    \* retry budget of one call

ASSUME SourceClientAssumption ==
    /\ Threshold \in Nat \ {0}      \* resolveCircuitBreakerThreshold
    /\ Cooldown \in Nat /\ MaxRetries \in Nat

VARIABLES
    hasCooldown,        \* cooldownMs was given; never changes
    state,              \* CircuitBreaker.state
    consecutiveFatals,  \* saturating at Threshold, all that is compared with
    sinceTrip,          \* now() - trippedAt, saturating at Cooldown
    at,                 \* where every call is
    attempt,            \* its attempt
    probe,              \* history: it was admitted as a recovery probe
    lost                \* history: a probe threw and recorded nothing

breaker == <<hasCooldown, state, consecutiveFatals, sinceTrip>>
clientVars == <<breaker, at, attempt, probe, lost>>

ClientInit ==
    /\ hasCooldown \in BOOLEAN
    /\ state = "closed"
    /\ consecutiveFatals = 0
    /\ sinceTrip = 0
    /\ at = [c \in Callers |-> "idle"]
    /\ attempt = [c \in Callers |-> 0]
    /\ probe = [c \in Callers |-> FALSE]
    /\ lost = FALSE

-----------------------------------------------------------------------------
Trip == state' = "open" /\ sinceTrip' = 0 /\ UNCHANGED hasCooldown

MoreFatals == IF consecutiveFatals < Threshold THEN consecutiveFatals + 1 ELSE Threshold

(* CircuitBreaker.record. *)
RecordAlive ==    \* success or miss
    /\ consecutiveFatals' = 0
    /\ state' = IF state = "half-open" THEN "closed" ELSE state
    /\ UNCHANGED <<sinceTrip, hasCooldown>>

(* A slip: a transient outcome is never looked at. *)
RecordTransientIgnored == UNCHANGED breaker

RecordTransient ==
    IF state = "half-open"
      THEN Trip /\ UNCHANGED consecutiveFatals
      ELSE UNCHANGED breaker

RecordFatal ==
    /\ consecutiveFatals' = MoreFatals
    /\ IF state = "half-open" \/ (state = "closed" /\ consecutiveFatals' >= Threshold)
         THEN Trip
         ELSE UNCHANGED <<state, sinceTrip, hasCooldown>>

Leave(c) ==
    /\ at' = [at EXCEPT ![c] = "idle"]
    /\ attempt' = [attempt EXCEPT ![c] = 0]
    /\ probe' = [probe EXCEPT ![c] = FALSE]

Enter(c, asProbe) ==
    /\ at' = [at EXCEPT ![c] = "fetching"]
    /\ probe' = [probe EXCEPT ![c] = asProbe]
    /\ UNCHANGED attempt

-----------------------------------------------------------------------------
(* CircuitBreaker.allowRequest at the head of the loop.  A call that is    *)
(* refused throws CircuitBreakerOpenError and changes nothing.             *)
CooledDown == hasCooldown /\ sinceTrip >= Cooldown

Admit(c) ==
    /\ at[c] = "idle"
    /\ state = "closed"
    /\ Enter(c, FALSE)
    /\ UNCHANGED <<breaker, lost>>

AdmitProbe(c) ==
    /\ at[c] = "idle"
    /\ state = "open" /\ CooledDown
    /\ state' = "half-open"
    /\ Enter(c, TRUE)
    /\ lost' = FALSE
    /\ UNCHANGED <<hasCooldown, consecutiveFatals, sinceTrip>>

(* A network error or a status of retryStatuses, with budget left: back    *)
(* off and try again.                                                      *)
Backoff(c) ==
    /\ at[c] = "fetching"
    /\ attempt[c] < MaxRetries
    /\ at' = [at EXCEPT ![c] = "waiting"]
    /\ UNCHANGED <<breaker, attempt, probe, lost>>

(* A slip: the attempt is not counted. *)
RetrySameAttempt(c) ==
    /\ at[c] = "waiting"
    /\ at' = [at EXCEPT ![c] = "fetching"]
    /\ UNCHANGED <<breaker, attempt, probe, lost>>

Retry(c) ==
    /\ at[c] = "waiting"
    /\ at' = [at EXCEPT ![c] = "fetching"]
    /\ attempt' = [attempt EXCEPT ![c] = @ + 1]
    /\ UNCHANGED <<breaker, probe, lost>>

(* The same on the last attempt, a request timeout on any, or an answer    *)
(* of 5xx that is not retried.                                             *)
EndTransient(c) ==
    /\ at[c] = "fetching"
    /\ RecordTransient
    /\ Leave(c)
    /\ UNCHANGED lost

(* An error that is not transient, a cancelled request among them, is      *)
(* thrown without a word to the breaker.                                   *)
EndThrown(c) ==
    /\ at[c] = "fetching"
    /\ lost' = (lost \/ probe[c])
    /\ Leave(c)
    /\ UNCHANGED breaker

(* 401, 403 or 451. *)
EndFatal(c) ==
    /\ at[c] = "fetching"
    /\ RecordFatal
    /\ Leave(c)
    /\ UNCHANGED lost

(* 404 and the other client errors. *)
EndMiss(c) ==
    /\ at[c] = "fetching"
    /\ RecordAlive
    /\ Leave(c)
    /\ UNCHANGED lost

(* An ok response is recorded after the trailing sleep. *)
Pause(c) ==
    /\ at[c] = "fetching"
    /\ at' = [at EXCEPT ![c] = "pausing"]
    /\ UNCHANGED <<breaker, attempt, probe, lost>>

EndOk(c) ==
    /\ at[c] = "pausing"
    /\ RecordAlive
    /\ Leave(c)
    /\ UNCHANGED lost

Tick ==
    /\ state # "closed"
    /\ sinceTrip < Cooldown
    /\ sinceTrip' = sinceTrip + 1
    /\ UNCHANGED <<hasCooldown, state, consecutiveFatals, at, attempt, probe, lost>>

Proceed(c) ==
    \/ Backoff(c) \/ Retry(c) \/ Pause(c)
    \/ EndTransient(c) \/ EndThrown(c) \/ EndFatal(c) \/ EndMiss(c) \/ EndOk(c)

ClientNext ==
    \/ \E c \in Callers : Admit(c) \/ AdmitProbe(c) \/ Proceed(c)
    \/ Tick

(* Every request is bounded by its timeout, every sleep ends, and time     *)
(* passes.  Nothing makes a caller call.                                   *)
ClientFairness ==
    /\ \A c \in Callers : WF_clientVars(Proceed(c))
    /\ WF_clientVars(Tick)

ClientSafety == ClientInit /\ [][ClientNext]_clientVars
ClientSpec == ClientSafety /\ ClientFairness

-----------------------------------------------------------------------------
(* Type correctness; a breaker that is closed has not seen Threshold       *)
(* fatals in a row.                                                        *)
ClientTypeOK ==
    /\ hasCooldown \in BOOLEAN
    /\ state \in {"closed", "open", "half-open"}
    /\ consecutiveFatals \in 0 .. Threshold
    /\ state = "closed" => consecutiveFatals < Threshold
    /\ sinceTrip \in 0 .. Cooldown
    /\ at \in [Callers -> {"idle", "fetching", "waiting", "pausing"}]
    /\ attempt \in [Callers -> 0 .. MaxRetries]
    /\ probe \in [Callers -> BOOLEAN]
    /\ lost \in BOOLEAN

(* A half-open breaker waits for a probe that is in flight: it refuses all *)
(* other callers, so without one the source would be lost for the run      *)
(* ("so the breaker never deadlocks").  Only a probe that throws an error  *)
(* of its own leaves it so.                                                *)
HalfOpenHasProbe ==
    state = "half-open" => lost \/ \E c \in Callers : probe[c] /\ at[c] # "idle"

(* Without a cooldown an open breaker stays open for the run, whatever the *)
(* answers of the requests that were in flight when it opened.             *)
OpenForTheRun == [][state = "open" /\ ~hasCooldown => state' = "open"]_clientVars

(* Every call ends, and a half-open breaker is settled, unless its probe   *)
(* threw an error of its own.                                              *)
CallsSettle ==
    /\ \A c \in Callers : at[c] # "idle" ~> at[c] = "idle"
    /\ state = "half-open" ~> state # "half-open" \/ lost

=============================================================================
