---------------------------- MODULE EnrichmentRun ----------------------------
(***************************************************************************)
(* runEnrichment (enrichment/run.ts): the candidates of one enrichment     *)
(* stage drained by a pool of workers that share an index, each item       *)
(* resolved against its source and then written or stamped, and the items  *)
(* that failed for a transient reason swept again for a bounded number of  *)
(* rounds.  The process shutdown signal may fire at any await.             *)
(***************************************************************************)
EXTENDS Naturals, Sequences, FiniteSets

CONSTANTS
    Total,        \* candidates: the items 1 .. Total
    Concurrency,  \* opts.concurrency, after the guard against bad values
    Handled,      \* verdicts the stage declares a handler for
    Sweeps,       \* opts.retry was passed
    MaxRounds,    \* retry.maxRounds
    Cap           \* max(DEFAULT_RETRY_MIN_SWEEP, maxRetryableFraction * total)

Verdicts == {"enriched", "skipped", "exhausted"}   \* kinds of ItemOutcome but failed
Failures == {"transient", "fatal"}                 \* kind failed, by retry.isRetryable(err)
Items == 1 .. Total
Workers == 1 .. (IF Concurrency < Total THEN Concurrency ELSE Total)

ASSUME EnrichmentRunAssumption ==
    /\ Total \in Nat /\ Concurrency \in Nat \ {0}
    /\ Handled \subseteq Verdicts /\ "enriched" \in Handled
    /\ Sweeps \in BOOLEAN /\ MaxRounds \in Nat /\ Cap \in Nat

VARIABLES
    phase,      \* the await runEnrichment is at
    queue,      \* items of the pass: the candidates, or the round's pending
    next,       \* the index the workers of the pass share, from 1
    hand,       \* what each worker holds: an item and how far it is
    collected,  \* retryableFailures in the main pass, stillFailing in a round
    round,
    count,      \* the counters
    reported,   \* the last onProgress
    aborted,    \* signal.aborted
    stamped,    \* items whose node carries the stamp, data or not
    tries       \* history: the outcomes of every item

pass == <<queue, next, hand, collected>>
vars == <<phase, pass, round, count, reported, aborted, stamped, tries>>

Nothing == [item |-> 0, at |-> "none"]
Zero == [enriched |-> 0, skipped |-> 0, exhausted |-> 0, failed |-> 0,
         completed |-> 0, recovered |-> 0]

Init ==
    /\ phase = "select"
    /\ queue = <<>> /\ next = 1 /\ collected = <<>>
    /\ hand = [w \in Workers |-> Nothing]
    /\ round = 0
    /\ count = Zero
    /\ reported = 0
    /\ aborted \in BOOLEAN
    /\ stamped = {}
    /\ tries = [i \in Items |-> <<>>]

-----------------------------------------------------------------------------
(* selectCandidates, and its failure, which ends the run.                  *)
Select ==
    /\ phase = "select"
    /\ phase' = "main"
    /\ queue' = [i \in Items |-> i]
    /\ UNCHANGED <<next, hand, collected, round, count, reported, aborted, stamped, tries>>

SelectFails ==
    /\ phase = "select"
    /\ phase' = "unselected"
    /\ count' = [count EXCEPT !.failed = 1]
    /\ UNCHANGED <<pass, round, reported, aborted, stamped, tries>>

(* drainPool: a worker that is free claims the next index.                 *)
Drains == phase \in {"main", "round"}

(* A slip: a draw that awaits before it counts. *)
DrawBeforeCounting(w) ==
    /\ Drains /\ hand[w] = Nothing
    /\ next <= Len(queue) /\ ~aborted
    /\ hand' = [hand EXCEPT ![w] = [item |-> queue[next], at |-> "resolving"]]
    /\ UNCHANGED <<phase, queue, next, collected, round, count, reported, aborted, stamped, tries>>

Draw(w) ==
    /\ Drains /\ hand[w] = Nothing
    /\ next <= Len(queue) /\ ~aborted
    /\ hand' = [hand EXCEPT ![w] = [item |-> queue[next], at |-> "resolving"]]
    /\ next' = next + 1
    /\ UNCHANGED <<phase, queue, collected, round, count, reported, aborted, stamped, tries>>

(* The rest of the handler once processItem has the item's outcome:        *)
(* handleItem in the main pass, the callback of the sweep in a round.      *)
(* Slips: a recovery that stays counted, a sweep of every failure.         *)
TallyKeepsFailed(outcome) ==
    IF phase = "main"
      THEN [count EXCEPT ![IF outcome \in Failures THEN "failed" ELSE outcome] = @ + 1,
                         !.completed = @ + 1]
      ELSE IF outcome \in Failures THEN count
      ELSE [count EXCEPT ![outcome] = @ + 1, !.recovered = @ + 1]

Tally(outcome) ==
    IF phase = "main"
      THEN [count EXCEPT ![IF outcome \in Failures THEN "failed" ELSE outcome] = @ + 1,
                         !.completed = @ + 1]
      ELSE IF outcome \in Failures THEN count
      ELSE [count EXCEPT ![outcome] = @ + 1, !.recovered = @ + 1, !.failed = @ - 1]

Collects(outcome) == outcome = "transient" /\ Sweeps

Settle(w, outcome) ==
    LET i == hand[w].item IN
    /\ hand' = [hand EXCEPT ![w] = Nothing]
    /\ tries' = [tries EXCEPT ![i] = Append(@, outcome)]
    /\ count' = Tally(outcome)
    /\ collected' = IF Collects(outcome) THEN Append(collected, i) ELSE collected
    /\ UNCHANGED <<phase, queue, next, round, reported, aborted>>

(* stage.resolve returns: a verdict without a handler is a failure.        *)
Resolve(w) == \E v \in Handled :
    /\ hand[w].at = "resolving"
    /\ hand' = [hand EXCEPT ![w].at = v]
    /\ UNCHANGED <<phase, queue, next, collected, round, count, reported, aborted, stamped, tries>>

ResolveUnhandled(w) ==
    /\ hand[w].at = "resolving"
    /\ Verdicts \ Handled # {}
    /\ Settle(w, "fatal")
    /\ UNCHANGED stamped

ResolveThrows(w) == \E f \in Failures :
    /\ hand[w].at = "resolving"
    /\ Settle(w, f)
    /\ UNCHANGED stamped

(* stage.write, markAttempted or markTerminal; one that throws may or may  *)
(* not have committed.                                                     *)
(* A slip: an item that is skipped is left unstamped.                      *)
WriteForgetsSkipped(w) ==
    /\ hand[w].at \in Verdicts
    /\ stamped' = IF hand[w].at = "skipped" THEN stamped ELSE stamped \cup {hand[w].item}
    /\ Settle(w, hand[w].at)

Write(w) ==
    /\ hand[w].at \in Verdicts
    /\ stamped' = stamped \cup {hand[w].item}
    /\ Settle(w, hand[w].at)

WriteThrows(w) == \E f \in Failures :
    /\ hand[w].at \in Verdicts
    /\ stamped' \in {stamped, stamped \cup {hand[w].item}}
    /\ Settle(w, f)

(* A slip: workers wait for items they will not take after the signal. *)
DrainedOfItems ==
    /\ \A w \in Workers : hand[w] = Nothing
    /\ next > Len(queue)

(* The pool has drained: every worker is out of its loop.                  *)
Drained ==
    /\ \A w \in Workers : hand[w] = Nothing
    /\ next > Len(queue) \/ aborted

Finish ==
    /\ phase' = "done"
    /\ reported' = IF aborted THEN count.completed ELSE Total

WorthSweeping ==
    /\ ~aborted /\ Sweeps /\ MaxRounds > 0
    /\ collected # <<>> /\ Len(collected) <= Cap

MainEnds ==
    /\ phase = "main" /\ Drained
    /\ IF WorthSweeping
         THEN phase' = "backoff" /\ round' = 1 /\ UNCHANGED reported
         ELSE Finish /\ UNCHANGED round
    /\ UNCHANGED <<pass, count, aborted, stamped, tries>>

BackoffEnds ==
    /\ phase = "backoff"
    /\ IF aborted
         THEN Finish /\ UNCHANGED <<queue, next, collected>>
         ELSE /\ phase' = "round"
              /\ queue' = collected /\ next' = 1 /\ collected' = <<>>
              /\ UNCHANGED reported
    /\ UNCHANGED <<hand, round, count, aborted, stamped, tries>>

RoundEnds ==
    /\ phase = "round" /\ Drained
    /\ IF round < MaxRounds /\ collected # <<>> /\ ~aborted
         THEN phase' = "backoff" /\ round' = round + 1 /\ UNCHANGED reported
         ELSE Finish /\ UNCHANGED round
    /\ UNCHANGED <<pass, count, aborted, stamped, tries>>

Abort ==
    /\ ~aborted /\ phase \notin {"done", "unselected"}
    /\ aborted' = TRUE
    /\ UNCHANGED <<phase, pass, round, count, reported, stamped, tries>>

Work(w) ==
    \/ Draw(w) \/ Resolve(w) \/ ResolveUnhandled(w) \/ ResolveThrows(w)
    \/ Write(w) \/ WriteThrows(w)

Advance == Select \/ SelectFails \/ MainEnds \/ BackoffEnds \/ RoundEnds

Next == Advance \/ Abort \/ \E w \in Workers : Work(w)

(* Every request and every write is bounded, every sleep ends; a worker    *)
(* that is free claims in the same turn of the event loop.  Nothing makes  *)
(* the signal fire.                                                        *)
Fairness == WF_vars(Advance) /\ \A w \in Workers : WF_vars(Work(w))

Safety == Init /\ [][Next]_vars
Spec == Safety /\ Fairness

-----------------------------------------------------------------------------
Latest(i) == IF tries[i] = <<>> THEN "none" ELSE tries[i][Len(tries[i])]
Having(outcomes) == Cardinality({i \in Items : Latest(i) \in outcomes})

(* "workers never double-draw": no two workers are at the same item, in    *)
(* the main pass or in a round, and an item is drawn again only for a      *)
(* transient failure, MaxRounds times at most.                             *)
ClaimedOnce ==
    /\ \A v, w \in Workers : hand[v].item = hand[w].item => v = w \/ hand[v] = Nothing
    /\ \A i \in Items :
        /\ Len(tries[i]) <= MaxRounds + 1
        /\ \A k \in DOMAIN tries[i] : k < Len(tries[i]) => tries[i][k] = "transient"

(* However the workers interleave, every counter is the number of items    *)
(* whose latest outcome it counts, and recovered the items that failed     *)
(* before it.                                                              *)
CountsExact ==
    phase # "unselected" =>
        /\ count.enriched = Having({"enriched"})
        /\ count.skipped = Having({"skipped"})
        /\ count.exhausted = Having({"exhausted"})
        /\ count.failed = Having(Failures)
        /\ count.completed = Having(Verdicts \cup Failures)
        /\ count.recovered =
             Cardinality({i \in Items : Latest(i) \in Verdicts /\ Len(tries[i]) > 1})

(* What the summary says of the graph: an item that is not counted failed  *)
(* carries its stamp, and unless the run was aborted none is unaccounted   *)
(* for; so the next run takes up exactly what failed and what was not      *)
(* reached.                                                                *)
SummaryMatchesGraph ==
    /\ \A i \in Items : Latest(i) \in Verdicts => i \in stamped
    /\ phase = "done" /\ ~aborted => \A i \in Items : Latest(i) # "none"
    /\ phase = "done" => reported = Having(Verdicts \cup Failures)

(* The run ends, with every item it drew settled. *)
RunEnds == <>(phase \in {"done", "unselected"} /\ \A w \in Workers : hand[w] = Nothing)

=============================================================================
