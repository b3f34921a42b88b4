--------------------------- MODULE EnrichmentProofs ---------------------------
(***************************************************************************)
(* One enrichment run, for any number of candidates, workers and rounds.   *)
(* What carries the proof is that every item of the pass is in one place   *)
(* only - left in the queue, in one worker's hand, or gathered for the     *)
(* next round - and that its place fixes how often it was tried.           *)
(*                                                                         *)
(* The second part of the module is about the client a lookup goes         *)
(* through, for any number of callers, any threshold, cooldown and retry   *)
(* budget; the third is about the lyrics of tracks, for any number of      *)
(* tracks, runs and clears.                                                *)
(***************************************************************************)
EXTENDS EnrichmentRun, SourceClient, Lyrics, FiniteSetTheorems, SequenceTheorems, TLAPS

Outcomes == Verdicts \cup Failures
Hands == [item : Items, at : {"resolving"} \cup Verdicts]
Counters == [enriched : Int, skipped : Int, exhausted : Int, failed : Int,
             completed : Int, recovered : Int]

TypeOK ==
    /\ phase \in {"select", "unselected", "main", "backoff", "round", "done"}
    /\ queue \in Seq(Items) /\ collected \in Seq(Items)
    /\ next \in Nat \ {0}
    /\ hand \in [Workers -> {Nothing} \cup Hands]
    /\ round \in Nat
    /\ count \in Counters
    /\ reported \in Int
    /\ aborted \in BOOLEAN
    /\ stamped \subseteq Items
    /\ tries \in [Items -> Seq(Outcomes)]

Left == {k \in DOMAIN queue : k >= next}

(* An item of the pass is in one place. *)
OnePlace ==
    /\ \A v, w \in Workers : hand[v].item = hand[w].item => v = w \/ hand[v] = Nothing
    /\ \A w \in Workers : \A k \in Left : hand[w].item # queue[k]
    /\ \A w \in Workers : \A k \in DOMAIN collected : hand[w].item # collected[k]
    /\ \A j, k \in DOMAIN queue : queue[j] = queue[k] => j = k
    /\ \A j, k \in DOMAIN collected : collected[j] = collected[k] => j = k
    /\ \A j \in Left : \A k \in DOMAIN collected : queue[j] # collected[k]

(* An item that was tried n times, each time with a transient failure. *)
Failed(i, n) ==
    Len(tries[i]) = n /\ \A k \in DOMAIN tries[i] : tries[i][k] = "transient"

PlaceCountsTries ==
    /\ Drains => \A k \in Left : Failed(queue[k], round)
    /\ \A w \in Workers : hand[w] # Nothing => Drains /\ Failed(hand[w].item, round)
    /\ Drains => \A k \in DOMAIN collected : Failed(collected[k], round + 1)
    /\ phase = "backoff" => \A k \in DOMAIN collected : Failed(collected[k], round)

Rounds ==
    /\ phase \in {"select", "main"} => round = 0
    /\ phase \in {"backoff", "round"} => round \in 1 .. MaxRounds

TriesBounded ==
    \A i \in Items :
        /\ Len(tries[i]) <= MaxRounds + 1
        /\ \A k \in DOMAIN tries[i] : k < Len(tries[i]) => tries[i][k] = "transient"

AtSelect ==
    /\ phase \in {"select", "unselected"} =>
         /\ queue = <<>> /\ next = 1 /\ collected = <<>>
         /\ tries = [i \in Items |-> <<>>]
    /\ phase = "select" => count = Zero

(* Until the main pass is over, an item not tried yet is still on its way. *)
NoneLost ==
    /\ phase = "main" => \A i \in Items :
         \/ Latest(i) # "none"
         \/ \E k \in Left : queue[k] = i
         \/ \E w \in Workers : hand[w].item = i
    /\ phase \in {"backoff", "round"} \/ (phase = "done" /\ ~aborted) =>
         \A i \in Items : Latest(i) # "none"

SettledIsStamped == \A i \in Items : Latest(i) \in Verdicts => i \in stamped

ReportedIsSettled == phase = "done" => reported = Having(Outcomes)

IInv ==
    /\ TypeOK /\ OnePlace /\ PlaceCountsTries /\ Rounds /\ TriesBounded /\ AtSelect
    /\ NoneLost /\ CountsExact /\ SettledIsStamped /\ ReportedIsSettled

-----------------------------------------------------------------------------
(* The items are finitely many, and so are those with a given outcome.     *)
LEMMA ItemsFinite ==
  /\ IsFiniteSet(Items) /\ Cardinality(Items) = Total
  /\ \A S \in SUBSET Items : IsFiniteSet(S) /\ Cardinality(S) \in Nat
  <1>1. Total \in Nat
    BY EnrichmentRunAssumption DEF EnrichmentRunAssumption
  <1>2. IsFiniteSet(Items) /\ Cardinality(Items) = Total
    BY <1>1, FS_Interval DEF Items
  <1> QED BY <1>2, FS_Subset, FS_CardinalityType

(* One more outcome of one item: it becomes the latest of that item only.  *)
LEMMA LatestAfter ==
  ASSUME TypeOK, NEW i \in Items, NEW o \in Outcomes,
         tries' = [tries EXCEPT ![i] = Append(@, o)]
  PROVE  /\ Latest(i)' = o
         /\ \A j \in Items \ {i} : Latest(j)' = Latest(j)
         /\ Len(tries'[i]) = Len(tries[i]) + 1
         /\ \A k \in DOMAIN tries[i] : tries'[i][k] = tries[i][k]
         /\ DOMAIN tries'[i] = DOMAIN tries[i] \cup {Len(tries[i]) + 1}
         /\ tries'[i][Len(tries[i]) + 1] = o
  <1>1. tries[i] \in Seq(Outcomes) /\ tries'[i] = Append(tries[i], o)
    BY DEF TypeOK
  <1>2. \A j \in Items \ {i} : tries'[j] = tries[j]
    BY DEF TypeOK
  <1>3. /\ Len(tries'[i]) = Len(tries[i]) + 1 /\ Len(tries[i]) \in Nat
        /\ tries'[i][Len(tries[i]) + 1] = o
        /\ \A k \in 1 .. Len(tries[i]) : tries'[i][k] = tries[i][k]
        /\ DOMAIN tries'[i] = 1 .. (Len(tries[i]) + 1)
        /\ DOMAIN tries[i] = 1 .. Len(tries[i])
        /\ tries'[i] # <<>>
    BY <1>1
  <1>4. Latest(i)' = o
    BY <1>3 DEF Latest
  <1>5. \A j \in Items \ {i} : Latest(j)' = Latest(j)
    BY <1>2 DEF Latest
  <1>6. DOMAIN tries'[i] = DOMAIN tries[i] \cup {Len(tries[i]) + 1}
    BY <1>3
  <1> QED BY <1>3, <1>4, <1>5, <1>6

(* What that does to the number of items whose latest outcome is one of a  *)
(* set: the item enters it with its new outcome, or leaves it with its old.*)
LEMMA HavingAfter ==
  ASSUME TypeOK, NEW i \in Items, NEW o \in Outcomes,
         tries' = [tries EXCEPT ![i] = Append(@, o)], NEW O
  PROVE  /\ Having(O) \in Nat
         /\ o \in O /\ Latest(i) \notin O => Having(O)' = Having(O) + 1
         /\ o \notin O /\ Latest(i) \in O => Having(O)' = Having(O) - 1
         /\ (o \in O <=> Latest(i) \in O) => Having(O)' = Having(O)
  <1> DEFINE S == {j \in Items : Latest(j) \in O}
             T == {j \in Items : Latest(j)' \in O}
  <1>1. IsFiniteSet(S) /\ Cardinality(S) \in Nat
    BY ItemsFinite
  <1>2. Having(O) = Cardinality(S) /\ Having(O)' = Cardinality(T)
    BY DEF Having
  <1>3. Latest(i)' = o /\ \A j \in Items \ {i} : Latest(j)' = Latest(j)
    BY LatestAfter
  <1>4. ASSUME o \in O, Latest(i) \notin O PROVE Cardinality(T) = Cardinality(S) + 1
    <2>1. T = S \cup {i} /\ i \notin S
      BY <1>3, <1>4
    <2> HIDE DEF S, T
    <2> QED BY <1>1, <2>1, FS_AddElement
  <1>5. ASSUME o \notin O, Latest(i) \in O PROVE Cardinality(T) = Cardinality(S) - 1
    <2>1. T = S \ {i} /\ i \in S
      BY <1>3, <1>5
    <2> HIDE DEF S, T
    <2> QED BY <1>1, <2>1, FS_RemoveElement
  <1>6. ASSUME o \in O <=> Latest(i) \in O PROVE T = S
    BY <1>3, <1>6
  <1> QED BY <1>1, <1>2, <1>4, <1>5, <1>6

(* The same for the items that recovered: a verdict after other outcomes.  *)
Recovered == {i \in Items : Latest(i) \in Verdicts /\ Len(tries[i]) > 1}

(* A further try makes an item recovered if it gives a verdict, else not.  *)
LEMMA RecoveredAfter ==
  ASSUME TypeOK, NEW i \in Items, NEW o \in Outcomes,
         tries' = [tries EXCEPT ![i] = Append(@, o)], Latest(i) \notin Verdicts
  PROVE  /\ Cardinality(Recovered) \in Nat
         /\ o \in Verdicts /\ Len(tries[i]) > 0 =>
              Cardinality(Recovered)' = Cardinality(Recovered) + 1
         /\ o \notin Verdicts \/ Len(tries[i]) = 0 =>
              Cardinality(Recovered)' = Cardinality(Recovered)
  <1>1. IsFiniteSet(Recovered) /\ Cardinality(Recovered) \in Nat
    BY ItemsFinite DEF Recovered
  <1>2. /\ Latest(i)' = o /\ Len(tries'[i]) = Len(tries[i]) + 1
        /\ \A j \in Items \ {i} : Latest(j)' = Latest(j)
    BY LatestAfter
  <1>3. \A j \in Items \ {i} : tries'[j] = tries[j]
    BY DEF TypeOK
  <1>4. Len(tries[i]) \in Nat /\ i \notin Recovered
    BY DEF TypeOK, Recovered
  <1>5. ASSUME o \in Verdicts, Len(tries[i]) > 0 PROVE Recovered' = Recovered \cup {i}
    BY <1>2, <1>3, <1>4, <1>5 DEF Recovered
  <1>6. ASSUME o \notin Verdicts \/ Len(tries[i]) = 0 PROVE Recovered' = Recovered
    BY <1>2, <1>3, <1>4, <1>6 DEF Recovered
  <1> QED BY <1>1, <1>4, <1>5, <1>6, FS_AddElement

-----------------------------------------------------------------------------
(* The invariant holds before the candidates are selected.                 *)
LEMMA Initially == Init => IInv
  <1> SUFFICES ASSUME Init PROVE IInv
    OBVIOUS
  <1>1. TypeOK
    BY DEF Init, TypeOK, Counters, Zero
  <1>2. OnePlace
    BY DEF Init, OnePlace, Left, Nothing
  <1>3. PlaceCountsTries /\ Rounds /\ AtSelect /\ ReportedIsSettled
    BY DEF Init, PlaceCountsTries, Rounds, AtSelect, ReportedIsSettled, Drains
  <1>4. \A i \in Items : Latest(i) = "none" /\ tries[i] = <<>>
    BY DEF Init, Latest
  <1>5. TriesBounded
    BY <1>4, EnrichmentRunAssumption DEF TriesBounded, EnrichmentRunAssumption
  <1>6. NoneLost /\ SettledIsStamped
    BY <1>4 DEF Init, NoneLost, SettledIsStamped, Verdicts
  <1>7. \A O \in SUBSET Outcomes : {i \in Items : Latest(i) \in O} = {}
    BY <1>4 DEF Outcomes, Verdicts, Failures
  <1>8. {i \in Items : Latest(i) \in Verdicts /\ Len(tries[i]) > 1} = {}
    BY <1>4 DEF Verdicts
  <1>9. \A O \in SUBSET Outcomes : Having(O) = 0
    BY <1>7, FS_EmptySet DEF Having
  <1>10. CountsExact
    BY <1>8, <1>9, FS_EmptySet DEF Init, CountsExact, Zero, Outcomes, Verdicts, Failures
  <1> QED BY <1>1, <1>2, <1>3, <1>5, <1>6, <1>10 DEF IInv

(* A step that leaves the outcomes and the counters alone keeps every count.*)
LEMMA CountsKept ==
  ASSUME CountsExact, UNCHANGED <<count, tries>>, phase' # "unselected" => phase # "unselected"
  PROVE  CountsExact' /\ \A O : Having(O)' = Having(O)
  BY DEF CountsExact, Having, Latest

(* The candidates are read: the queue holds every item, none tried yet.    *)
LEMMA SelectKeeps ==
  ASSUME IInv, Select
  PROVE  IInv'
  <1> USE DEF IInv
  <1>1. Total \in Nat
    BY EnrichmentRunAssumption DEF EnrichmentRunAssumption
  <1>2. /\ queue' = [i \in Items |-> i] /\ phase = "select" /\ phase' = "main"
        /\ UNCHANGED <<next, hand, collected, round, count, reported, aborted, stamped, tries>>
        /\ next = 1 /\ collected = <<>> /\ round = 0 /\ \A i \in Items : tries[i] = <<>>
    BY DEF Select, AtSelect, Rounds
  <1>3. /\ queue' \in Seq(Items) /\ DOMAIN queue' = Items /\ Left' = Items
        /\ \A i \in Items : queue'[i] = i
    BY <1>1, <1>2 DEF Items, Left
  <1>4. \A w \in Workers : hand[w] = Nothing
    BY <1>2 DEF PlaceCountsTries, Drains
  <1>5. TypeOK'
    BY <1>2, <1>3 DEF TypeOK
  <1>6. OnePlace'
    BY <1>2, <1>3, <1>4 DEF OnePlace, Nothing, Items
  <1>7. PlaceCountsTries'
    BY <1>2, <1>3, <1>4 DEF PlaceCountsTries, Failed
  <1>8. Rounds' /\ TriesBounded' /\ AtSelect'
    BY <1>2 DEF Rounds, TriesBounded, AtSelect
  <1>9. NoneLost'
    BY <1>2, <1>3 DEF NoneLost
  <1>10. CountsExact' /\ SettledIsStamped' /\ ReportedIsSettled'
    BY <1>2, CountsKept DEF SettledIsStamped, ReportedIsSettled, Latest
  <1> QED BY <1>5, <1>6, <1>7, <1>8, <1>9, <1>10

(* Nothing follows a failed selection.                                     *)
LEMMA SelectFailsKeeps ==
  ASSUME IInv, SelectFails
  PROVE  IInv'
  <1> USE DEF IInv
  <1>1. /\ phase = "select" /\ phase' = "unselected" /\ count' = [count EXCEPT !.failed = 1]
        /\ UNCHANGED <<pass, round, reported, aborted, stamped, tries>>
    BY DEF SelectFails
  <1>2. TypeOK'
    <2>1. count \in Counters
      BY DEF TypeOK
    <2>2. [count EXCEPT !.failed = 1] \in Counters
      BY <2>1 DEF Counters
    <2> QED BY <1>1, <2>2 DEF TypeOK, pass
  <1>3. OnePlace'
    BY <1>1 DEF OnePlace, Left, pass
  <1>4. PlaceCountsTries' /\ Rounds' /\ TriesBounded' /\ AtSelect'
    BY <1>1 DEF PlaceCountsTries, Failed, Drains, Rounds, TriesBounded, AtSelect, pass
  <1>5. NoneLost' /\ CountsExact' /\ SettledIsStamped' /\ ReportedIsSettled'
    BY <1>1 DEF NoneLost, CountsExact, SettledIsStamped, ReportedIsSettled, Latest
  <1> QED BY <1>2, <1>3, <1>4, <1>5

(* The counters, the stamps and the outcomes are as they were and the pass *)
(* goes on: what is left to show is where the items are.                   *)
LEMMA StillDraining ==
  ASSUME IInv, UNCHANGED <<phase, round, count, reported, aborted, stamped, tries>>, Drains
  PROVE  /\ Rounds' /\ TriesBounded' /\ AtSelect' /\ CountsExact' /\ SettledIsStamped'
         /\ ReportedIsSettled' /\ Drains'
  BY CountsKept DEF IInv, Rounds, TriesBounded, AtSelect, SettledIsStamped, ReportedIsSettled,
     Latest, Drains

(* A worker claims the next index: the item moves from the queue to it.    *)
LEMMA DrawKeeps ==
  ASSUME IInv, NEW w \in Workers, Draw(w)
  PROVE  IInv'
  <1> USE DEF IInv
  <1> DEFINE h == [item |-> queue[next], at |-> "resolving"]
  <1>1. /\ Drains /\ hand[w] = Nothing /\ next <= Len(queue)
        /\ hand' = [hand EXCEPT ![w] = h] /\ next' = next + 1
        /\ UNCHANGED <<queue, collected>>
        /\ UNCHANGED <<phase, round, count, reported, aborted, stamped, tries>>
    BY DEF Draw
  <1>2. /\ next \in Left /\ queue[next] \in Items /\ Left' = Left \ {next}
        /\ next \in DOMAIN queue /\ Left \subseteq DOMAIN queue
    BY <1>1 DEF TypeOK, Left
  <1>3. /\ hand'[w] = h /\ \A v \in Workers \ {w} : hand'[v] = hand[v]
        /\ h \in Hands /\ h # Nothing /\ h.item = queue[next]
    BY <1>1, <1>2 DEF TypeOK, Hands, Nothing
  <1>4. TypeOK'
    BY <1>1, <1>3 DEF TypeOK
  <1> HIDE DEF h
  <1>5. OnePlace'
    <2>1. \A u, v \in Workers : hand'[u].item = hand'[v].item => u = v \/ hand'[u] = Nothing
      <3> SUFFICES ASSUME NEW u \in Workers, NEW v \in Workers, u # v,
                          hand'[u].item = hand'[v].item
                   PROVE  hand'[u] = Nothing
        OBVIOUS
      <3>1. CASE u = w
        BY <1>2, <1>3, <3>1 DEF OnePlace
      <3>2. CASE v = w
        <4>1. hand'[u] = hand[u] /\ hand[u].item = queue[next]
          BY <1>3, <3>2
        <4> QED BY <1>2, <4>1 DEF OnePlace
      <3>3. CASE u # w /\ v # w
        BY <1>3, <3>3 DEF OnePlace
      <3> QED BY <3>1, <3>2, <3>3
    <2>2. \A v \in Workers : \A k \in Left' : hand'[v].item # queue'[k]
      BY <1>1, <1>2, <1>3 DEF OnePlace
    <2>3. \A v \in Workers : \A k \in DOMAIN collected' : hand'[v].item # collected'[k]
      BY <1>1, <1>2, <1>3 DEF OnePlace
    <2> QED BY <1>1, <1>2, <2>1, <2>2, <2>3 DEF OnePlace
  <1>6. PlaceCountsTries'
    <2>1. Failed(queue[next], round)
      BY <1>1, <1>2 DEF PlaceCountsTries
    <2>2. \A k \in Left' : Failed(queue[k], round)
      BY <1>1, <1>2 DEF PlaceCountsTries
    <2>3. \A v \in Workers : hand'[v] # Nothing => Failed(hand'[v].item, round)
      BY <1>3, <2>1 DEF PlaceCountsTries
    <2>4. /\ \A k \in DOMAIN collected : Failed(collected[k], round + 1)
          /\ Drains' /\ phase # "backoff"
      BY <1>1 DEF PlaceCountsTries, Drains
    <2>5. \A i, n : Failed(i, n)' = Failed(i, n)
      BY <1>1 DEF Failed
    <2> QED BY <1>1, <2>2, <2>3, <2>4, <2>5 DEF PlaceCountsTries
  <1>7. NoneLost'
    <2> SUFFICES ASSUME phase = "main", NEW i \in Items, Latest(i) = "none"
                 PROVE  \/ \E k \in Left' : queue'[k] = i
                        \/ \E v \in Workers : hand'[v].item = i
      BY <1>1 DEF NoneLost, Latest, Drains
    <2>1. CASE \E k \in Left : queue[k] = i
      BY <1>1, <1>2, <1>3, <2>1
    <2>2. CASE \E v \in Workers : hand[v].item = i
      BY <1>1, <1>3, <2>2 DEF Nothing, Items
    <2> QED BY <2>1, <2>2 DEF NoneLost
  <1> QED BY <1>1, <1>4, <1>5, <1>6, <1>7, StillDraining

(* The source answers: the worker holds the same item.                     *)
LEMMA ResolveKeeps ==
  ASSUME IInv, NEW w \in Workers, Resolve(w)
  PROVE  IInv'
  <1> USE DEF IInv
  <1>1. PICK v \in Handled : hand' = [hand EXCEPT ![w].at = v]
    BY DEF Resolve
  <1>2. /\ hand[w].at = "resolving"
        /\ UNCHANGED <<queue, next, collected>>
        /\ UNCHANGED <<phase, round, count, reported, aborted, stamped, tries>>
    BY DEF Resolve
  <1>3. v \in Verdicts
    BY EnrichmentRunAssumption DEF EnrichmentRunAssumption
  <1>4. hand[w] \in Hands /\ hand[w] # Nothing
    BY <1>2 DEF TypeOK, Nothing
  <1>5. /\ hand'[w] \in Hands /\ hand'[w].item = hand[w].item /\ hand'[w] # Nothing
        /\ \A u \in Workers \ {w} : hand'[u] = hand[u]
    BY <1>1, <1>3, <1>4 DEF TypeOK, Hands, Nothing, Verdicts
  <1>6. TypeOK'
    <2>1. DOMAIN hand' = Workers /\ hand' = [u \in Workers |-> hand'[u]]
      BY <1>1 DEF TypeOK
    <2>2. hand' \in [Workers -> {Nothing} \cup Hands]
      BY <1>5, <2>1 DEF TypeOK
    <2> QED BY <1>2, <2>2 DEF TypeOK
  <1>7. \A u \in Workers : hand'[u].item = hand[u].item /\ (hand'[u] = Nothing <=> hand[u] = Nothing)
    BY <1>4, <1>5
  <1>8. Left' = Left /\ Drains
    BY <1>2, <1>4 DEF Left, PlaceCountsTries
  <1>9. OnePlace'
    BY <1>2, <1>7, <1>8 DEF OnePlace
  <1>10. PlaceCountsTries'
    <2>1. /\ \A k \in Left' : Failed(queue[k], round)
          /\ \A u \in Workers : hand'[u] # Nothing => Failed(hand'[u].item, round)
          /\ \A k \in DOMAIN collected : Failed(collected[k], round + 1)
          /\ Drains' /\ phase # "backoff"
      BY <1>2, <1>7, <1>8 DEF PlaceCountsTries, Drains
    <2>2. \A i, n : Failed(i, n)' = Failed(i, n)
      BY <1>2 DEF Failed
    <2> QED BY <1>2, <2>1, <2>2 DEF PlaceCountsTries
  <1>11. NoneLost'
    BY <1>2, <1>7, <1>8 DEF NoneLost, Latest
  <1> QED BY <1>2, <1>6, <1>8, <1>9, <1>10, <1>11, StillDraining

(* What the tries of a held item are: those of the rounds before, each of  *)
(* them transient.                                                         *)
LEMMA HeldItem ==
  ASSUME IInv, NEW w \in Workers, hand[w] # Nothing
  PROVE  /\ hand[w].item \in Items /\ Failed(hand[w].item, round) /\ Drains
         /\ (phase = "main" /\ round = 0) \/ (phase = "round" /\ round \in 1 .. MaxRounds)
         /\ Latest(hand[w].item) = IF round = 0 THEN "none" ELSE "transient"
  <1> USE DEF IInv
  <1>1. hand[w] \in Hands /\ hand[w].item \in Items
    BY DEF TypeOK, Hands
  <1>2. Failed(hand[w].item, round) /\ Drains
    BY DEF PlaceCountsTries
  <1>3. (phase = "main" /\ round = 0) \/ (phase = "round" /\ round \in 1 .. MaxRounds)
    BY <1>2 DEF Drains, Rounds
  <1>4. tries[hand[w].item] \in Seq(Outcomes) /\ round \in Nat
    BY <1>1 DEF TypeOK
  <1>5. ASSUME round = 0 PROVE Latest(hand[w].item) = "none"
    BY <1>2, <1>4, <1>5, EmptySeq DEF Failed, Latest
  <1>6. ASSUME round # 0 PROVE Latest(hand[w].item) = "transient"
    <2>1. Len(tries[hand[w].item]) \in DOMAIN tries[hand[w].item] /\ tries[hand[w].item] # <<>>
      BY <1>2, <1>4, <1>6 DEF Failed
    <2> QED BY <1>2, <2>1 DEF Failed, Latest
  <1> QED BY <1>1, <1>2, <1>3, <1>5, <1>6

(* Counting keeps the counters whole numbers: one up for an outcome of the *)
(* main pass, one from failed to another for an item that recovered.       *)
LEMMA Counting ==
  ASSUME NEW c \in Counters
  PROVE  /\ [c EXCEPT !.failed = @ + 1, !.completed = @ + 1] \in Counters
         /\ [c EXCEPT !.enriched = @ + 1, !.completed = @ + 1] \in Counters
         /\ [c EXCEPT !.skipped = @ + 1, !.completed = @ + 1] \in Counters
         /\ [c EXCEPT !.exhausted = @ + 1, !.completed = @ + 1] \in Counters
         /\ [c EXCEPT !.enriched = @ + 1, !.recovered = @ + 1, !.failed = @ - 1] \in Counters
         /\ [c EXCEPT !.skipped = @ + 1, !.recovered = @ + 1, !.failed = @ - 1] \in Counters
         /\ [c EXCEPT !.exhausted = @ + 1, !.recovered = @ + 1, !.failed = @ - 1] \in Counters
  <1>1. \A d \in Counters :
          /\ [d EXCEPT !.enriched = @ + 1] \in Counters
          /\ [d EXCEPT !.skipped = @ + 1] \in Counters
          /\ [d EXCEPT !.exhausted = @ + 1] \in Counters
          /\ [d EXCEPT !.failed = @ + 1] \in Counters
          /\ [d EXCEPT !.failed = @ - 1] \in Counters
          /\ [d EXCEPT !.completed = @ + 1] \in Counters
          /\ [d EXCEPT !.recovered = @ + 1] \in Counters
    BY DEF Counters
  <1> DEFINE f == [c EXCEPT !.failed = @ + 1]
             e == [c EXCEPT !.enriched = @ + 1]
             s == [c EXCEPT !.skipped = @ + 1]
             x == [c EXCEPT !.exhausted = @ + 1]
             r(d) == [d EXCEPT !.recovered = @ + 1]
  <1>2. /\ f \in Counters /\ e \in Counters /\ s \in Counters /\ x \in Counters
        /\ \A d \in Counters : r(d) \in Counters
    BY <1>1
  <1>3. /\ [c EXCEPT !.failed = @ + 1, !.completed = @ + 1] = [f EXCEPT !.completed = @ + 1]
        /\ [c EXCEPT !.enriched = @ + 1, !.completed = @ + 1] = [e EXCEPT !.completed = @ + 1]
        /\ [c EXCEPT !.skipped = @ + 1, !.completed = @ + 1] = [s EXCEPT !.completed = @ + 1]
        /\ [c EXCEPT !.exhausted = @ + 1, !.completed = @ + 1] = [x EXCEPT !.completed = @ + 1]
    OBVIOUS
  <1>4. /\ [c EXCEPT !.enriched = @ + 1, !.recovered = @ + 1, !.failed = @ - 1]
             = [r(e) EXCEPT !.failed = @ - 1]
        /\ [c EXCEPT !.skipped = @ + 1, !.recovered = @ + 1, !.failed = @ - 1]
             = [r(s) EXCEPT !.failed = @ - 1]
        /\ [c EXCEPT !.exhausted = @ + 1, !.recovered = @ + 1, !.failed = @ - 1]
             = [r(x) EXCEPT !.failed = @ - 1]
    OBVIOUS
  <1> HIDE DEF f, e, s, x, r
  <1> QED BY <1>1, <1>2, <1>3, <1>4

(* The counters after an item is settled, in the main pass or in a round:  *)
(* still the numbers of items with each latest outcome.                    *)
LEMMA TallyIsExact ==
  ASSUME IInv, NEW w \in Workers, hand[w] # Nothing, NEW o \in Outcomes, Settle(w, o)
  PROVE  count' \in Counters /\ CountsExact'
  <1> USE DEF IInv
  <1> DEFINE i == hand[w].item
  <1>1. /\ i \in Items /\ Failed(i, round)
        /\ (phase = "main" /\ round = 0) \/ (phase = "round" /\ round \in 1 .. MaxRounds)
        /\ Latest(i) = IF round = 0 THEN "none" ELSE "transient"
    BY HeldItem
  <1>2. /\ tries' = [tries EXCEPT ![i] = Append(@, o)] /\ count' = Tally(o)
        /\ phase' = phase /\ round' = round
    BY DEF Settle
  <1>3. Len(tries[i]) = round /\ Latest(i) \notin Verdicts
    BY <1>1 DEF Failed, Verdicts
  <1> HIDE DEF i
  <1>4. /\ count \in Counters /\ count.enriched = Having({"enriched"})
        /\ count.skipped = Having({"skipped"}) /\ count.exhausted = Having({"exhausted"})
        /\ count.failed = Having(Failures) /\ count.completed = Having(Verdicts \cup Failures)
        /\ count.recovered = Cardinality(Recovered)
    BY <1>1 DEF CountsExact, TypeOK, Recovered
  <1>5. \A O :
          /\ Having(O) \in Nat
          /\ o \in O /\ Latest(i) \notin O => Having(O)' = Having(O) + 1
          /\ o \notin O /\ Latest(i) \in O => Having(O)' = Having(O) - 1
          /\ (o \in O <=> Latest(i) \in O) => Having(O)' = Having(O)
    BY <1>1, <1>2, HavingAfter
  <1>6. /\ Cardinality(Recovered) \in Nat
        /\ o \in Verdicts /\ round > 0 => Cardinality(Recovered)' = Cardinality(Recovered) + 1
        /\ o \notin Verdicts \/ round = 0 => Cardinality(Recovered)' = Cardinality(Recovered)
    BY <1>1, <1>2, <1>3, RecoveredAfter
  <1> DEFINE Exact ==
        /\ count'.enriched = Having({"enriched"})'
        /\ count'.skipped = Having({"skipped"})' /\ count'.exhausted = Having({"exhausted"})'
        /\ count'.failed = Having(Failures)' /\ count'.completed = Having(Verdicts \cup Failures)'
        /\ count'.recovered = Cardinality(Recovered)'
  <1>7. CASE phase = "main"
    <2>1. round = 0 /\ Latest(i) = "none"
      BY <1>1, <1>7
    <2>2. count' = [count EXCEPT ![IF o \in Failures THEN "failed" ELSE o] = @ + 1,
                                 !.completed = @ + 1]
      BY <1>2, <1>7 DEF Tally
    <2>3. Having(Verdicts \cup Failures)' = Having(Verdicts \cup Failures) + 1
      BY <1>5, <2>1 DEF Outcomes, Verdicts, Failures
    <2>4. /\ Having({"enriched"})' = Having({"enriched"}) + (IF o = "enriched" THEN 1 ELSE 0)
          /\ Having({"skipped"})' = Having({"skipped"}) + (IF o = "skipped" THEN 1 ELSE 0)
          /\ Having({"exhausted"})' = Having({"exhausted"}) + (IF o = "exhausted" THEN 1 ELSE 0)
          /\ Having(Failures)' = Having(Failures) + (IF o \in Failures THEN 1 ELSE 0)
      BY <1>5, <2>1 DEF Failures
    <2>5. Cardinality(Recovered)' = Cardinality(Recovered)
      BY <1>6, <2>1
    <2>6. /\ count' \in Counters
          /\ count'.completed = count.completed + 1 /\ count'.recovered = count.recovered
          /\ count'.enriched = count.enriched + (IF o = "enriched" THEN 1 ELSE 0)
          /\ count'.skipped = count.skipped + (IF o = "skipped" THEN 1 ELSE 0)
          /\ count'.exhausted = count.exhausted + (IF o = "exhausted" THEN 1 ELSE 0)
          /\ count'.failed = count.failed + (IF o \in Failures THEN 1 ELSE 0)
      <3>1. CASE o \in Failures
        <4>1. count' = [count EXCEPT !.failed = @ + 1, !.completed = @ + 1]
          BY <2>2, <3>1
        <4>2. count' \in Counters
          BY <1>4, <4>1, Counting
        <4> QED BY <1>4, <3>1, <4>1, <4>2 DEF Counters, Failures
      <3>2. CASE o = "enriched"
        <4>1. count' = [count EXCEPT !.enriched = @ + 1, !.completed = @ + 1]
          BY <2>2, <3>2 DEF Failures
        <4>2. count' \in Counters
          BY <1>4, <4>1, Counting
        <4> QED BY <1>4, <3>2, <4>1, <4>2 DEF Counters, Failures
      <3>3. CASE o = "skipped"
        <4>1. count' = [count EXCEPT !.skipped = @ + 1, !.completed = @ + 1]
          BY <2>2, <3>3 DEF Failures
        <4>2. count' \in Counters
          BY <1>4, <4>1, Counting
        <4> QED BY <1>4, <3>3, <4>1, <4>2 DEF Counters, Failures
      <3>4. CASE o = "exhausted"
        <4>1. count' = [count EXCEPT !.exhausted = @ + 1, !.completed = @ + 1]
          BY <2>2, <3>4 DEF Failures
        <4>2. count' \in Counters
          BY <1>4, <4>1, Counting
        <4> QED BY <1>4, <3>4, <4>1, <4>2 DEF Counters, Failures
      <3> QED BY <3>1, <3>2, <3>3, <3>4 DEF Outcomes, Verdicts
    <2>7. Exact
      BY <1>4, <2>3, <2>4, <2>5, <2>6
    <2> QED BY <2>6, <2>7 DEF CountsExact, Recovered
  <1>8. CASE phase = "round" /\ o \in Failures
    <2>1. count' = count /\ Latest(i) = "transient" /\ o \notin Verdicts
      BY <1>1, <1>2, <1>8 DEF Tally, Verdicts, Failures
    <2>2. Exact
      BY <1>4, <1>5, <1>6, <1>8, <2>1 DEF Verdicts, Failures
    <2> QED BY <1>4, <2>1, <2>2 DEF CountsExact, Recovered
  <1>9. CASE phase = "round" /\ o \in Verdicts
    <2>1. round > 0 /\ Latest(i) = "transient"
      BY <1>1, <1>9
    <2>2. count' = [count EXCEPT ![o] = @ + 1, !.recovered = @ + 1, !.failed = @ - 1]
      BY <1>2, <1>9 DEF Tally, Verdicts, Failures
    <2>3. /\ Having({"enriched"})' = Having({"enriched"}) + (IF o = "enriched" THEN 1 ELSE 0)
          /\ Having({"skipped"})' = Having({"skipped"}) + (IF o = "skipped" THEN 1 ELSE 0)
          /\ Having({"exhausted"})' = Having({"exhausted"}) + (IF o = "exhausted" THEN 1 ELSE 0)
          /\ Having(Failures)' = Having(Failures) - 1
          /\ Having(Verdicts \cup Failures)' = Having(Verdicts \cup Failures)
      BY <1>5, <1>9, <2>1 DEF Verdicts, Failures
    <2>4. Cardinality(Recovered)' = Cardinality(Recovered) + 1
      BY <1>6, <1>9, <2>1
    <2>5. /\ count' \in Counters
          /\ count'.completed = count.completed /\ count'.recovered = count.recovered + 1
          /\ count'.enriched = count.enriched + (IF o = "enriched" THEN 1 ELSE 0)
          /\ count'.skipped = count.skipped + (IF o = "skipped" THEN 1 ELSE 0)
          /\ count'.exhausted = count.exhausted + (IF o = "exhausted" THEN 1 ELSE 0)
          /\ count'.failed = count.failed - 1
      <3>1. CASE o = "enriched"
        <4>1. count' = [count EXCEPT !.enriched = @ + 1, !.recovered = @ + 1, !.failed = @ - 1]
          BY <2>2, <3>1
        <4>2. count' \in Counters
          BY <1>4, <4>1, Counting
        <4> QED BY <1>4, <3>1, <4>1, <4>2 DEF Counters
      <3>2. CASE o = "skipped"
        <4>1. count' = [count EXCEPT !.skipped = @ + 1, !.recovered = @ + 1, !.failed = @ - 1]
          BY <2>2, <3>2
        <4>2. count' \in Counters
          BY <1>4, <4>1, Counting
        <4> QED BY <1>4, <3>2, <4>1, <4>2 DEF Counters
      <3>3. CASE o = "exhausted"
        <4>1. count' = [count EXCEPT !.exhausted = @ + 1, !.recovered = @ + 1, !.failed = @ - 1]
          BY <2>2, <3>3
        <4>2. count' \in Counters
          BY <1>4, <4>1, Counting
        <4> QED BY <1>4, <3>3, <4>1, <4>2 DEF Counters
      <3> QED BY <1>9, <3>1, <3>2, <3>3 DEF Verdicts
    <2>6. Exact
      BY <1>4, <2>3, <2>4, <2>5
    <2> QED BY <2>5, <2>6 DEF CountsExact, Recovered
  <1> QED BY <1>1, <1>7, <1>8, <1>9 DEF Outcomes

(* Settling an item takes it from its worker and, if it failed for a       *)
(* transient reason, gathers it; it leaves every other item where it was.  *)
LEMMA SettleKeeps ==
  ASSUME IInv, NEW w \in Workers, hand[w] # Nothing, NEW o \in Outcomes, Settle(w, o),
         stamped \subseteq stamped', stamped' \subseteq Items,
         o \in Verdicts => hand[w].item \in stamped'
  PROVE  IInv'
  <1> USE DEF IInv
  <1>0. PICK i \in Items : i = hand[w].item
    BY HeldItem
  <1>1. /\ Failed(i, round) /\ Drains
        /\ (phase = "main" /\ round = 0) \/ (phase = "round" /\ round \in 1 .. MaxRounds)
    BY <1>0, HeldItem
  <1>2. /\ hand' = [hand EXCEPT ![w] = Nothing]
        /\ tries' = [tries EXCEPT ![i] = Append(@, o)]
        /\ collected' = IF Collects(o) THEN Append(collected, i) ELSE collected
        /\ UNCHANGED <<phase, queue, next, round, reported, aborted>>
    BY <1>0 DEF Settle
  <1>3. /\ hand'[w] = Nothing /\ \A v \in Workers \ {w} : hand'[v] = hand[v] /\ hand[v].item # i
        /\ \A k \in Left : queue[k] # i
        /\ \A k \in DOMAIN collected : collected[k] # i
        /\ Left' = Left /\ Left \subseteq DOMAIN queue /\ Nothing.item = 0 /\ 0 \notin Items
    BY <1>0, <1>2 DEF OnePlace, TypeOK, Nothing, Items, Left
  <1>4. /\ \A k \in DOMAIN queue : queue[k] \in Items
        /\ \A k \in DOMAIN collected : collected[k] \in Items
        /\ \A v \in Workers : hand[v] # Nothing => hand[v].item \in Items
    BY DEF TypeOK, Hands
  <1>5. \A j \in Items \ {i} : tries'[j] = tries[j] /\ Latest(j)' = Latest(j)
    BY <1>1, <1>2, LatestAfter DEF TypeOK
  <1>6. /\ Latest(i)' = o /\ Len(tries'[i]) = round + 1
        /\ \A k \in DOMAIN tries'[i] : k < Len(tries'[i]) => tries'[i][k] = "transient"
        /\ o = "transient" => \A k \in DOMAIN tries'[i] : tries'[i][k] = "transient"
    <2>1. tries[i] \in Seq(Outcomes)
      BY <1>1 DEF TypeOK
    <2>2. Len(tries[i]) = round /\ \A k \in DOMAIN tries[i] : tries[i][k] = "transient"
      BY <1>1 DEF Failed
    <2>3. /\ Latest(i)' = o /\ Len(tries'[i]) = Len(tries[i]) + 1
          /\ \A k \in DOMAIN tries[i] : tries'[i][k] = tries[i][k]
          /\ DOMAIN tries'[i] = DOMAIN tries[i] \cup {Len(tries[i]) + 1}
          /\ tries'[i][Len(tries[i]) + 1] = o
      BY <1>2, LatestAfter
    <2> QED BY <2>1, <2>2, <2>3
  <1>7. TypeOK'
    <2>1. collected' \in Seq(Items) /\ hand' \in [Workers -> {Nothing} \cup Hands]
      BY <1>1, <1>2 DEF TypeOK
    <2>2. tries' \in [Items -> Seq(Outcomes)]
      BY <1>1, <1>2 DEF TypeOK
    <2>3. count' \in Counters
      BY TallyIsExact
    <2> QED BY <1>2, <2>1, <2>2, <2>3 DEF TypeOK
  <1>8. CountsExact'
    BY TallyIsExact
  <1>9. /\ DOMAIN collected \subseteq DOMAIN collected'
        /\ \A k \in DOMAIN collected : collected'[k] = collected[k]
        /\ \A k \in DOMAIN collected' \ DOMAIN collected :
             k = Len(collected) + 1 /\ collected'[k] = i /\ o = "transient"
    BY <1>2 DEF TypeOK, Collects
  <1>10. OnePlace'
    <2>1. \A u, v \in Workers : hand'[u].item = hand'[v].item => u = v \/ hand'[u] = Nothing
      <3> SUFFICES ASSUME NEW u \in Workers, NEW v \in Workers, u # v, hand'[u] # Nothing,
                          hand'[u].item = hand'[v].item
                   PROVE  FALSE
        OBVIOUS
      <3>1. hand'[u] = hand[u] /\ hand[u].item \in Items
        BY <1>3, <1>4
      <3>2. CASE v = w
        BY <1>3, <3>1, <3>2
      <3>3. CASE v # w
        BY <1>3, <3>1, <3>3 DEF OnePlace
      <3> QED BY <3>2, <3>3
    <2>2. \A v \in Workers : \A k \in Left' : hand'[v].item # queue'[k]
      BY <1>2, <1>3, <1>4 DEF OnePlace
    <2>3. \A v \in Workers : \A k \in DOMAIN collected' : hand'[v].item # collected'[k]
      BY <1>1, <1>3, <1>4, <1>9 DEF OnePlace
    <2>4. \A j, k \in DOMAIN collected' : collected'[j] = collected'[k] => j = k
      BY <1>3, <1>9 DEF OnePlace
    <2>5. \A j \in Left' : \A k \in DOMAIN collected' : queue'[j] # collected'[k]
      BY <1>2, <1>3, <1>9 DEF OnePlace
    <2> QED BY <1>2, <2>1, <2>2, <2>3, <2>4, <2>5 DEF OnePlace
  <1>11. PlaceCountsTries'
    <2>1. \A j \in Items \ {i} : \A n : Failed(j, n)' = Failed(j, n)
      BY <1>5 DEF Failed
    <2>2. \A k \in Left : Failed(queue[k], round)'
      BY <1>1, <1>2, <1>3, <1>4, <2>1 DEF PlaceCountsTries
    <2>3. \A v \in Workers : hand'[v] # Nothing => Failed(hand[v].item, round)' /\ hand'[v] = hand[v]
      BY <1>2, <1>3, <1>4, <2>1 DEF PlaceCountsTries
    <2>4. \A k \in DOMAIN collected' : Failed(collected[k], round + 1)'
      <3> SUFFICES ASSUME NEW k \in DOMAIN collected'
                   PROVE  Failed(collected[k], round + 1)'
        OBVIOUS
      <3>1. CASE k \in DOMAIN collected
        BY <1>1, <1>2, <1>3, <1>4, <1>9, <2>1, <3>1 DEF PlaceCountsTries
      <3>2. CASE k \notin DOMAIN collected
        BY <1>2, <1>6, <1>9, <3>2 DEF Failed
      <3> QED BY <3>1, <3>2
    <2>5. Drains' /\ phase' # "backoff"
      BY <1>1, <1>2 DEF Drains
    <2> QED BY <1>2, <1>3, <2>2, <2>3, <2>4, <2>5 DEF PlaceCountsTries
  <1>12. MaxRounds \in Nat
    BY EnrichmentRunAssumption DEF EnrichmentRunAssumption
  <1>13. TriesBounded'
    BY <1>1, <1>5, <1>6, <1>12 DEF TriesBounded
  <1>14. Rounds' /\ AtSelect' /\ ReportedIsSettled'
    BY <1>1, <1>2 DEF Rounds, AtSelect, ReportedIsSettled
  <1>15. NoneLost'
    <2>1. o # "none"
      BY DEF Outcomes, Verdicts, Failures
    <2>2. \A j \in Items : Latest(j) # "none" => Latest(j)' # "none"
      BY <1>5, <1>6, <2>1
    <2>3. phase = "main" => \A j \in Items :
            \/ Latest(j)' # "none"
            \/ \E k \in Left' : queue'[k] = j
            \/ \E v \in Workers : hand'[v].item = j
      <3> SUFFICES ASSUME phase = "main", NEW j \in Items, Latest(j)' = "none"
                   PROVE  \/ \E k \in Left' : queue'[k] = j
                          \/ \E v \in Workers : hand'[v].item = j
        OBVIOUS
      <3>1. j # i /\ Latest(j) = "none"
        BY <1>6, <2>1, <2>2
      <3>2. CASE \E k \in Left : queue[k] = j
        BY <1>2, <1>3, <3>2
      <3>3. CASE \E v \in Workers : hand[v].item = j
        <4>1. PICK v \in Workers : hand[v].item = j
          BY <3>3
        <4>2. v # w
          BY <1>0, <3>1, <4>1
        <4> QED BY <1>3, <4>1, <4>2
      <3> QED BY <3>1, <3>2, <3>3 DEF NoneLost
    <2> QED BY <1>1, <1>2, <2>2, <2>3 DEF NoneLost
  <1>16. SettledIsStamped'
    BY <1>0, <1>5, <1>6 DEF SettledIsStamped
  <1> QED BY <1>7, <1>8, <1>10, <1>11, <1>13, <1>14, <1>15, <1>16

(* Every way a worker settles its item, in this pass: a verdict is stamped *)
(* before it is counted.                                                   *)
LEMMA WorkKeeps ==
  ASSUME IInv, NEW w \in Workers, Work(w)
  PROVE  IInv'
  <1>1. ASSUME ResolveUnhandled(w) \/ ResolveThrows(w) \/ WriteThrows(w)
        PROVE  /\ hand[w] # Nothing /\ stamped \subseteq stamped'
               /\ \E f \in Failures : Settle(w, f)
               /\ stamped' \subseteq stamped \cup {hand[w].item}
    BY <1>1 DEF ResolveUnhandled, ResolveThrows, WriteThrows, Nothing, Verdicts, Failures
  <1>2. ASSUME Write(w)
        PROVE  /\ hand[w] # Nothing /\ hand[w].at \in Verdicts /\ Settle(w, hand[w].at)
               /\ stamped' = stamped \cup {hand[w].item}
    BY <1>2 DEF Write, Nothing, Verdicts
  <1>3. hand[w] # Nothing => hand[w].item \in Items
    BY DEF IInv, TypeOK, Hands
  <1>4. stamped \subseteq Items
    BY DEF IInv, TypeOK
  <1>5. CASE ResolveUnhandled(w) \/ ResolveThrows(w) \/ WriteThrows(w)
    <2>1. PICK f \in Failures : Settle(w, f)
      BY <1>1, <1>5
    <2>2. f \in Outcomes /\ f \notin Verdicts
      BY DEF Outcomes, Verdicts, Failures
    <2> QED BY <1>1, <1>3, <1>4, <1>5, <2>1, <2>2, SettleKeeps
  <1>6. CASE Write(w)
    <2>1. hand[w].at \in Outcomes
      BY <1>2, <1>6 DEF Outcomes
    <2> QED BY <1>2, <1>3, <1>4, <1>6, <2>1, SettleKeeps
  <1> QED BY <1>5, <1>6, DrawKeeps, ResolveKeeps DEF Work

-----------------------------------------------------------------------------
(* A pass that came to the end of its queue has tried every candidate.     *)
LEMMA PassOver ==
  ASSUME IInv, Drains \/ phase = "backoff", \A w \in Workers : hand[w] = Nothing,
         next > Len(queue) \/ phase = "backoff"
  PROVE  \A i \in Items : Latest(i) # "none"
  <1>1. CASE phase = "main"
    <2>1. Left = {}
      BY <1>1 DEF IInv, TypeOK, Left
    <2>2. Nothing.item \notin Items
      BY DEF Nothing, Items
    <2> QED BY <1>1, <2>1, <2>2 DEF IInv, NoneLost
  <1>2. CASE phase \in {"round", "backoff"}
    BY <1>2 DEF IInv, NoneLost
  <1> QED BY <1>1, <1>2 DEF Drains

(* The run ends: the last progress it reports is what was settled.         *)
LEMMA FinishKeeps ==
  ASSUME IInv, Finish, Drains \/ phase = "backoff", \A w \in Workers : hand[w] = Nothing,
         aborted \/ next > Len(queue),
         UNCHANGED <<queue, next, hand, collected>>,
         UNCHANGED <<round, count, aborted, stamped, tries>>
  PROVE  IInv'
  <1> USE DEF IInv
  <1>1. phase' = "done" /\ reported' = IF aborted THEN count.completed ELSE Total
    BY DEF Finish
  <1>2. ~aborted => \A i \in Items : Latest(i) # "none"
    BY PassOver
  <1>3. phase # "unselected"
    BY DEF Drains
  <1>4. count.completed = Having(Outcomes)
    BY <1>3 DEF CountsExact, Outcomes
  <1>5. ASSUME ~aborted PROVE Having(Outcomes) = Total
    <2>1. \A i \in Items : Latest(i) \in Outcomes
      <3> SUFFICES ASSUME NEW i \in Items PROVE Latest(i) \in Outcomes
        OBVIOUS
      <3>1. tries[i] \in Seq(Outcomes) /\ tries[i] # <<>>
        BY <1>2, <1>5 DEF TypeOK, Latest
      <3>2. Len(tries[i]) \in 1 .. Len(tries[i])
        BY <3>1, EmptySeq
      <3> QED BY <3>1, <3>2 DEF Latest
    <2>2. {i \in Items : Latest(i) \in Outcomes} = Items
      BY <2>1
    <2> QED BY <2>2, ItemsFinite DEF Having
  <1>6. Having(Outcomes)' = Having(Outcomes)
    BY DEF Having, Latest
  <1>7. TypeOK'
    <2>1. reported' \in Int
      BY <1>1, EnrichmentRunAssumption DEF TypeOK, Counters, EnrichmentRunAssumption
    <2> QED BY <1>1, <2>1 DEF TypeOK
  <1>8. OnePlace'
    BY DEF OnePlace, Left
  <1>9. PlaceCountsTries' /\ Rounds' /\ TriesBounded' /\ AtSelect'
    BY <1>1 DEF PlaceCountsTries, Drains, Rounds, TriesBounded, AtSelect
  <1>10. NoneLost'
    BY <1>1, <1>2 DEF NoneLost, Latest
  <1>11. CountsExact' /\ SettledIsStamped'
    BY <1>3, CountsKept DEF SettledIsStamped, Latest
  <1>12. ReportedIsSettled'
    BY <1>1, <1>4, <1>5, <1>6 DEF ReportedIsSettled
  <1> QED BY <1>7, <1>8, <1>9, <1>10, <1>11, <1>12

(* The next round is due: what was gathered has been tried that often.     *)
LEMMA BackoffKeeps ==
  ASSUME IInv, Drains, \A w \in Workers : hand[w] = Nothing, ~aborted, next > Len(queue),
         phase' = "backoff", round' = round + 1, round < MaxRounds,
         UNCHANGED <<queue, next, hand, collected>>,
         UNCHANGED <<count, reported, aborted, stamped, tries>>
  PROVE  IInv'
  <1> USE DEF IInv
  <1>1. \A i \in Items : Latest(i) # "none"
    BY PassOver
  <1>2. TypeOK'
    BY DEF TypeOK
  <1>3. OnePlace'
    BY DEF OnePlace, Left
  <1>4. PlaceCountsTries'
    BY DEF PlaceCountsTries, Drains, Failed
  <1>5. Rounds'
    BY EnrichmentRunAssumption DEF Rounds, TypeOK, EnrichmentRunAssumption
  <1>6. TriesBounded' /\ AtSelect' /\ ReportedIsSettled'
    BY DEF TriesBounded, AtSelect, ReportedIsSettled
  <1>7. NoneLost'
    BY <1>1 DEF NoneLost, Latest
  <1>8. CountsExact' /\ SettledIsStamped'
    BY CountsKept DEF SettledIsStamped, Latest, Drains
  <1> QED BY <1>2, <1>3, <1>4, <1>5, <1>6, <1>7, <1>8

(* A round starts: what was gathered is its queue.                         *)
LEMMA RoundStartKeeps ==
  ASSUME IInv, phase = "backoff", phase' = "round",
         queue' = collected, next' = 1, collected' = <<>>,
         UNCHANGED <<hand, round, count, reported, aborted, stamped, tries>>
  PROVE  IInv'
  <1> USE DEF IInv
  <1>1. \A w \in Workers : hand[w] = Nothing
    BY DEF PlaceCountsTries, Drains
  <1>2. Left' \subseteq DOMAIN collected
    BY DEF Left
  <1>3. TypeOK'
    BY DEF TypeOK
  <1>4. OnePlace'
    <2>1. \A k \in DOMAIN collected : collected[k] \in Items
      BY DEF TypeOK
    <2>2. Nothing.item \notin Items
      BY DEF Nothing, Items
    <2> QED BY <1>1, <1>2, <2>1, <2>2 DEF OnePlace
  <1>5. PlaceCountsTries'
    <2>1. \A i, n : Failed(i, n)' = Failed(i, n)
      BY DEF Failed
    <2>2. \A k \in DOMAIN collected : Failed(collected[k], round)
      BY DEF PlaceCountsTries
    <2>3. DOMAIN collected' = {}
      OBVIOUS
    <2> QED BY <1>1, <1>2, <2>1, <2>2, <2>3 DEF PlaceCountsTries
  <1>6. Rounds' /\ TriesBounded' /\ AtSelect' /\ ReportedIsSettled'
    BY DEF Rounds, TriesBounded, AtSelect, ReportedIsSettled
  <1>7. NoneLost'
    BY DEF NoneLost, Latest
  <1>8. CountsExact' /\ SettledIsStamped'
    BY CountsKept DEF SettledIsStamped, Latest
  <1> QED BY <1>3, <1>4, <1>5, <1>6, <1>7, <1>8

(* The steps of runEnrichment itself, from one await to the next.          *)
LEMMA AdvanceKeeps ==
  ASSUME IInv, Advance
  PROVE  IInv'
  <1>1. CASE MainEnds
    <2>1. /\ phase = "main" /\ Drains /\ \A w \in Workers : hand[w] = Nothing
          /\ next > Len(queue) \/ aborted
          /\ UNCHANGED <<queue, next, hand, collected>>
          /\ UNCHANGED <<count, aborted, stamped, tries>>
      BY <1>1 DEF MainEnds, Drained, Drains, pass
    <2>2. CASE WorthSweeping
      <3>1. phase' = "backoff" /\ round' = 1 /\ UNCHANGED reported /\ ~aborted /\ MaxRounds > 0
        BY <1>1, <2>2 DEF MainEnds, WorthSweeping
      <3>2. round = 0
        BY <2>1 DEF IInv, Rounds
      <3> QED BY <2>1, <3>1, <3>2, BackoffKeeps
    <2>3. CASE ~WorthSweeping
      BY <1>1, <2>1, <2>3, FinishKeeps DEF MainEnds
    <2> QED BY <2>2, <2>3
  <1>2. CASE BackoffEnds
    <2>1. \A w \in Workers : hand[w] = Nothing
      BY <1>2 DEF BackoffEnds, IInv, PlaceCountsTries, Drains
    <2>2. CASE aborted
      BY <1>2, <2>1, <2>2, FinishKeeps DEF BackoffEnds
    <2>3. CASE ~aborted
      BY <1>2, <2>3, RoundStartKeeps DEF BackoffEnds
    <2> QED BY <2>2, <2>3
  <1>3. CASE RoundEnds
    <2>1. /\ Drains /\ \A w \in Workers : hand[w] = Nothing
          /\ next > Len(queue) \/ aborted
          /\ UNCHANGED <<queue, next, hand, collected>>
          /\ UNCHANGED <<count, aborted, stamped, tries>>
      BY <1>3 DEF RoundEnds, Drained, Drains, pass
    <2>2. CASE round < MaxRounds /\ collected # <<>> /\ ~aborted
      BY <1>3, <2>1, <2>2, BackoffKeeps DEF RoundEnds
    <2>3. CASE ~(round < MaxRounds /\ collected # <<>> /\ ~aborted)
      BY <1>3, <2>1, <2>3, FinishKeeps DEF RoundEnds
    <2> QED BY <2>2, <2>3
  <1> QED BY <1>1, <1>2, <1>3, SelectKeeps, SelectFailsKeeps DEF Advance

(* The signal fires at any await: it changes nothing of the pass.          *)
LEMMA AbortKeeps ==
  ASSUME IInv, Abort \/ UNCHANGED vars
  PROVE  IInv'
  <1> USE DEF IInv
  <1>1. /\ aborted' \in BOOLEAN /\ UNCHANGED <<queue, next, hand, collected>>
        /\ UNCHANGED <<phase, round, count, reported, stamped, tries>>
        /\ aborted' = aborted \/ phase # "done"
    BY DEF Abort, vars, pass, TypeOK
  <1>2. TypeOK' /\ OnePlace'
    BY <1>1 DEF TypeOK, OnePlace, Left
  <1>3. PlaceCountsTries' /\ Rounds' /\ TriesBounded' /\ AtSelect'
    BY <1>1 DEF PlaceCountsTries, Failed, Left, Drains, Rounds, TriesBounded, AtSelect
  <1>4. NoneLost'
    BY <1>1 DEF NoneLost, Latest, Left
  <1>5. CountsExact' /\ SettledIsStamped' /\ ReportedIsSettled'
    BY <1>1, CountsKept DEF SettledIsStamped, ReportedIsSettled, Latest
  <1> QED BY <1>2, <1>3, <1>4, <1>5

(* Every step of a worker, of the run and of the signal keeps it.          *)
LEMMA Inductive == IInv /\ [Next]_vars => IInv'
  BY WorkKeeps, AdvanceKeeps, AbortKeeps DEF Next

(* So it holds in every state a run reaches.                               *)
LEMMA Invariant == Spec => []IInv
  BY Initially, Inductive, PTL DEF Spec, Safety

-----------------------------------------------------------------------------
(* Every state a run reaches keeps its types.                              *)
THEOREM TypeCorrect == Spec => []TypeOK
  <1>1. IInv => TypeOK
    BY DEF IInv
  <1> QED BY <1>1, Invariant, PTL

(* Workers never double-draw: for any number of candidates and workers no  *)
(* two of them are at the same item, and an item is drawn again only after *)
(* a transient failure, once per round (drainPool, the in-run sweep).      *)
THEOREM NoDoubleDraw == Spec => []ClaimedOnce
  <1>1. IInv => ClaimedOnce
    BY DEF IInv, OnePlace, TriesBounded, ClaimedOnce
  <1> QED BY <1>1, Invariant, PTL

(* However the workers interleave, each counter of the summary is the      *)
(* number of candidates whose latest outcome it counts.                    *)
THEOREM CountersAreExact == Spec => []CountsExact
  <1>1. IInv => CountsExact
    BY DEF IInv
  <1> QED BY <1>1, Invariant, PTL

(* A candidate the summary does not count as failed carries its stamp, an  *)
(* unaborted run accounts for every candidate, and what it reports last is *)
(* what it settled: so the next run takes up what failed and what was not  *)
(* reached, and nothing else.                                              *)
THEOREM SummaryIsOfGraph == Spec => []SummaryMatchesGraph
  <1>1. IInv => SummaryMatchesGraph
    BY DEF IInv, SettledIsStamped, NoneLost, ReportedIsSettled, Outcomes, SummaryMatchesGraph
  <1> QED BY <1>1, Invariant, PTL

-----------------------------------------------------------------------------
(***************************************************************************)
(* The client of a source: its types with the retry budget, the probe      *)
(* behind every half-open breaker, and the breaker that stays open for the *)
(* run when it has no cooldown.                                            *)
(***************************************************************************)

(* A call that backs off has budget left: what keeps attempt in its type.  *)
WaitsWithinBudget == \A c \in Callers : at[c] = "waiting" => attempt[c] < MaxRetries

BudgetTypes == ClientTypeOK /\ WaitsWithinBudget

(* Whatever the outcome, record leaves the breaker well-typed; closed only *)
(* with fewer fatals than the threshold.                                   *)
LEMMA RecordKeepsTypes ==
    ASSUME ClientTypeOK, RecordAlive \/ RecordTransient \/ RecordFatal
    PROVE  /\ hasCooldown' \in BOOLEAN
           /\ state' \in {"closed", "open", "half-open"}
           /\ consecutiveFatals' \in 0 .. Threshold
           /\ state' = "closed" => consecutiveFatals' < Threshold
           /\ sinceTrip' \in 0 .. Cooldown
<1> USE SourceClientAssumption DEF SourceClientAssumption, ClientTypeOK
<1>1. CASE RecordAlive
  BY <1>1 DEF RecordAlive
<1>2. CASE RecordTransient
  BY <1>2 DEF RecordTransient, Trip, breaker
<1>3. CASE RecordFatal
  BY <1>3 DEF RecordFatal, Trip, MoreFatals
<1>. QED
  BY <1>1, <1>2, <1>3

(* A call that leaves takes its place, its budget and its probe with it.   *)
LEMMA LeaveKeepsTypes ==
    ASSUME BudgetTypes, NEW c \in Callers, Leave(c)
    PROVE  /\ at' \in [Callers -> {"idle", "fetching", "waiting", "pausing"}]
           /\ attempt' \in [Callers -> 0 .. MaxRetries]
           /\ probe' \in [Callers -> BOOLEAN]
           /\ WaitsWithinBudget'
  BY SourceClientAssumption
  DEF SourceClientAssumption, BudgetTypes, ClientTypeOK, WaitsWithinBudget, Leave

(* The initial state is well-typed.                                        *)
LEMMA BudgetTypesInit == ClientInit => BudgetTypes
<1> SUFFICES ASSUME ClientInit PROVE BudgetTypes
  OBVIOUS
<1>1. /\ at \in [Callers -> {"idle", "fetching", "waiting", "pausing"}]
      /\ attempt \in [Callers -> 0 .. MaxRetries]
      /\ probe \in [Callers -> BOOLEAN]
  BY SourceClientAssumption DEF SourceClientAssumption, ClientInit
<1>2. /\ consecutiveFatals \in 0 .. Threshold /\ consecutiveFatals < Threshold
      /\ sinceTrip \in 0 .. Cooldown
  BY SourceClientAssumption DEF SourceClientAssumption, ClientInit
<1>3. WaitsWithinBudget
  BY DEF ClientInit, WaitsWithinBudget
<1>. QED
  BY <1>1, <1>2, <1>3 DEF ClientInit, BudgetTypes, ClientTypeOK

(* Every step keeps the types.                                             *)
LEMMA BudgetTypesNext == BudgetTypes /\ [ClientNext]_clientVars => BudgetTypes'
<1> SUFFICES ASSUME BudgetTypes, [ClientNext]_clientVars PROVE BudgetTypes'
  OBVIOUS
<1> USE SourceClientAssumption DEF SourceClientAssumption
<1>1. ASSUME NEW c \in Callers, Admit(c) PROVE BudgetTypes'
  BY <1>1 DEF Admit, Enter, breaker, BudgetTypes, ClientTypeOK, WaitsWithinBudget
<1>2. ASSUME NEW c \in Callers, AdmitProbe(c) PROVE BudgetTypes'
  BY <1>2 DEF AdmitProbe, Enter, BudgetTypes, ClientTypeOK, WaitsWithinBudget
<1>3. ASSUME NEW c \in Callers, Backoff(c) PROVE BudgetTypes'
  BY <1>3 DEF Backoff, breaker, BudgetTypes, ClientTypeOK, WaitsWithinBudget
<1>4. ASSUME NEW c \in Callers, Retry(c) PROVE BudgetTypes'
  <2>1. attempt[c] + 1 \in 0 .. MaxRetries
    BY <1>4 DEF Retry, BudgetTypes, ClientTypeOK, WaitsWithinBudget
  <2>. QED
    BY <1>4, <2>1 DEF Retry, breaker, BudgetTypes, ClientTypeOK, WaitsWithinBudget
<1>5. ASSUME NEW c \in Callers, Pause(c) PROVE BudgetTypes'
  BY <1>5 DEF Pause, breaker, BudgetTypes, ClientTypeOK, WaitsWithinBudget
<1>6. ASSUME NEW c \in Callers,
             EndTransient(c) \/ EndFatal(c) \/ EndMiss(c) \/ EndOk(c)
      PROVE  BudgetTypes'
  <2>1. /\ RecordAlive \/ RecordTransient \/ RecordFatal
        /\ Leave(c)
        /\ lost' = lost
    BY <1>6 DEF EndTransient, EndFatal, EndMiss, EndOk
  <2>. QED
    BY <2>1, RecordKeepsTypes, LeaveKeepsTypes DEF BudgetTypes, ClientTypeOK
<1>7. ASSUME NEW c \in Callers, EndThrown(c) PROVE BudgetTypes'
  <2>1. lost' \in BOOLEAN /\ Leave(c) /\ UNCHANGED breaker
    BY <1>7 DEF EndThrown, BudgetTypes, ClientTypeOK
  <2>. QED
    BY <2>1, LeaveKeepsTypes DEF BudgetTypes, ClientTypeOK, breaker
<1>8. CASE Tick
  BY <1>8 DEF Tick, BudgetTypes, ClientTypeOK, WaitsWithinBudget
<1>9. CASE UNCHANGED clientVars
  BY <1>9 DEF clientVars, breaker, BudgetTypes, ClientTypeOK, WaitsWithinBudget
<1>. QED
  BY <1>1, <1>2, <1>3, <1>4, <1>5, <1>6, <1>7, <1>8, <1>9 DEF ClientNext, Proceed

(* The client keeps its types, the retry budget of every call among them.  *)
THEOREM ClientTypeCorrect == ClientSafety => []ClientTypeOK
<1>1. BudgetTypes => ClientTypeOK
  BY DEF BudgetTypes
<1>. QED
  BY <1>1, BudgetTypesInit, BudgetTypesNext, PTL DEF ClientSafety

-----------------------------------------------------------------------------
(* Any answer at all takes the breaker out of half-open.                   *)
LEMMA RecordSettles ==
    ASSUME RecordAlive \/ RecordTransient \/ RecordFatal
    PROVE  state' # "half-open"
  BY DEF RecordAlive, RecordTransient, RecordFatal, Trip, breaker

(* A half-open breaker always waits for a probe that is in flight, unless  *)
(* one threw: any answer at all takes the breaker out of half-open, and a  *)
(* probe leaves in no other way.                                           *)
THEOREM ProbeBehindHalfOpen == ClientSafety => []HalfOpenHasProbe
<1>1. ClientInit => HalfOpenHasProbe
  BY DEF ClientInit, HalfOpenHasProbe
<1>2. ClientTypeOK /\ HalfOpenHasProbe /\ [ClientNext]_clientVars => HalfOpenHasProbe'
  <2> SUFFICES ASSUME ClientTypeOK, HalfOpenHasProbe, [ClientNext]_clientVars
               PROVE  HalfOpenHasProbe'
    OBVIOUS
  <2> USE DEF HalfOpenHasProbe, ClientTypeOK
  <2>1. ASSUME NEW c \in Callers, Admit(c) PROVE HalfOpenHasProbe'
    BY <2>1 DEF Admit, breaker
  <2>2. ASSUME NEW c \in Callers, AdmitProbe(c) PROVE HalfOpenHasProbe'
    BY <2>2 DEF AdmitProbe, Enter
  <2>3. ASSUME NEW c \in Callers, Backoff(c) \/ Retry(c) \/ Pause(c)
        PROVE  HalfOpenHasProbe'
    <3>1. /\ state' = state /\ probe' = probe /\ lost' = lost
          /\ \A d \in Callers : at[d] # "idle" => at'[d] # "idle"
      BY <2>3 DEF Backoff, Retry, Pause, breaker
    <3>. QED
      BY <3>1
  <2>4. ASSUME NEW c \in Callers,
               EndTransient(c) \/ EndFatal(c) \/ EndMiss(c) \/ EndOk(c)
        PROVE  HalfOpenHasProbe'
    BY <2>4, RecordSettles DEF EndTransient, EndFatal, EndMiss, EndOk
  <2>5. ASSUME NEW c \in Callers, EndThrown(c) PROVE HalfOpenHasProbe'
    <3>1. \A d \in Callers \ {c} : at'[d] = at[d] /\ probe'[d] = probe[d]
      BY <2>5 DEF EndThrown, Leave
    <3>2. state' = state /\ lost' = (lost \/ probe[c])
      BY <2>5 DEF EndThrown, breaker
    <3>. QED
      BY <3>1, <3>2
  <2>6. CASE Tick
    BY <2>6 DEF Tick
  <2>7. CASE UNCHANGED clientVars
    BY <2>7 DEF clientVars, breaker
  <2>. QED
    BY <2>1, <2>2, <2>3, <2>4, <2>5, <2>6, <2>7 DEF ClientNext, Proceed
<1>. QED
  BY <1>1, <1>2, ClientTypeCorrect, PTL DEF ClientSafety

-----------------------------------------------------------------------------
(* Without a cooldown, no answer to a request that was in flight when the  *)
(* breaker opened ever closes it again.                                    *)
THEOREM NoReopening == ClientSafety => OpenForTheRun
<1> DEFINE A == state = "open" /\ ~hasCooldown => state' = "open"
<1>1. [ClientNext]_clientVars => [A]_clientVars
  <2> SUFFICES ASSUME ClientNext, state = "open", ~hasCooldown PROVE state' = "open"
    OBVIOUS
  <2>1. ASSUME NEW c \in Callers, Admit(c) \/ AdmitProbe(c) PROVE FALSE
    BY <2>1 DEF Admit, AdmitProbe, CooledDown
  <2>2. ASSUME NEW c \in Callers, Proceed(c) PROVE state' = "open"
    BY <2>2 DEF Proceed, Backoff, Retry, Pause, EndTransient, EndThrown, EndFatal,
                EndMiss, EndOk, RecordAlive, RecordTransient, RecordFatal, Trip, breaker
  <2>3. CASE Tick
    BY <2>3 DEF Tick
  <2>. QED
    BY <2>1, <2>2, <2>3 DEF ClientNext
<1>. QED
  BY <1>1, PTL DEF ClientSafety, OpenForTheRun

-----------------------------------------------------------------------------
(***************************************************************************)
(* The funnel and the lyrics of LRCLIB, for any number of tracks and runs. *)
(* What carries the proof is what a run knows of the rows it has read: a   *)
(* row's track still has no lyrics, unless another process wrote it since. *)
(***************************************************************************)

Voices == {None, "voice", "instrumental"}

LyricsTypeOK ==
    /\ lyrics \in [Tracks -> Sources \cup {None}]
    /\ status \in [Tracks -> Statuses]
    /\ source \in [Tracks -> Sources \cup {None}]
    /\ confidence \in [Tracks -> {None, "high", "low"}]
    /\ fetched \subseteq Tracks
    /\ voice \in [Tracks -> Voices]
    /\ todo \in [Processes -> SUBSET [track : Tracks, voice : Voices]]
    /\ touched \in [Processes -> SUBSET Tracks]
    /\ raced \subseteq Tracks

OneRowEach ==
    \A p \in Processes : \A r, s \in todo[p] : r.track = s.track => r = s

RowsOpen ==
    \A p \in Processes : \A r \in todo[p] : r.track \in touched[p] \/ lyrics[r.track] = None

LyricsInv == LyricsTypeOK /\ OneRowEach /\ RowsOpen /\ FunnelHolds

NoneApart ==
    /\ None \notin Sources /\ None \notin Terminal /\ None # "resolved"
    /\ None # "low-confidence" /\ None # "not-found"

(* LyricsAssumption keeps None apart from every value.                     *)
LEMMA Distinct == NoneApart
  BY LyricsAssumption DEF LyricsAssumption, NoneApart, Sources, Terminal

(* Every verdict of resolve: lyrics with a source, a doubt with a source,  *)
(* or a status alone.                                                      *)
RowVerdicts ==
    [status : {"resolved", "low-confidence"}, source : Sources] \cup
    [status : Terminal \cup {"not-found"}, source : {None}]

(* Unless the lookup throws, it ends in a verdict.                         *)
LEMMA ResolveGivesVerdict ==
  ASSUME NEW p \in Processes, NEW row, NEW lrclib \in LrclibAnswers, NEW genius \in GeniusAnswers(p),
         ~Throws(row, lrclib, genius)
  PROVE  ResolveLyrics(row, lrclib, genius) \in RowVerdicts
  <1>1. CASE lrclib \in {"match", "mismatch"}
    BY <1>1 DEF ResolveLyrics, GradeMatch, RowVerdicts, Sources
  <1>2. CASE lrclib = "instrumental"
    BY <1>2 DEF ResolveLyrics, Verdict, RowVerdicts, Terminal
  <1>3. CASE lrclib \in {"no-record", "no-lyrics"}
    <2>1. genius # "throws" \/ row.voice = "instrumental"
      BY <1>3 DEF Throws
    <2>2. CASE row.voice = "instrumental"
      BY <1>3, <2>2 DEF ResolveLyrics, Verdict, RowVerdicts, Terminal
    <2>3. CASE row.voice # "instrumental" /\ genius = "no-hit"
      BY <1>3, <2>3 DEF ResolveLyrics, Verdict, RowVerdicts, Terminal
    <2>4. CASE row.voice # "instrumental" /\ genius # "no-hit"
      BY <1>3, <2>4 DEF ResolveLyrics, GradeMatch, RowVerdicts, Sources
    <2> QED BY <2>2, <2>3, <2>4
  <1> QED BY <1>1, <1>2, <1>3 DEF LrclibAnswers, Throws

(* What the queries of Write leave, whatever the verdict: lyrics with      *)
(* their source and score, or the lyrics as they were and another status.  *)
LEMMA WriteLeaves ==
  ASSUME LyricsTypeOK, NEW t \in Tracks, NEW v \in RowVerdicts, WriteVerdict(t, v)
  PROVE  /\ lyrics' \in [Tracks -> Sources \cup {None}] /\ status' \in [Tracks -> Statuses]
         /\ source' \in [Tracks -> Sources \cup {None}]
         /\ confidence' \in [Tracks -> {None, "high", "low"}] /\ fetched' \subseteq Tracks
         /\ \A u \in Tracks \ {t} :
              /\ lyrics'[u] = lyrics[u] /\ status'[u] = status[u]
              /\ source'[u] = source[u] /\ confidence'[u] = confidence[u]
         /\ \/ /\ status'[t] = "resolved" /\ lyrics'[t] \in Sources
               /\ source'[t] = lyrics'[t] /\ confidence'[t] = "high"
            \/ status'[t] # "resolved" /\ lyrics'[t] = lyrics[t]
  <1>0. NoneApart
    BY Distinct
  <1>1. CASE v.status = "resolved"
    <2>1. v.source \in Sources
      BY <1>1 DEF RowVerdicts, Terminal
    <2>2. SetTrackLyrics(t, v)
      BY <1>0, <1>1, <2>1 DEF WriteVerdict, NoneApart
    <2> QED BY <2>1, <2>2 DEF SetTrackLyrics, WriteVerdict, LyricsTypeOK, Statuses
  <1>2. CASE v.status = "low-confidence"
    <2>1. v.source \in Sources
      BY <1>2 DEF RowVerdicts, Terminal
    <2>2. MarkLowConfidence(t, v)
      BY <1>0, <1>2, <2>1 DEF WriteVerdict, NoneApart
    <2> QED BY <2>1, <2>2 DEF MarkLowConfidence, WriteVerdict, LyricsTypeOK, Statuses
  <1>3. CASE v.status \notin {"resolved", "low-confidence"}
    <2>1. v.status \in Terminal \cup {"not-found"}
      BY <1>3 DEF RowVerdicts
    <2>2. SetLyricsStatus(t, v)
      BY <1>3 DEF WriteVerdict
    <2> QED BY <2>1, <2>2 DEF SetLyricsStatus, WriteVerdict, LyricsTypeOK, Statuses, Terminal
  <1> QED BY <1>1, <1>2, <1>3

-----------------------------------------------------------------------------
(* What one write means for the track of a row that is still to be settled *)
(* and for every other: the verdict is of that row, and a track it touches *)
(* late is remembered as raced.                                            *)
RowSettled(p, row) ==
    /\ row \in todo[p]
    /\ \E v \in RowVerdicts : WriteVerdict(row.track, v)
    /\ todo' = [todo EXCEPT ![p] = @ \ {row}]
    /\ touched' = Others(p, row.track)
    /\ raced' = IF row.track \in touched[p] THEN raced \cup {row.track} ELSE raced
    /\ UNCHANGED voice

(* Settle, as a step that settles a row with a verdict.                    *)
LEMMA SettlesRow ==
  ASSUME NEW p \in Processes, SettleRow(p)
  PROVE  \E row \in todo[p] : RowSettled(p, row)
  <1>1. PICK row \in todo[p], lrclib \in LrclibAnswers, genius \in GeniusAnswers(p) :
           /\ ~Throws(row, lrclib, genius)
           /\ WriteVerdict(row.track, ResolveLyrics(row, lrclib, genius))
           /\ todo' = [todo EXCEPT ![p] = @ \ {row}]
           /\ touched' = Others(p, row.track)
           /\ raced' = IF row.track \in touched[p] THEN raced \cup {row.track} ELSE raced
    BY DEF SettleRow
  <1>2. ResolveLyrics(row, lrclib, genius) \in RowVerdicts
    BY <1>1, ResolveGivesVerdict
  <1>3. UNCHANGED voice
    BY DEF SettleRow
  <1> QED BY <1>1, <1>2, <1>3 DEF RowSettled

(* The invariant holds at the start.                                       *)
LEMMA LyricsInitially == LyricsInit => LyricsInv
  <1> SUFFICES ASSUME LyricsInit PROVE LyricsInv
    OBVIOUS
  <1>1. LyricsTypeOK
    BY DEF LyricsInit, LyricsTypeOK, Statuses, Voices
  <1>2. OneRowEach /\ RowsOpen
    BY DEF LyricsInit, OneRowEach, RowsOpen
  <1>3. FunnelHolds
    BY Distinct DEF LyricsInit, FunnelHolds, NoneApart
  <1> QED BY <1>1, <1>2, <1>3 DEF LyricsInv

(* A run reads its rows when their tracks have no lyrics.                  *)
LEMMA StartRunKeeps ==
  ASSUME LyricsInv, NEW p \in Processes, StartRun(p)
  PROVE  LyricsInv'
  <1> USE DEF LyricsInv
  <1>1. PICK aged \in SUBSET fetched :
           todo' = [todo EXCEPT ![p] = {Row(t) : t \in Candidates(p, aged)}]
    BY DEF StartRun
  <1>2. /\ UNCHANGED track /\ UNCHANGED <<voice, raced>>
        /\ touched' = [touched EXCEPT ![p] = {}]
    BY DEF StartRun
  <1>3. \A t \in Candidates(p, aged) : t \in Tracks /\ lyrics[t] = None
    BY DEF Candidates
  <1>4. \A t \in Candidates(p, aged) : Row(t) \in [track : Tracks, voice : Voices] /\ Row(t).track = t
    BY <1>3 DEF Row, LyricsTypeOK
  <1>5. LyricsTypeOK'
    BY <1>1, <1>2, <1>4 DEF LyricsTypeOK, track
  <1>6. OneRowEach'
    BY <1>1, <1>4 DEF OneRowEach, LyricsTypeOK
  <1>7. RowsOpen'
    BY <1>1, <1>2, <1>3, <1>4 DEF RowsOpen, LyricsTypeOK, track
  <1>8. FunnelHolds'
    BY <1>2 DEF FunnelHolds, track
  <1> QED BY <1>5, <1>6, <1>7, <1>8

(* Settling a row is where the funnel could break: the write replaces what *)
(* the track has become, by a verdict on what it was.                      *)
LEMMA SettleRowKeeps ==
  ASSUME LyricsInv, NEW p \in Processes, NEW row, RowSettled(p, row)
  PROVE  LyricsInv'
  <1> USE DEF LyricsInv
  <1> DEFINE t == row.track
  <1>1. t \in Tracks /\ row \in todo[p]
    BY DEF RowSettled, LyricsTypeOK
  <1>2. PICK v \in RowVerdicts : WriteVerdict(t, v)
    BY DEF RowSettled
  <1>3. /\ lyrics' \in [Tracks -> Sources \cup {None}] /\ status' \in [Tracks -> Statuses]
        /\ source' \in [Tracks -> Sources \cup {None}]
        /\ confidence' \in [Tracks -> {None, "high", "low"}] /\ fetched' \subseteq Tracks
    BY <1>1, <1>2, WriteLeaves
  <1>4. \A u \in Tracks \ {t} :
           /\ lyrics'[u] = lyrics[u] /\ status'[u] = status[u]
           /\ source'[u] = source[u] /\ confidence'[u] = confidence[u]
    BY <1>1, <1>2, WriteLeaves
  <1>5. \/ /\ status'[t] = "resolved" /\ lyrics'[t] \in Sources
           /\ source'[t] = lyrics'[t] /\ confidence'[t] = "high"
        \/ status'[t] # "resolved" /\ lyrics'[t] = lyrics[t]
    BY <1>1, <1>2, WriteLeaves
  <1>6. /\ todo' = [todo EXCEPT ![p] = @ \ {row}]
        /\ touched' = [q \in Processes |-> IF q = p THEN touched[q] ELSE touched[q] \cup {t}]
        /\ raced' = IF t \in touched[p] THEN raced \cup {t} ELSE raced
        /\ UNCHANGED voice
    BY DEF RowSettled, Others
  <1>7. LyricsTypeOK'
    BY <1>1, <1>3, <1>6 DEF LyricsTypeOK
  <1>8. OneRowEach'
    BY <1>6 DEF OneRowEach, LyricsTypeOK
  <1>9. RowsOpen'
    <2> SUFFICES ASSUME NEW q \in Processes, NEW r \in todo'[q]
                 PROVE  r.track \in touched'[q] \/ lyrics'[r.track] = None
      BY DEF RowsOpen
    <2>1. r \in todo[q] /\ r.track \in Tracks
      BY <1>6 DEF LyricsTypeOK
    <2>2. CASE r.track # t
      BY <1>4, <1>6, <2>1, <2>2 DEF RowsOpen
    <2>3. CASE r.track = t
      <3>1. q # p
        BY <1>1, <1>6, <2>1, <2>3 DEF OneRowEach, LyricsTypeOK
      <3> QED BY <1>6, <2>3, <3>1
    <2> QED BY <2>2, <2>3
  <1>10. FunnelHolds'
    <2> SUFFICES ASSUME NEW u \in Tracks, u \notin raced'
                 PROVE  /\ status'[u] = "resolved" <=> lyrics'[u] # None
                        /\ lyrics'[u] # None => source'[u] = lyrics'[u] /\ confidence'[u] = "high"
      BY DEF FunnelHolds
    <2>1. u \notin raced
      BY <1>6
    <2>2. CASE u # t
      BY <1>4, <2>1, <2>2 DEF FunnelHolds
    <2>3. CASE u = t
      <3>1. lyrics[t] = None
        BY <1>1, <1>6, <2>3 DEF RowsOpen
      <3>2. None \notin Sources
        BY Distinct DEF NoneApart
      <3> QED BY <1>5, <2>3, <3>1, <3>2
    <2> QED BY <2>2, <2>3
  <1> QED BY <1>7, <1>8, <1>9, <1>10

(* A run that drops a row, or ends, only has fewer of them.                *)
LEMMA FewerRowsKeep ==
  ASSUME LyricsInv, NEW p \in Processes, Drop(p) \/ EndRun(p)
  PROVE  LyricsInv'
  <1> USE DEF LyricsInv
  <1>1. PICK S \in SUBSET todo[p] : todo' = [todo EXCEPT ![p] = S]
    BY DEF Drop, EndRun, LyricsTypeOK
  <1>2. UNCHANGED track /\ UNCHANGED <<voice, touched, raced>>
    BY DEF Drop, EndRun
  <1>3. LyricsTypeOK'
    BY <1>1, <1>2 DEF LyricsTypeOK, track
  <1>4. OneRowEach'
    BY <1>1 DEF OneRowEach, LyricsTypeOK
  <1>5. RowsOpen'
    BY <1>1, <1>2 DEF RowsOpen, LyricsTypeOK, track
  <1>6. FunnelHolds'
    BY <1>2 DEF FunnelHolds, track
  <1> QED BY <1>3, <1>4, <1>5, <1>6

(* Clearing takes the five properties of a track together.                 *)
LEMMA ClearKeeps ==
  ASSUME LyricsInv, ClearGeniusLyrics
  PROVE  LyricsInv'
  <1> USE DEF LyricsInv
  <1>1. /\ lyrics' = [u \in Tracks |-> IF source[u] = "genius" THEN None ELSE lyrics[u]]
        /\ status' = [u \in Tracks |-> IF source[u] = "genius" THEN None ELSE status[u]]
        /\ source' = [u \in Tracks |-> IF source[u] = "genius" THEN None ELSE source[u]]
        /\ confidence' = [u \in Tracks |-> IF source[u] = "genius" THEN None ELSE confidence[u]]
        /\ fetched' \subseteq fetched
    BY DEF ClearGeniusLyrics, Cleared, FromGenius
  <1>2. /\ touched' = [p \in Processes |-> touched[p] \cup FromGenius]
        /\ UNCHANGED <<voice, todo, raced>>
    BY DEF ClearGeniusLyrics
  <1>3. LyricsTypeOK'
    BY <1>1, <1>2 DEF LyricsTypeOK, Statuses, FromGenius
  <1>4. OneRowEach'
    BY <1>2 DEF OneRowEach
  <1>5. RowsOpen'
    BY <1>1, <1>2 DEF RowsOpen, LyricsTypeOK
  <1>6. FunnelHolds'
    BY <1>1, <1>2, Distinct DEF FunnelHolds, NoneApart, LyricsTypeOK
  <1> QED BY <1>3, <1>4, <1>5, <1>6

(* The steps that write no track and read none.                            *)
LEMMA LyricsRestKeeps ==
  ASSUME LyricsInv, RequestClear \/ Classify \/ UNCHANGED lyricsVars
  PROVE  LyricsInv'
  <1> USE DEF LyricsInv
  <1>1. UNCHANGED track /\ UNCHANGED <<todo, touched, raced>>
    BY DEF RequestClear, Classify, lyricsVars
  <1>2. voice' \in [Tracks -> Voices]
    BY DEF RequestClear, Classify, lyricsVars, LyricsTypeOK, Voices
  <1>3. LyricsTypeOK'
    BY <1>1, <1>2 DEF LyricsTypeOK, track
  <1>4. OneRowEach' /\ RowsOpen' /\ FunnelHolds'
    BY <1>1 DEF OneRowEach, RowsOpen, FunnelHolds, track
  <1> QED BY <1>3, <1>4

(* Every step keeps the invariant.                                         *)
LEMMA LyricsInductive == LyricsInv /\ [LyricsNext]_lyricsVars => LyricsInv'
  <1> SUFFICES ASSUME LyricsInv, [LyricsNext]_lyricsVars PROVE LyricsInv'
    OBVIOUS
  <1>1. CASE \E p \in Processes : StartRun(p)
    BY <1>1, StartRunKeeps
  <1>2. CASE \E p \in Processes : SettleRow(p)
    BY <1>2, SettlesRow, SettleRowKeeps
  <1>3. CASE \E p \in Processes : Drop(p) \/ EndRun(p)
    BY <1>3, FewerRowsKeep
  <1>4. CASE ClearGeniusLyrics
    BY <1>4, ClearKeeps
  <1>5. CASE RequestClear \/ Classify \/ UNCHANGED lyricsVars
    BY <1>5, LyricsRestKeeps
  <1> QED BY <1>1, <1>2, <1>3, <1>4, <1>5 DEF LyricsNext

(* The invariant holds in every state.                                     *)
LEMMA LyricsInvariant == LyricsSpec => []LyricsInv
  BY LyricsInitially, LyricsInductive, PTL DEF LyricsSpec

-----------------------------------------------------------------------------
(* Every state the lyrics pipeline reaches keeps its types.                *)
THEOREM LyricsTypeCorrect == LyricsSpec => []LyricsTypeOK
  <1>1. LyricsInv => LyricsTypeOK
    BY DEF LyricsInv
  <1> QED BY <1>1, LyricsInvariant, PTL

(* A track is resolved exactly when it has lyrics, and says of them the    *)
(* source and the score they came with, for any number of tracks and runs: *)
(* setTrackLyrics, markTrackLowConfidence, setLyricsStatus and the clear   *)
(* keep the five properties together.                                      *)
THEOREM Funnel == LyricsSpec => []FunnelHolds
  <1>1. LyricsInv => FunnelHolds
    BY DEF LyricsInv
  <1> QED BY <1>1, LyricsInvariant, PTL

(* No step takes the lyrics of LRCLIB from a track that no write raced:    *)
(* the clear selects by a source that is that of the text.                 *)
THEOREM LrclibKept == LyricsSpec => LrclibLyricsKept
  <1>1. ASSUME LyricsInv, [LyricsNext]_lyricsVars
        PROVE  [\A t \in Tracks \ raced' : lyrics[t] = "lrclib" => lyrics'[t] = "lrclib"]_lyricsVars
    <2> SUFFICES ASSUME NEW t \in Tracks, t \notin raced', lyrics[t] = "lrclib"
                 PROVE  lyrics'[t] = "lrclib"
      OBVIOUS
    <2> USE <1>1 DEF LyricsInv
    <2>1. "lrclib" # None
      BY Distinct DEF NoneApart, Sources
    <2>2. CASE \E p \in Processes : SettleRow(p)
      <3>1. PICK p \in Processes : \E row \in todo[p] : RowSettled(p, row)
        BY <2>2, SettlesRow
      <3>2. PICK row \in todo[p] : RowSettled(p, row)
        BY <3>1
      <3>3. row.track \in Tracks
        BY DEF LyricsTypeOK
      <3>4. row.track # t
        BY <2>1, <3>2 DEF RowSettled, RowsOpen
      <3>5. PICK v \in RowVerdicts : WriteVerdict(row.track, v)
        BY <3>2 DEF RowSettled
      <3> QED BY <3>3, <3>4, <3>5, WriteLeaves
    <2>3. CASE ClearGeniusLyrics
      <3>1. t \notin raced
        BY <2>3 DEF ClearGeniusLyrics
      <3>2. source[t] = "lrclib"
        BY <2>1, <3>1 DEF FunnelHolds
      <3> QED BY <2>3, <3>2 DEF ClearGeniusLyrics, Cleared, FromGenius
    <2>4. CASE \E p \in Processes : StartRun(p) \/ Drop(p) \/ EndRun(p)
      BY <2>4 DEF StartRun, Drop, EndRun, track
    <2>5. CASE RequestClear \/ Classify \/ UNCHANGED lyricsVars
      BY <2>5 DEF RequestClear, Classify, lyricsVars, track
    <2> QED BY <2>2, <2>3, <2>4, <2>5 DEF LyricsNext
  <1> QED BY <1>1, LyricsInvariant, PTL DEF LyricsSpec, LrclibLyricsKept

-----------------------------------------------------------------------------
(****************************************************************************)
(* Why a run ends: no step leaves it as far from its end as it was, and no *)
(* pass waits for a worker that has nothing to do.                         *)
(****************************************************************************)

(* The passes and pauses before a run, and in a pass three steps for an    *)
(* item in the queue (it is drawn, resolved, settled), two for one that is *)
(* being resolved and one for one that is being written.                   *)
PassesLeft ==
    CASE phase = "select" -> 2 * MaxRounds + 3
      [] phase = "main" -> 2 * MaxRounds + 2
      [] phase = "backoff" -> 2 * (MaxRounds - round) + 2
      [] phase = "round" -> 2 * (MaxRounds - round) + 1
      [] OTHER -> 0

(* The workers that hold an item, and those that have its verdict.         *)
Busy == {w \in Workers : hand[w] # Nothing}
Writing == {w \in Workers : hand[w].at \in Verdicts}

ItemSteps == 3 * (Len(queue) + 1 - next) + 2 * Cardinality(Busy) - Cardinality(Writing)

(* Both are numbers that can only fall so often.                           *)
RunDistances == PassesLeft \in Nat /\ ItemSteps \in Nat

(* A step of the run or of a worker brings the end nearer: it makes the    *)
(* passes fewer, or in the same pass the steps. The shutdown signal        *)
(* changes neither, and fires once.                                        *)
RunNearer ==
    \/ PassesLeft' < PassesLeft
    \/ PassesLeft' = PassesLeft /\ ItemSteps' < ItemSteps
    \/ UNCHANGED <<PassesLeft, ItemSteps>> /\ ~aborted /\ aborted'

(* A pass that is not drained has a worker that can go on, and a run that  *)
(* is over has left none with an item.                                     *)
RunGoesOn ==
    /\ (Drains /\ ~Drained) => \E w \in Workers :
         \/ hand[w].at \in {"resolving"} \cup Verdicts
         \/ hand[w] = Nothing /\ next <= Len(queue) /\ ~aborted
    /\ phase \in {"done", "unselected"} => \A w \in Workers : hand[w] = Nothing

(* The index the workers share stops behind the last item of the pass.     *)
IndexInRange == next <= Len(queue) + 1

(* It does in every pass, the rounds over fewer items included.            *)
LEMMA IndexStays == Spec => []IndexInRange
<1>1. Init => IndexInRange
  BY DEF Init, IndexInRange
<1>2. IInv /\ IndexInRange /\ [Next]_vars => IndexInRange'
  <2> SUFFICES ASSUME IInv, IndexInRange, [Next]_vars PROVE IndexInRange'
    OBVIOUS
  <2> USE DEF IndexInRange
  <2>1. CASE Select
    <3>1. Len(queue') \in Nat /\ next' = 1
      <4>1. queue' = [i \in 1 .. Total |-> i] /\ Total \in Nat
        BY <2>1, EnrichmentRunAssumption DEF Select, Items, EnrichmentRunAssumption
      <4>. QED
        BY <2>1, <4>1 DEF Select, IInv, AtSelect
    <3>. QED
      BY <3>1
  <2>2. CASE SelectFails \/ MainEnds \/ RoundEnds \/ Abort \/ UNCHANGED vars
    BY <2>2 DEF SelectFails, MainEnds, RoundEnds, Abort, vars, pass
  <2>3. CASE BackoffEnds
    BY <2>3 DEF BackoffEnds, IInv, TypeOK
  <2>4. ASSUME NEW w \in Workers, Work(w) PROVE IndexInRange'
    BY <2>4 DEF Work, Draw, Resolve, ResolveUnhandled, ResolveThrows, Write, WriteThrows,
                Settle, IInv, TypeOK
  <2>. QED
    BY <2>1, <2>2, <2>3, <2>4 DEF Next, Advance
<1>. QED
  BY <1>1, <1>2, Invariant, PTL DEF Spec, Safety

(* The workers are finitely many.                                          *)
LEMMA WorkersFinite ==
    ASSUME NEW S \in SUBSET Workers
    PROVE  IsFiniteSet(S) /\ Cardinality(S) \in Nat
<1>1. IsFiniteSet(Workers)
  <2> DEFINE n == IF Concurrency < Total THEN Concurrency ELSE Total
  <2>1. n \in Nat
    BY EnrichmentRunAssumption DEF EnrichmentRunAssumption
  <2>. HIDE DEF n
  <2>2. IsFiniteSet(1 .. n)
    BY <2>1, FS_Interval
  <2>. QED
    BY <2>2 DEF Workers, n
<1>. QED
  BY <1>1, FS_Subset, FS_CardinalityType

(* They are numbers: who writes holds an item.                             *)
LEMMA RunDistancesAreNat == IInv /\ IndexInRange => RunDistances
<1> SUFFICES ASSUME IInv, IndexInRange PROVE RunDistances
  OBVIOUS
<1>1. PassesLeft \in Nat
  BY EnrichmentRunAssumption DEF PassesLeft, IInv, TypeOK, Rounds, EnrichmentRunAssumption
<1>2. Len(queue) + 1 - next \in Nat
  BY DEF IInv, TypeOK, IndexInRange
<1>3. Writing \subseteq Busy
  BY DEF Writing, Busy, Nothing, Verdicts
<1>4. /\ IsFiniteSet(Busy) /\ Cardinality(Busy) \in Nat /\ Cardinality(Writing) \in Nat
      /\ Cardinality(Writing) <= Cardinality(Busy)
  <2>1. Busy \subseteq Workers /\ Writing \subseteq Workers
    BY DEF Busy, Writing
  <2>2. IsFiniteSet(Busy) /\ Cardinality(Busy) \in Nat /\ Cardinality(Writing) \in Nat
    BY <2>1, WorkersFinite
  <2>. QED
    BY <1>3, <2>2, FS_Subset
<1>. QED
  BY <1>1, <1>2, <1>4 DEF RunDistances, ItemSteps

(* A step of a worker takes one from the steps of the pass, or more.       *)
LEMMA WorkNearer ==
    ASSUME IInv, NEW w \in Workers, Work(w)
    PROVE  PassesLeft' = PassesLeft /\ ItemSteps' < ItemSteps
<1>1. PassesLeft' = PassesLeft
  BY DEF Work, Draw, Resolve, ResolveUnhandled, ResolveThrows, Write, WriteThrows,
         Settle, PassesLeft
<1>2. /\ IsFiniteSet(Busy) /\ Cardinality(Busy) \in Nat
      /\ IsFiniteSet(Writing) /\ Cardinality(Writing) \in Nat
  <2>1. Busy \subseteq Workers /\ Writing \subseteq Workers
    BY DEF Busy, Writing
  <2>. QED
    BY <2>1, WorkersFinite
<1>3. Len(queue) \in Nat /\ next \in Nat
  BY DEF IInv, TypeOK
<1>4. hand \in [Workers -> {Nothing} \cup Hands] /\ Nothing.at = "none"
  BY DEF IInv, TypeOK, Nothing
<1>5. CASE Draw(w)
  <2>1. hand'[w].at = "resolving" /\ \A v \in Workers \ {w} : hand'[v] = hand[v]
    BY <1>4, <1>5 DEF Draw
  <2>2. Busy' = Busy \cup {w} /\ w \notin Busy /\ Writing' = Writing
    BY <1>4, <1>5, <2>1 DEF Draw, Busy, Writing, Verdicts
  <2>3. Cardinality(Busy') = Cardinality(Busy) + 1
    BY <1>2, <2>2, FS_AddElement
  <2>. QED
    BY <1>1, <1>2, <1>3, <1>5, <2>2, <2>3 DEF Draw, ItemSteps
<1>6. CASE Resolve(w)
  <2>1. /\ hand[w].at = "resolving" /\ hand'[w].at \in Verdicts
        /\ \A v \in Workers \ {w} : hand'[v] = hand[v]
    BY <1>4, <1>6, EnrichmentRunAssumption DEF Resolve, EnrichmentRunAssumption, Hands
  <2>2. Writing' = Writing \cup {w} /\ w \notin Writing /\ Busy' = Busy
    BY <1>4, <2>1 DEF Busy, Writing, Verdicts
  <2>3. Cardinality(Writing') = Cardinality(Writing) + 1
    BY <1>2, <2>2, FS_AddElement
  <2>. QED
    BY <1>1, <1>2, <1>3, <1>6, <2>2, <2>3 DEF Resolve, ItemSteps
<1>7. ASSUME NEW o, Settle(w, o), hand[w].at \in {"resolving"} \cup Verdicts
      PROVE  ItemSteps' < ItemSteps
  <2>1. hand'[w] = Nothing /\ \A v \in Workers \ {w} : hand'[v] = hand[v]
    BY <1>4, <1>7 DEF Settle
  <2>2. Busy' = Busy \ {w} /\ w \in Busy /\ Writing' = Writing \ {w}
    BY <1>4, <1>7, <2>1 DEF Busy, Writing, Verdicts
  <2>3. Cardinality(Busy') = Cardinality(Busy) - 1
    BY <1>2, <2>2, FS_RemoveElement
  <2>4. \/ w \in Writing /\ Cardinality(Writing') = Cardinality(Writing) - 1
        \/ Cardinality(Writing') = Cardinality(Writing)
    <3>1. CASE w \in Writing
      BY <1>2, <2>2, <3>1, FS_RemoveElement
    <3>2. CASE w \notin Writing
      BY <2>2, <3>2
    <3>. QED
      BY <3>1, <3>2
  <2>5. UNCHANGED <<queue, next>>
    BY <1>7 DEF Settle
  <2>. QED
    BY <1>2, <1>3, <2>3, <2>4, <2>5 DEF ItemSteps
<1>. QED
  BY <1>1, <1>5, <1>6, <1>7 DEF Work, ResolveUnhandled, ResolveThrows, Write, WriteThrows

(* Every step of runEnrichment and of its workers brings its end nearer,   *)
(* for any number of items, workers and rounds and whatever each item      *)
(* comes to; a pass that is not drained has a worker that can go on; and a *)
(* run that is over has left no item in a worker's hands. No sweep goes    *)
(* round for ever and no worker is waited for in vain: that a run ends     *)
(* needs only that requests and writes do.                                 *)
THEOREM RunComesToItsEnd ==
    Spec => [](RunDistances /\ RunGoesOn) /\ [][RunNearer]_vars
<1>1. IInv /\ IndexInRange => RunDistances
  BY RunDistancesAreNat
<1>2. IInv => RunGoesOn
  <2> SUFFICES ASSUME IInv PROVE RunGoesOn
    OBVIOUS
  <2>1. ASSUME phase \in {"done", "unselected"}, NEW w \in Workers PROVE hand[w] = Nothing
    BY <2>1 DEF IInv, PlaceCountsTries, Drains
  <2>2. ASSUME Drains, ~Drained
        PROVE  \E w \in Workers :
                 \/ hand[w].at \in {"resolving"} \cup Verdicts
                 \/ hand[w] = Nothing /\ next <= Len(queue) /\ ~aborted
    <3>1. CASE \E w \in Workers : hand[w] # Nothing
      <4>1. PICK w \in Workers : hand[w] # Nothing
        BY <3>1
      <4>2. hand[w] \in Hands
        BY <4>1 DEF IInv, TypeOK
      <4>3. hand[w].at \in {"resolving"} \cup Verdicts
        BY <4>2 DEF Hands
      <4>. QED
        BY <4>3
    <3>2. CASE \A w \in Workers : hand[w] = Nothing
      <4>1. next <= Len(queue) /\ ~aborted
        BY <2>2, <3>2 DEF Drained, IInv, TypeOK
      <4>2. queue[next] \in Items
        BY <4>1 DEF IInv, TypeOK
      <4>3. 1 \in Workers
        BY <4>2, EnrichmentRunAssumption DEF Items, Workers, EnrichmentRunAssumption
      <4>. QED
        BY <3>2, <4>1, <4>3
    <3>. QED
      BY <3>1, <3>2
  <2>. QED
    BY <2>1, <2>2 DEF RunGoesOn
<1>3. IInv /\ RunDistances /\ [Next]_vars => [RunNearer]_vars
  <2> SUFFICES ASSUME IInv, RunDistances, Next PROVE RunNearer
    OBVIOUS
  <2> USE EnrichmentRunAssumption DEF EnrichmentRunAssumption, IInv, TypeOK, Rounds
  <2>1. CASE Select \/ SelectFails
    BY <2>1 DEF Select, SelectFails, PassesLeft, RunNearer
  <2>2. CASE MainEnds
    BY <2>2 DEF MainEnds, WorthSweeping, Finish, PassesLeft, RunNearer
  <2>3. CASE BackoffEnds
    BY <2>3 DEF BackoffEnds, Finish, PassesLeft, RunNearer
  <2>4. CASE RoundEnds
    BY <2>4 DEF RoundEnds, Finish, PassesLeft, RunNearer
  <2>5. CASE Abort
    BY <2>5 DEF Abort, pass, PassesLeft, ItemSteps, Busy, Writing, RunNearer
  <2>6. ASSUME NEW w \in Workers, Work(w) PROVE RunNearer
    BY <2>6, WorkNearer DEF RunNearer
  <2>. QED
    BY <2>1, <2>2, <2>3, <2>4, <2>5, <2>6 DEF Next, Advance
<1>. QED
  BY <1>1, <1>2, <1>3, Invariant, IndexStays, PTL DEF Spec, Safety

-----------------------------------------------------------------------------
(****************************************************************************)
(* Why a call ends: the retries of a call are its own.                     *)
(****************************************************************************)

(* The steps a call may still take: two for every attempt it has left, and *)
(* what is left of this one.                                               *)
CallSteps(c) ==
    CASE at[c] = "fetching" -> 2 * (MaxRetries - attempt[c]) + 2
      [] at[c] \in {"waiting", "pausing"} -> 2 * (MaxRetries - attempt[c]) + 1
      [] OTHER -> 0

(* Whatever happens, a call that is open stays where it is or comes nearer *)
(* to its end.                                                             *)
CallNearer(c) ==
    at[c] # "idle" => UNCHANGED <<at[c], attempt[c]>> \/ CallSteps(c)' < CallSteps(c)

(* Every call through createRateLimitedFetch ends after a number of steps  *)
(* its retry budget bounds, whatever the source answers and whatever the   *)
(* other callers and the breaker do meanwhile: no other call, no trip and  *)
(* no recovery gives an open call more attempts or sets it back. That it   *)
(* ends needs only that requests and sleeps do.                            *)
THEOREM CallsComeToAnEnd ==
    ClientSafety => /\ [](\A c \in Callers : CallSteps(c) \in 0 .. 2 * MaxRetries + 2)
                    /\ [][\A c \in Callers : CallNearer(c)]_clientVars
<1> USE SourceClientAssumption DEF SourceClientAssumption
<1>1. ClientTypeOK => \A c \in Callers : CallSteps(c) \in 0 .. 2 * MaxRetries + 2
  BY DEF ClientTypeOK, CallSteps
<1>2. BudgetTypes /\ [ClientNext]_clientVars => [\A c \in Callers : CallNearer(c)]_clientVars
  <2> SUFFICES ASSUME BudgetTypes, ClientNext, NEW c \in Callers PROVE CallNearer(c)
    OBVIOUS
  <2>1. ASSUME NEW d \in Callers, d # c, Admit(d) \/ AdmitProbe(d) \/ Proceed(d)
        PROVE  UNCHANGED <<at[c], attempt[c]>>
    BY <2>1 DEF BudgetTypes, ClientTypeOK, Admit, AdmitProbe, Enter, Proceed, Backoff, Retry,
                Pause, EndTransient, EndThrown, EndFatal, EndMiss, EndOk, Leave
  <2>2. CASE Backoff(c) \/ Retry(c) \/ Pause(c)
    BY <2>2 DEF BudgetTypes, ClientTypeOK, WaitsWithinBudget, Backoff, Retry, Pause,
                CallNearer, CallSteps
  <2>3. CASE EndTransient(c) \/ EndThrown(c) \/ EndFatal(c) \/ EndMiss(c) \/ EndOk(c)
    <3>1. at[c] \in {"fetching", "pausing"} /\ at'[c] = "idle"
      BY <2>3 DEF BudgetTypes, ClientTypeOK, EndTransient, EndThrown, EndFatal, EndMiss,
                  EndOk, Leave
    <3>. QED
      BY <3>1 DEF BudgetTypes, ClientTypeOK, CallNearer, CallSteps
  <2>4. CASE Admit(c) \/ AdmitProbe(c)
    BY <2>4 DEF Admit, AdmitProbe, CallNearer
  <2>5. CASE Tick
    BY <2>5 DEF Tick, CallNearer
  <2>. QED
    BY <2>1, <2>2, <2>3, <2>4, <2>5 DEF ClientNext, Proceed, CallNearer
<1>. QED
  BY <1>1, <1>2, ClientTypeCorrect, BudgetTypesInit, BudgetTypesNext, PTL DEF ClientSafety

=============================================================================
