------------------------- MODULE TrackEnrichmentProofs -------------------------
(***************************************************************************)
(* The track stages, for any tracks, releases, recordings and batch sizes  *)
(* and any number of runs and resets.  What carries the proof is that a    *)
(* run in progress holds each track it selected in one place only, and     *)
(* that what made the track a candidate still holds there when the write   *)
(* comes, whatever the other pipelines and the resets did meanwhile.       *)
(***************************************************************************)
EXTENDS TrackEnrichment, FiniteSetTheorems, TLAPS

Source == Recordings \cup {None}
Answers == [track : Tracks, data : Source]
Counters == [selected : Int, processed : Int, skipped : Int, exhausted : Int, failed : Int]
Grouped == Linkers \cup Batched

TypeOK ==
    /\ mbid \in [Tracks -> Source]
    /\ attempted \in [Pipelines -> SUBSET Tracks]
    /\ links \in [Linkers -> [Tracks -> SUBSET Recordings]]
    /\ features \in [Tracks -> Source]
    /\ exhausted \in [Tracks -> Source]
    /\ deezer \in [Tracks -> Source]
    /\ running \in [Pipelines -> BOOLEAN]
    /\ todo \in [Pipelines -> SUBSET (Releases \cup Groups)]
    /\ todo["musicbrainz"] \subseteq Releases
    /\ \A p \in Grouped : todo[p] \subseteq Groups
    /\ marking \subseteq Groups
    /\ pending \subseteq Answers
    /\ books \in [Batched -> Counters]
    /\ aborted \in BOOLEAN
    /\ overlapped \subseteq Cascade
    /\ starts \in Nat

(* A pipeline that has no run in progress holds nothing. *)
Idle ==
    /\ \A p \in Pipelines : ~running[p] => todo[p] = {}
    /\ ~running["acousticbrainz"] => marking = {}
    /\ ~running["deezer"] => pending = {}

Apart(gs) == \A g, h \in gs : g # h => g.tracks \cap h.tracks = {}

(* A run holds a track in one place, once. *)
HeldOnce ==
    /\ \A p \in Grouped : Apart(todo[p])
    /\ Apart(marking) /\ Fanned(todo["acousticbrainz"]) \cap Fanned(marking) = {}
    /\ \A a, b \in pending : a.track = b.track => a = b
    /\ \A a \in pending : a.track \notin Fanned(todo["deezer"])

(* A track that waits in a linking stage has no link of that stage, and    *)
(* one that is linked is of one recording.                                 *)
LinksOnce ==
    \A k \in Linkers :
        /\ \A t \in Tracks : \A r, s \in links[k][t] : r = s
        /\ \A t \in Fanned(todo[k]) : links[k][t] = {}

(* One that waits for AcousticBrainz has neither features nor the marker,  *)
(* and those the marker is due to still have no features.                  *)
StillWithout ==
    /\ \A t \in Fanned(todo["acousticbrainz"]) : features[t] = None /\ exhausted[t] = None
    /\ \A t \in Fanned(marking) : exhausted[t] = None
    /\ \A t \in Fanned(Absent(marking)) : features[t] = None

MbidIsStamped == \A t \in Tracks : mbid[t] # None => t \in attempted["musicbrainz"]

(* The tracks a run has selected and not settled.                          *)
Held(p) ==
    {t \in Tracks :
        \/ t \in Fanned(todo[p])
        \/ p = "acousticbrainz" /\ t \in Fanned(marking)
        \/ p = "deezer" /\ \E a \in pending : a.track = t}

(* What a run holds was resolved and not reset since, unless the reset     *)
(* fell into that run.                                                     *)
HeldIsResolved == \A p \in Cascade \ overlapped : Held(p) \subseteq attempted["musicbrainz"]

IInv ==
    /\ TypeOK /\ Idle /\ HeldOnce
    /\ LinksOnce
    /\ StillWithout /\ ExhaustedIsConfirmed
    /\ MbidIsStamped /\ HeldIsResolved /\ CascadeComplete
    /\ BooksBalance

-----------------------------------------------------------------------------
(* The steps by kind: the four linking stages differ in what they link.    *)
Lacking(k) == {t \in Tracks : links[k][t] = {}}

LinkerActs(k) ==
    \/ RunLinker(k, Lacking(k))
    \/ \E g \in Drawn(k) : \E linked \in SUBSET g.tracks : Merge(k, g, linked)

(* Every step is one of a stage, one of a reset, or the process stopping.  *)
LEMMA StepKinds ==
  ASSUME Next
  PROVE  \/ EnrichTrackMusicBrainz \/ \E k \in Linkers : LinkerActs(k)
         \/ EnrichTrackAcousticBrainz \/ EnrichTrackDeezer
         \/ ResetTrackMusicBrainz \/ \E k \in Linkers : Unlink(k)
         \/ ResetTrackAcousticBrainz \/ ResetTrackDeezer
         \/ Abort \/ Restart
  <1>1. "works" \in Linkers /\ "artists" \in Linkers /\ "places" \in Linkers /\ "lineage" \in Linkers
    BY DEF Linkers
  <1>2. EnrichTrackWorks => LinkerActs("works")
    BY DEF EnrichTrackWorks, LinkerActs, MergeTrackWorks, WithoutWork, Lacking
  <1>3. EnrichTrackRecordingArtists => LinkerActs("artists")
    BY DEF EnrichTrackRecordingArtists, LinkerActs, MergeRecordingArtistCredits, WithoutMbCredit, Lacking
  <1>4. EnrichTrackRecordingPlaces => LinkerActs("places")
    BY DEF EnrichTrackRecordingPlaces, LinkerActs, MergeRecordingPlaces, WithoutMbStudio, Lacking
  <1>5. EnrichTrackRecordingLineage => LinkerActs("lineage")
    BY DEF EnrichTrackRecordingLineage, LinkerActs, MergeRecordingLineage, WithoutLineage, Lacking
  <1> QED
    BY <1>1, <1>2, <1>3, <1>4, <1>5 DEF Next, Enrich, Reset, ResetTrackWorks, ResetRecordingArtists,
       ResetRecordingPlaces, ResetRecordingLineage

(* The groups of a selection: one per recording, no track in two of them,  *)
(* and every selected track in one.                                        *)
LEMMA GroupsOfSelection ==
  ASSUME TypeOK, NEW ts \in SUBSET Tracks, \A t \in ts : mbid[t] # None
  PROVE  ByRecording(ts) \subseteq Groups /\ Apart(ByRecording(ts)) /\ Fanned(ByRecording(ts)) = ts
  <1>1. \A t \in ts : mbid[t] \in Recordings
    BY DEF TypeOK, Source
  <1>2. Apart(ByRecording(ts))
    <2> SUFFICES ASSUME NEW g \in ByRecording(ts), NEW h \in ByRecording(ts),
                        NEW t \in g.tracks, t \in h.tracks
                 PROVE  g = h
      BY DEF Apart
    <2>1. ASSUME NEW i \in ByRecording(ts), t \in i.tracks
          PROVE  i = [key |-> mbid[t], tracks |-> {u \in ts : mbid[u] = mbid[t]}]
      <3>1. PICK r : i = [key |-> r, tracks |-> {u \in ts : mbid[u] = r}]
        BY DEF ByRecording
      <3>2. i.tracks = {u \in ts : mbid[u] = r}
        BY <3>1
      <3>3. mbid[t] = r
        BY <2>1, <3>2
      <3> QED BY <3>1, <3>3
    <2>2. g = [key |-> mbid[t], tracks |-> {u \in ts : mbid[u] = mbid[t]}]
      BY <2>1
    <2>3. h = [key |-> mbid[t], tracks |-> {u \in ts : mbid[u] = mbid[t]}]
      BY <2>1
    <2> QED BY <2>2, <2>3
  <1>3. Fanned(ByRecording(ts)) = ts
    <2>1. ASSUME NEW t \in ts PROVE t \in Fanned(ByRecording(ts))
      <3> DEFINE g == [key |-> mbid[t], tracks |-> {u \in ts : mbid[u] = mbid[t]}]
      <3>1. g \in ByRecording(ts)
        BY DEF ByRecording
      <3>2. t \in g.tracks
        OBVIOUS
      <3> QED BY <3>1, <3>2 DEF Fanned
    <2>2. \A g \in ByRecording(ts) : g.tracks \subseteq ts
      BY DEF ByRecording
    <2> QED BY <2>1, <2>2 DEF Fanned
  <1>4. ByRecording(ts) \subseteq Groups
    BY <1>1 DEF ByRecording, Groups
  <1> QED BY <1>2, <1>3, <1>4

(* What a write of groups leaves on a track: the key of a group it is in.  *)
LEMMA WrittenIsKey ==
  ASSUME NEW f, NEW gs \in SUBSET Groups, NEW t \in Tracks
  PROVE  /\ t \notin Fanned(gs) => Written(f, gs)[t] = f[t]
         /\ t \in Fanned(gs) => \E g \in gs : t \in g.tracks /\ Written(f, gs)[t] = g.key
  <1>1. ASSUME t \in Fanned(gs)
        PROVE  \E g \in gs : t \in g.tracks /\ Written(f, gs)[t] = g.key
    <2>1. \E g \in gs : t \in g.tracks
      BY <1>1 DEF Fanned
    <2> DEFINE c == CHOOSE g \in gs : t \in g.tracks
    <2>2. c \in gs /\ t \in c.tracks
      BY <2>1
    <2> QED BY <1>1, <2>2 DEF Written
  <1> QED BY <1>1 DEF Written

(* The tracks of a smaller set of groups are fewer, and of disjoint groups *)
(* disjoint.                                                               *)
LEMMA FannedParts ==
  ASSUME NEW gs \in SUBSET Groups, NEW b \in SUBSET gs
  PROVE  /\ Fanned(gs) = Fanned(b) \cup Fanned(gs \ b) /\ Fanned(gs) \subseteq Tracks
         /\ Apart(gs) => Apart(b) /\ Apart(gs \ b) /\ Fanned(b) \cap Fanned(gs \ b) = {}
  <1>1. Fanned(gs) = Fanned(b) \cup Fanned(gs \ b)
    BY DEF Fanned
  <1>2. Fanned(gs) \subseteq Tracks
    BY DEF Fanned, Groups
  <1>3. ASSUME Apart(gs) PROVE Fanned(b) \cap Fanned(gs \ b) = {}
    BY <1>3 DEF Apart, Fanned
  <1>4. Apart(gs) => Apart(b) /\ Apart(gs \ b)
    BY DEF Apart
  <1> QED BY <1>1, <1>2, <1>3, <1>4

(* What becomes of the candidates of a run in one step: they are the       *)
(* groups of a selection that starts the run, or some of them are gone.    *)
Selected(p) ==
    \E ts \in SUBSET Tracks :
        /\ ~running[p] /\ running'[p]
        /\ \A t \in ts : mbid[t] # None
        /\ todo'[p] = ByRecording(ts)
        /\ p \in Linkers => \A t \in ts : links[p][t] = {}
        /\ p = "acousticbrainz" => \A t \in ts : features[t] = None /\ exhausted[t] = None

(* Every step does one or the other to the candidates of every run.        *)
LEMMA Candidates ==
  ASSUME TypeOK, [Next]_vars, NEW p \in Grouped
  PROVE  /\ Selected(p) \/ todo'[p] \subseteq todo[p]
         /\ todo' \in [Pipelines -> SUBSET (Releases \cup Groups)]
         /\ running' \in [Pipelines -> BOOLEAN]
         /\ todo'["musicbrainz"] \subseteq Releases
  <1> DEFINE G == /\ Selected(p) \/ todo'[p] \subseteq todo[p]
                  /\ todo' \in [Pipelines -> SUBSET (Releases \cup Groups)]
                  /\ running' \in [Pipelines -> BOOLEAN]
                  /\ todo'["musicbrainz"] \subseteq Releases
  <1>0. p \in Pipelines /\ p # "musicbrainz" /\ "musicbrainz" \in Pipelines
        /\ "acousticbrainz" \in Pipelines /\ "deezer" \in Pipelines
        /\ "acousticbrainz" \notin Linkers /\ "deezer" \notin Linkers
        /\ "musicbrainz" \notin Linkers /\ Linkers \subseteq Pipelines
    BY DEF Grouped, Pipelines, Linkers, Batched
  <1>1. ASSUME NEW q \in Pipelines, NEW items, Done(q, items), UNCHANGED running PROVE G
    BY <1>0, <1>1 DEF Done, TypeOK
  <1>2. ASSUME NEW q \in Pipelines, RunEnds(q) PROVE G
    BY <1>0, <1>2 DEF RunEnds, TypeOK
  <1>3. ASSUME UNCHANGED <<todo, running>> PROVE G
    BY <1>3 DEF TypeOK
  <1>4. ASSUME NEW q \in Linkers \cup Batched, NEW ts \in SUBSET Tracks, \A t \in ts : mbid[t] # None,
               Start(q, ByRecording(ts)),
               q \in Linkers => \A t \in ts : links[q][t] = {},
               q = "acousticbrainz" => \A t \in ts : features[t] = None /\ exhausted[t] = None
        PROVE  G
    <2>1. ByRecording(ts) \subseteq Groups /\ q \in Pipelines /\ q # "musicbrainz"
      BY <1>4, GroupsOfSelection DEF Pipelines, Linkers, Batched
    <2>2. todo' \in [Pipelines -> SUBSET (Releases \cup Groups)]
          /\ running' \in [Pipelines -> BOOLEAN]
          /\ todo'["musicbrainz"] \subseteq Releases
      BY <1>4, <2>1, <1>0 DEF Start, TypeOK
    <2>3. CASE p = q
      <3>1. todo'[p] = ByRecording(ts) /\ running'[p] /\ ~running[p]
        BY <1>0, <1>4, <2>3 DEF Start, TypeOK
      <3>2. Selected(p)
        BY <1>4, <2>3, <3>1 DEF Selected
      <3> QED BY <2>2, <3>2
    <2>4. CASE p # q
      BY <1>0, <1>4, <2>1, <2>2, <2>4 DEF Start, TypeOK
    <2> QED BY <2>3, <2>4
  <1>5. CASE EnrichTrackMusicBrainz
    <2>1. CASE SelectReleases
      BY <1>0, <2>1 DEF SelectReleases, Start, WantsMbid, TypeOK
    <2> QED BY <1>0, <1>1, <1>2, <1>5, <2>1 DEF EnrichTrackMusicBrainz, ResolveRelease, ItemFails
  <1>6. ASSUME NEW k \in Linkers, LinkerActs(k) PROVE G
    <2>0. k \in Pipelines
      BY <1>0
    <2>1. CASE SelectRecordings(k, Lacking(k))
      <3>1. PICK aged \in SUBSET attempted[k] :
              Start(k, ByRecording({t \in Lacking(k) \cap NotThrottled(k, aged) : mbid[t] # None}))
        BY <2>1 DEF SelectRecordings
      <3> DEFINE ts == {t \in Lacking(k) \cap NotThrottled(k, aged) : mbid[t] # None}
      <3>2. ts \in SUBSET Tracks /\ \A t \in ts : mbid[t] # None /\ links[k][t] = {}
        BY DEF Lacking
      <3>3. k # "acousticbrainz"
        BY <1>0
      <3> QED BY <1>4, <3>1, <3>2, <3>3
    <2> QED BY <1>1, <1>2, <1>6, <2>0, <2>1 DEF LinkerActs, RunLinker, MarkAttempted, Merge, ItemFails
  <1>7. CASE EnrichTrackAcousticBrainz
    <2>1. CASE SelectForAcousticBrainz
      <3>1. PICK aged \in SUBSET attempted["acousticbrainz"] :
              Start("acousticbrainz", ByRecording(WithoutFeatures \cap NotThrottled("acousticbrainz", aged)))
        BY <2>1 DEF SelectForAcousticBrainz
      <3> DEFINE ts == WithoutFeatures \cap NotThrottled("acousticbrainz", aged)
      <3>2. ts \in SUBSET Tracks
            /\ \A t \in ts : mbid[t] # None /\ features[t] = None /\ exhausted[t] = None
        BY DEF WithoutFeatures
      <3>3. "acousticbrainz" \in Batched
        BY DEF Batched
      <3> QED BY <1>0, <1>4, <3>1, <3>2, <3>3
    <2> QED BY <1>0, <1>1, <1>2, <1>3, <1>7, <2>1
            DEF EnrichTrackAcousticBrainz, WriteFeatures, BatchFails, MarkExhausted, MarkFails
  <1>8. CASE EnrichTrackDeezer
    <2>1. CASE SelectForDeezer
      <3>1. PICK aged \in SUBSET attempted["deezer"] :
              Start("deezer", ByRecording(WithoutDeezer \cap NotThrottled("deezer", aged)))
        BY <2>1 DEF SelectForDeezer
      <3> DEFINE ts == WithoutDeezer \cap NotThrottled("deezer", aged)
      <3>2. ts \in SUBSET Tracks /\ \A t \in ts : mbid[t] # None
        BY TrackEnrichmentAssumption DEF WithoutDeezer
      <3>3. "deezer" \in Batched /\ "deezer" # "acousticbrainz"
        BY DEF Batched
      <3> QED BY <1>0, <1>4, <3>1, <3>2, <3>3
    <2> QED BY <1>0, <1>1, <1>2, <1>3, <1>8, <2>1
            DEF EnrichTrackDeezer, LookUpIsrc, LookUpFails, Flush, FlushFails
  <1>9. CASE ResetTrackMusicBrainz \/ (\E k \in Linkers : Unlink(k)) \/ ResetTrackAcousticBrainz
             \/ ResetTrackDeezer
    BY <1>3, <1>9 DEF ResetTrackMusicBrainz, Unlink, ResetTrackAcousticBrainz, ResetTrackDeezer, Resets
  <1>10. CASE Abort
    BY <1>3, <1>10 DEF Abort
  <1>11. CASE Restart
    BY <1>0, <1>11 DEF Restart, TypeOK
  <1>12. CASE UNCHANGED vars
    BY <1>3, <1>12 DEF vars
  <1> QED BY StepKinds, <1>5, <1>6, <1>7, <1>8, <1>9, <1>10, <1>11, <1>12

-----------------------------------------------------------------------------
(* Whatever is counted is finite.                                          *)
LEMMA FiniteParts ==
  /\ \A ts \in SUBSET Tracks : IsFiniteSet(ts) /\ Cardinality(ts) \in Nat
  /\ \A gs \in SUBSET Groups : IsFiniteSet(Fanned(gs)) /\ NumTracks(gs) \in Nat
  /\ \A as \in SUBSET Answers : IsFiniteSet(as) /\ Cardinality(as) \in Nat
  <1>1. ASSUME NEW ts \in SUBSET Tracks PROVE IsFiniteSet(ts) /\ Cardinality(ts) \in Nat
    BY FS_Subset, FS_CardinalityType, TrackEnrichmentAssumption
  <1>2. \A gs \in SUBSET Groups : Fanned(gs) \in SUBSET Tracks
    BY DEF Fanned, Groups
  <1>3. ASSUME NEW as \in SUBSET Answers PROVE IsFiniteSet(as) /\ Cardinality(as) \in Nat
    <2>1. IsFiniteSet(Source)
      BY FS_AddElement, TrackEnrichmentAssumption DEF Source
    <2>2. IsFiniteSet(Tracks \X Source)
      BY <2>1, FS_Product, TrackEnrichmentAssumption
    <2> DEFINE answer == [c \in Tracks \X Source |-> [track |-> c[1], data |-> c[2]]]
    <2>3. answer \in [Tracks \X Source -> Answers]
      BY DEF Answers
    <2>4. ASSUME NEW a \in Answers PROVE \E c \in Tracks \X Source : answer[c] = a
      <3>1. <<a.track, a.data>> \in Tracks \X Source
        BY DEF Answers
      <3>2. answer[<<a.track, a.data>>] = [track |-> a.track, data |-> a.data]
        BY <3>1
      <3>3. a = [track |-> a.track, data |-> a.data]
        BY DEF Answers
      <3> QED BY <3>1, <3>2, <3>3
    <2>5. IsFiniteSet(Answers)
      <3> HIDE DEF answer
      <3>1. answer \in Surjection(Tracks \X Source, Answers)
        BY <2>3, <2>4 DEF Surjection
      <3> QED BY <2>2, <3>1, FS_Surjection
    <2> QED BY <2>5, FS_Subset, FS_CardinalityType
  <1> QED BY <1>1, <1>2, <1>3 DEF NumTracks

(* The tracks a run's counters say are settled.                            *)
Settled(c) == c.processed + c.skipped + c.exhausted + c.failed

(* What a write counts at once. *)
WithExhausted(c, m, n) == [c EXCEPT !.processed = @ + m, !.exhausted = @ + n]
WithSkipped(c, m, n) == [c EXCEPT !.processed = @ + m, !.skipped = @ + n]

(* Counting keeps the counters whole numbers and what was selected, and    *)
(* settles as many tracks as it counts.                                    *)
LEMMA CountingOne ==
  ASSUME NEW c \in Counters, NEW n \in Nat
  PROVE  /\ [NoBooks EXCEPT !.selected = n] \in Counters
         /\ [NoBooks EXCEPT !.selected = n].selected = n
         /\ Settled([NoBooks EXCEPT !.selected = n]) = 0
         /\ [c EXCEPT !.failed = @ + n] \in Counters
         /\ [c EXCEPT !.failed = @ + n].selected = c.selected
         /\ Settled([c EXCEPT !.failed = @ + n]) = Settled(c) + n
  BY DEF Counters, NoBooks, Settled

(* The same of a write that counts both what it has and what it has not.   *)
LEMMA CountingBoth ==
  ASSUME NEW c \in Counters, NEW m \in Nat, NEW n \in Nat
  PROVE  /\ WithExhausted(c, m, n) \in Counters /\ WithSkipped(c, m, n) \in Counters
         /\ WithExhausted(c, m, n).selected = c.selected /\ WithSkipped(c, m, n).selected = c.selected
         /\ Settled(WithExhausted(c, m, n)) = Settled(c) + (m + n)
         /\ Settled(WithSkipped(c, m, n)) = Settled(c) + (m + n)
  <1> DEFINE e == [c EXCEPT !.processed = @ + m]
  <1>1. \A d \in Counters :
          /\ [d EXCEPT !.exhausted = @ + n] \in Counters
          /\ [d EXCEPT !.exhausted = @ + n].selected = d.selected
          /\ Settled([d EXCEPT !.exhausted = @ + n]) = Settled(d) + n
          /\ [d EXCEPT !.skipped = @ + n] \in Counters
          /\ [d EXCEPT !.skipped = @ + n].selected = d.selected
          /\ Settled([d EXCEPT !.skipped = @ + n]) = Settled(d) + n
    BY DEF Counters, Settled
  <1>2. e \in Counters /\ e.selected = c.selected /\ Settled(e) = Settled(c) + m
    BY DEF Counters, Settled
  <1>3. /\ WithExhausted(c, m, n) = [e EXCEPT !.exhausted = @ + n]
        /\ WithSkipped(c, m, n) = [e EXCEPT !.skipped = @ + n]
    BY DEF WithExhausted, WithSkipped
  <1>4. Settled(c) \in Int
    BY DEF Counters, Settled
  <1> HIDE DEF e
  <1> QED BY <1>1, <1>2, <1>3, <1>4

(* The counters of a run are counted up, or those of a run that starts.    *)
Booked(p, m, n) ==
    /\ p = "acousticbrainz" =>
         books' = [books EXCEPT ![p].processed = @ + m, ![p].exhausted = @ + n]
    /\ p = "deezer" =>
         books' = [books EXCEPT ![p].processed = @ + m, ![p].skipped = @ + n]

(* What the counters are after each of the ways a step counts.             *)
LEMMA BooksAfter ==
  ASSUME TypeOK, NEW p \in Batched, NEW m \in Nat, NEW n \in Nat
  PROVE  /\ CountFailed(p, n) =>
              /\ books' \in [Batched -> Counters]
              /\ \A q \in Batched \ {p} : books'[q] = books[q]
              /\ books'[p].selected = books[p].selected
              /\ Settled(books'[p]) = Settled(books[p]) + n
         /\ Booked(p, m, n) =>
              /\ books' \in [Batched -> Counters]
              /\ \A q \in Batched \ {p} : books'[q] = books[q]
              /\ books'[p].selected = books[p].selected
              /\ Settled(books'[p]) = Settled(books[p]) + (m + n)
         /\ books' = [books EXCEPT ![p] = [NoBooks EXCEPT !.selected = n]] =>
              /\ books' \in [Batched -> Counters]
              /\ \A q \in Batched \ {p} : books'[q] = books[q]
              /\ books'[p].selected = n /\ Settled(books'[p]) = 0
         /\ books' = [books EXCEPT ![p] = NoBooks] =>
              /\ books' \in [Batched -> Counters]
              /\ \A q \in Batched \ {p} : books'[q] = books[q]
         /\ books' = [q \in Batched |-> NoBooks] => books' \in [Batched -> Counters]
  <1> DEFINE c == books[p]
  <1>1. c \in Counters /\ books \in [Batched -> Counters] /\ NoBooks \in Counters
    BY DEF TypeOK, NoBooks, Counters
  <1>2. ASSUME NEW d \in Counters, books' = [books EXCEPT ![p] = d]
        PROVE  /\ books' \in [Batched -> Counters] /\ books'[p] = d
               /\ \A q \in Batched \ {p} : books'[q] = books[q]
    BY <1>1, <1>2
  <1>3. CountFailed(p, n) => books' = [books EXCEPT ![p] = [c EXCEPT !.failed = @ + n]]
    BY DEF CountFailed
  <1>4. ASSUME Booked(p, m, n)
        PROVE  books' = [books EXCEPT ![p] = WithExhausted(c, m, n)]
               \/ books' = [books EXCEPT ![p] = WithSkipped(c, m, n)]
    <2> DEFINE b == [books EXCEPT ![p] = [c EXCEPT !.processed = @ + m]]
    <2>1. b[p] = [c EXCEPT !.processed = @ + m]
      BY <1>1
    <2>2. p = "acousticbrainz" => books' = [b EXCEPT ![p] = [b[p] EXCEPT !.exhausted = @ + n]]
      BY <1>4 DEF Booked
    <2>3. p = "deezer" => books' = [b EXCEPT ![p] = [b[p] EXCEPT !.skipped = @ + n]]
      BY <1>4 DEF Booked
    <2>4. \A d : [b EXCEPT ![p] = d] = [books EXCEPT ![p] = d]
      BY <1>1
    <2>5. /\ [b[p] EXCEPT !.exhausted = @ + n] = WithExhausted(c, m, n)
          /\ [b[p] EXCEPT !.skipped = @ + n] = WithSkipped(c, m, n)
      BY <2>1 DEF WithExhausted, WithSkipped
    <2> HIDE DEF b
    <2> QED BY <2>2, <2>3, <2>4, <2>5 DEF Batched
  <1> HIDE DEF c
  <1>5. books[p] = c
    BY DEF c
  <1> QED
    <2>1. ASSUME CountFailed(p, n)
          PROVE  /\ books' \in [Batched -> Counters]
                 /\ \A q \in Batched \ {p} : books'[q] = books[q]
                 /\ books'[p].selected = books[p].selected
                 /\ Settled(books'[p]) = Settled(books[p]) + n
      <3> DEFINE d == [c EXCEPT !.failed = @ + n]
      <3>1. d \in Counters /\ d.selected = c.selected /\ Settled(d) = Settled(c) + n
        BY <1>1, CountingOne
      <3>2. books' = [books EXCEPT ![p] = d]
        BY <1>3, <2>1
      <3> HIDE DEF d
      <3> QED BY <1>2, <1>5, <3>1, <3>2
    <2>2. ASSUME Booked(p, m, n)
          PROVE  /\ books' \in [Batched -> Counters]
                 /\ \A q \in Batched \ {p} : books'[q] = books[q]
                 /\ books'[p].selected = books[p].selected
                 /\ Settled(books'[p]) = Settled(books[p]) + (m + n)
      <3>1. /\ WithExhausted(c, m, n) \in Counters /\ WithSkipped(c, m, n) \in Counters
            /\ WithExhausted(c, m, n).selected = c.selected /\ WithSkipped(c, m, n).selected = c.selected
            /\ Settled(WithExhausted(c, m, n)) = Settled(c) + (m + n)
            /\ Settled(WithSkipped(c, m, n)) = Settled(c) + (m + n)
        BY <1>1, CountingBoth
      <3> QED BY <1>2, <1>4, <1>5, <2>2, <3>1
    <2>3. ASSUME books' = [books EXCEPT ![p] = [NoBooks EXCEPT !.selected = n]]
          PROVE  /\ books' \in [Batched -> Counters]
                 /\ \A q \in Batched \ {p} : books'[q] = books[q]
                 /\ books'[p].selected = n /\ Settled(books'[p]) = 0
      BY <1>1, <1>2, <2>3, CountingOne
    <2>4. ASSUME books' = [books EXCEPT ![p] = NoBooks]
          PROVE  /\ books' \in [Batched -> Counters]
                 /\ \A q \in Batched \ {p} : books'[q] = books[q]
      BY <1>1, <1>2, <2>4
    <2> QED BY <1>1, <2>1, <2>2, <2>3, <2>4

-----------------------------------------------------------------------------
(* Every step keeps the graph and the buffers in their types.              *)
LEMMA StepTyped ==
  ASSUME TypeOK, [Next]_vars
  PROVE  TypeOK'
  <1>0. /\ "musicbrainz" \in Pipelines /\ "acousticbrainz" \in Pipelines /\ "deezer" \in Pipelines
        /\ "acousticbrainz" \in Grouped /\ "deezer" \in Grouped
        /\ Linkers \subseteq Pipelines /\ Linkers \subseteq Grouped
        /\ "acousticbrainz" \in Batched /\ "deezer" \in Batched /\ "works" \in Linkers
    BY DEF Grouped, Pipelines, Linkers, Batched
  <1> DEFINE Todo == /\ todo' \in [Pipelines -> SUBSET (Releases \cup Groups)]
                     /\ todo'["musicbrainz"] \subseteq Releases
                     /\ \A p \in Grouped : todo'[p] \subseteq Groups
                     /\ running' \in [Pipelines -> BOOLEAN]
             Stamps == attempted' \in [Pipelines -> SUBSET Tracks]
             Data == /\ mbid' \in [Tracks -> Source] /\ features' \in [Tracks -> Source]
                     /\ exhausted' \in [Tracks -> Source] /\ deezer' \in [Tracks -> Source]
             Links == links' \in [Linkers -> [Tracks -> SUBSET Recordings]]
             Buffers == marking' \subseteq Groups /\ pending' \subseteq Answers
             Books == books' \in [Batched -> Counters]
             Rest == aborted' \in BOOLEAN /\ overlapped' \subseteq Cascade /\ starts' \in Nat
  <1>1. Todo
    <2>1. ASSUME NEW p \in Grouped PROVE todo'[p] \subseteq Groups
      <3>1. Selected(p) => todo'[p] \subseteq Groups
        BY GroupsOfSelection DEF Selected
      <3> QED BY <2>1, <3>1, Candidates DEF TypeOK
    <2> QED BY <1>0, <2>1, Candidates
  <1>2. ASSUME NEW p \in Pipelines, NEW ts \in SUBSET Tracks, Stamp(p, ts) PROVE Stamps
    BY <1>2 DEF Stamp, TypeOK
  <1>3. ASSUME NEW f \in [Tracks -> Source], NEW gs \in SUBSET Groups
        PROVE  Written(f, gs) \in [Tracks -> Source]
    <2>1. \A t \in Tracks : Written(f, gs)[t] \in Source
      BY <1>3, WrittenIsKey DEF Groups, Source
    <2>2. Written(f, gs) = [t \in Tracks |-> Written(f, gs)[t]]
      BY DEF Written
    <2> QED BY <2>1, <2>2
  <1>4. \A gs \in SUBSET Groups : Fanned(gs) \subseteq Tracks
    BY DEF Fanned, Groups
  <1>5. Stamps
    <2>1. CASE EnrichTrackMusicBrainz
      BY <1>0, <1>2, <2>1, TrackEnrichmentAssumption
         DEF EnrichTrackMusicBrainz, SelectReleases, Start, ResolveRelease, WriteRelease, ItemFails,
             TypeOK, graph, Drawn
    <2>2. ASSUME NEW k \in Linkers, LinkerActs(k) PROVE Stamps
      <3>1. \A g \in Drawn(k) : g.tracks \in SUBSET Tracks
        BY <1>0 DEF Drawn, TypeOK, Groups
      <3> QED BY <1>0, <1>2, <2>2, <3>1
              DEF LinkerActs, RunLinker, SelectRecordings, Start, MarkAttempted, Merge, ItemFails, TypeOK, graph
    <2>3. CASE EnrichTrackAcousticBrainz
      <3>1. \A b \in Batches : b \subseteq Groups
        BY <1>0 DEF Batches, Drawn, TypeOK
      <3>2. ASSUME NEW b \in SUBSET Groups, SetFeatures(b) \/ SetExhausted(b) PROVE Stamps
        <4>1. Fanned(b \ Absent(b)) \in SUBSET Tracks /\ Fanned(Absent(b)) \in SUBSET Tracks
          BY <1>4 DEF Absent
        <4> QED BY <1>0, <1>2, <3>2, <4>1 DEF SetFeatures, SetExhausted
      <3>3. marking \in SUBSET Groups
        BY DEF TypeOK
      <3> QED BY <2>3, <3>1, <3>2, <3>3
              DEF EnrichTrackAcousticBrainz, SelectForAcousticBrainz, Start, WriteFeatures, BatchFails,
                  MarkExhausted, MarkFails, TypeOK, graph
    <2>4. CASE EnrichTrackDeezer
      <3>1. {a.track : a \in pending} \in SUBSET Tracks
        BY DEF TypeOK, Answers
      <3>2. SetDeezerData => Stamps
        BY <1>0, <1>2, <3>1 DEF SetDeezerData
      <3> QED BY <2>4, <3>2
              DEF EnrichTrackDeezer, SelectForDeezer, Start, LookUpIsrc, LookUpFails, Flush, FlushFails,
                  TypeOK, graph
    <2>5. CASE ResetTrackMusicBrainz
      BY <2>5 DEF ResetTrackMusicBrainz, TypeOK
    <2>6. CASE (\E k \in Linkers : Unlink(k)) \/ ResetTrackAcousticBrainz \/ ResetTrackDeezer
      BY <1>0, <2>6 DEF Unlink, ResetTrackAcousticBrainz, ResetTrackDeezer, TypeOK
    <2>7. CASE Abort \/ Restart \/ UNCHANGED vars
      BY <2>7 DEF Abort, Restart, vars, graph, TypeOK
    <2> QED BY StepKinds, <2>1, <2>2, <2>3, <2>4, <2>5, <2>6, <2>7
  <1>6. Data
    <2>0. mbid \in [Tracks -> Source] /\ features \in [Tracks -> Source] /\ None \in Source
          /\ exhausted \in [Tracks -> Source] /\ deezer \in [Tracks -> Source]
      BY DEF TypeOK, Source
    <2>1. CASE EnrichTrackMusicBrainz
      <3>1. ASSUME NEW rel \in Releases, NEW aligned \in Alignments(Tracklist[rel]),
                   NEW found \in Searches(Tracklist[rel] \ DOMAIN aligned), WriteRelease(rel, aligned, found)
            PROVE  mbid' \in [Tracks -> Source]
        <4>1. PICK m \in SUBSET Tracklist[rel] : aligned \in [m -> Recordings]
          BY <3>1 DEF Alignments
        <4>2. \A t \in DOMAIN aligned : aligned[t] \in Source
          BY <4>1 DEF Source
        <4>3. \A t \in DOMAIN found : found[t] \in Source
          BY <3>1 DEF Searches, SearchAnswers, Source
        <4> QED BY <2>0, <3>1, <4>2, <4>3 DEF WriteRelease
      <3>2. Drawn("musicbrainz") \subseteq Releases
        BY DEF Drawn, TypeOK
      <3> QED BY <2>0, <2>1, <3>1, <3>2
              DEF EnrichTrackMusicBrainz, SelectReleases, Start, ResolveRelease, ItemFails, graph
    <2>2. ASSUME NEW k \in Linkers, LinkerActs(k) PROVE Data
      BY <2>0, <2>2 DEF LinkerActs, RunLinker, SelectRecordings, Start, MarkAttempted, Merge, ItemFails, graph
    <2>3. CASE EnrichTrackAcousticBrainz
      <3>1. \A b \in Batches : b \subseteq Groups
        BY <1>0 DEF Batches, Drawn, TypeOK
      <3>2. ASSUME NEW b \in SUBSET Groups
            PROVE  /\ SetFeatures(b) => features' \in [Tracks -> Source]
                   /\ SetExhausted(b) => exhausted' \in [Tracks -> Source]
        BY <1>3, <2>0 DEF SetFeatures, SetExhausted, Absent
      <3>3. marking \in SUBSET Groups
        BY DEF TypeOK
      <3> QED BY <2>0, <2>3, <3>1, <3>2, <3>3
              DEF EnrichTrackAcousticBrainz, SelectForAcousticBrainz, Start, WriteFeatures, BatchFails,
                  MarkExhausted, MarkFails, graph
    <2>4. CASE EnrichTrackDeezer
      <3>1. SetDeezerData => deezer' \in [Tracks -> Source]
        <4>1. ASSUME NEW t \in Tracks, \E a \in pending : a.track = t
              PROVE  (CHOOSE a \in pending : a.track = t).data \in Source
          <5> DEFINE a == CHOOSE a \in pending : a.track = t
          <5>1. a \in pending
            BY <4>1
          <5> QED BY <5>1 DEF TypeOK, Answers
        <4> QED BY <2>0, <4>1 DEF SetDeezerData
      <3> QED BY <2>0, <2>4, <3>1
              DEF EnrichTrackDeezer, SelectForDeezer, Start, LookUpIsrc, LookUpFails, Flush, FlushFails, graph
    <2>5. CASE ResetTrackMusicBrainz
      BY <2>0, <2>5 DEF ResetTrackMusicBrainz
    <2>6. CASE (\E k \in Linkers : Unlink(k)) \/ ResetTrackAcousticBrainz \/ ResetTrackDeezer
      BY <2>0, <2>6 DEF Unlink, ResetTrackAcousticBrainz, ResetTrackDeezer
    <2>7. CASE Abort \/ Restart \/ UNCHANGED vars
      BY <2>0, <2>7 DEF Abort, Restart, vars, graph
    <2> QED BY StepKinds, <2>1, <2>2, <2>3, <2>4, <2>5, <2>6, <2>7
  <1>7. Links
    <2>0. links \in [Linkers -> [Tracks -> SUBSET Recordings]]
      BY DEF TypeOK
    <2>1. ASSUME NEW k \in Linkers, LinkerActs(k) PROVE Links
      <3>1. ASSUME NEW g \in Drawn(k), NEW linked \in SUBSET g.tracks, Merge(k, g, linked) PROVE Links
        <4>1. g.key \in Recordings
          BY <1>0 DEF Drawn, TypeOK, Groups
        <4>2. [t \in Tracks |-> IF t \in linked THEN links[k][t] \cup {g.key} ELSE links[k][t]]
                \in [Tracks -> SUBSET Recordings]
          BY <2>0, <4>1
        <4> QED BY <2>0, <3>1, <4>2 DEF Merge
      <3> QED BY <2>0, <2>1, <3>1
              DEF LinkerActs, RunLinker, SelectRecordings, Start, MarkAttempted, ItemFails, graph
    <2>2. ASSUME NEW k \in Linkers, links' = [links EXCEPT ![k] = [t \in Tracks |-> {}]] PROVE Links
      BY <2>0, <2>2
    <2>3. CASE ResetTrackMusicBrainz \/ \E k \in Linkers : Unlink(k)
      BY <1>0, <2>2, <2>3 DEF ResetTrackMusicBrainz, Unlink
    <2>4. CASE EnrichTrackMusicBrainz
      BY <2>0, <2>4 DEF EnrichTrackMusicBrainz, SelectReleases, Start, ResolveRelease, ItemFails, graph
    <2>5. CASE EnrichTrackAcousticBrainz
      BY <2>0, <2>5 DEF EnrichTrackAcousticBrainz, SelectForAcousticBrainz, Start, WriteFeatures,
         BatchFails, MarkExhausted, MarkFails, graph
    <2>6. CASE EnrichTrackDeezer
      BY <2>0, <2>6 DEF EnrichTrackDeezer, SelectForDeezer, Start, LookUpIsrc, LookUpFails, Flush,
         FlushFails, graph
    <2>7. CASE ResetTrackAcousticBrainz \/ ResetTrackDeezer \/ Abort \/ Restart \/ UNCHANGED vars
      BY <2>0, <2>7 DEF ResetTrackAcousticBrainz, ResetTrackDeezer, Abort, Restart, vars, graph
    <2> QED BY StepKinds, <2>1, <2>3, <2>4, <2>5, <2>6, <2>7
  <1>8. Buffers
    <2>0. marking \subseteq Groups /\ pending \subseteq Answers
      BY DEF TypeOK
    <2>1. CASE EnrichTrackMusicBrainz \/ ResetTrackMusicBrainz \/ (\E k \in Linkers : Unlink(k))
               \/ ResetTrackAcousticBrainz \/ ResetTrackDeezer \/ Abort \/ Restart \/ UNCHANGED vars
      BY <2>0, <2>1 DEF EnrichTrackMusicBrainz, SelectReleases, Start, ResolveRelease, ItemFails,
         ResetTrackMusicBrainz, Unlink, ResetTrackAcousticBrainz, ResetTrackDeezer, Resets, Abort,
         Restart, vars, buffers
    <2>2. ASSUME NEW k \in Linkers, LinkerActs(k) PROVE Buffers
      BY <2>0, <2>2 DEF LinkerActs, RunLinker, SelectRecordings, Start, MarkAttempted, Merge, ItemFails, buffers
    <2>3. CASE EnrichTrackAcousticBrainz
      <3>1. \A b \in Batches : b \subseteq Groups
        BY <1>0 DEF Batches, Drawn, TypeOK
      <3> QED BY <2>0, <2>3, <3>1
              DEF EnrichTrackAcousticBrainz, SelectForAcousticBrainz, Start, WriteFeatures, BatchFails,
                  MarkExhausted, MarkFails
    <2>4. CASE EnrichTrackDeezer
      <3>1. ASSUME NEW g \in Drawn("deezer"), NEW data \in {g.key, None}
            PROVE  [track : g.tracks, data : {data}] \subseteq Answers
        <4>1. g \in Groups
          BY <1>0 DEF Drawn, TypeOK
        <4> QED BY <4>1 DEF Groups, Answers, Source
      <3> QED BY <2>0, <2>4, <3>1
              DEF EnrichTrackDeezer, SelectForDeezer, Start, LookUpIsrc, LookUpFails, Flush, FlushFails
    <2> QED BY StepKinds, <2>1, <2>2, <2>3, <2>4
  <1>9. Books
    <2>0. books \in [Batched -> Counters]
      BY DEF TypeOK
    <2>1. CASE EnrichTrackMusicBrainz \/ ResetTrackMusicBrainz \/ (\E k \in Linkers : Unlink(k))
               \/ ResetTrackAcousticBrainz \/ ResetTrackDeezer \/ Abort \/ UNCHANGED vars
      BY <2>0, <2>1 DEF EnrichTrackMusicBrainz, SelectReleases, Start, ResolveRelease, ItemFails,
         ResetTrackMusicBrainz, Unlink, ResetTrackAcousticBrainz, ResetTrackDeezer, Resets, Abort,
         vars, buffers
    <2>2. ASSUME NEW k \in Linkers, LinkerActs(k) PROVE Books
      BY <2>0, <2>2 DEF LinkerActs, RunLinker, SelectRecordings, Start, MarkAttempted, Merge, ItemFails, buffers
    <2>3. CASE EnrichTrackAcousticBrainz
      <3>1. \A b \in Batches : b \subseteq Groups
        BY <1>0 DEF Batches, Drawn, TypeOK
      <3>2. marking \subseteq Groups /\ Absent(marking) \subseteq Groups /\ marking \ Absent(marking) \subseteq Groups
        BY DEF TypeOK, Absent
      <3>3. \A gs \in SUBSET Groups : CountFailed("acousticbrainz", NumTracks(gs)) => Books
        BY <1>0, BooksAfter, FiniteParts
      <3>4. CASE SelectForAcousticBrainz
        <4>1. \A aged : WithoutFeatures \cap NotThrottled("acousticbrainz", aged) \in SUBSET Tracks
          BY DEF WithoutFeatures
        <4> QED BY <1>0, <3>4, <4>1, BooksAfter, FiniteParts DEF SelectForAcousticBrainz
      <3>5. CASE MarkExhausted
        <4>1. Booked("acousticbrainz", NumTracks(marking \ Absent(marking)), NumTracks(Absent(marking)))
          BY <3>5 DEF MarkExhausted, Booked
        <4> QED BY <1>0, <3>2, <4>1, BooksAfter, FiniteParts
      <3>6. CASE books' = [books EXCEPT !["acousticbrainz"] = NoBooks]
        BY <1>0, <3>6, BooksAfter
      <3> QED BY <2>0, <2>3, <3>1, <3>2, <3>3, <3>4, <3>5, <3>6
              DEF EnrichTrackAcousticBrainz, WriteFeatures, BatchFails, MarkFails
    <2>4. CASE EnrichTrackDeezer
      <3>1. \A g \in Drawn("deezer") : g.tracks \in SUBSET Tracks
        BY <1>0 DEF Drawn, TypeOK, Groups
      <3>2. \A n \in Nat : CountFailed("deezer", n) => Books
        BY <1>0, BooksAfter
      <3>3. CASE SelectForDeezer
        <4>1. \A aged : WithoutDeezer \cap NotThrottled("deezer", aged) \in SUBSET Tracks
          BY DEF WithoutDeezer
        <4> QED BY <1>0, <3>3, <4>1, BooksAfter, FiniteParts DEF SelectForDeezer
      <3>4. CASE Flush
        <4> DEFINE matched == {a \in pending : a.data # None}
        <4>1. matched \in SUBSET Answers /\ pending \ matched \in SUBSET Answers
          BY DEF TypeOK
        <4>2. Booked("deezer", Cardinality(matched), Cardinality(pending \ matched))
          BY <3>4 DEF Flush, Booked
        <4> QED BY <1>0, <4>1, <4>2, BooksAfter, FiniteParts
      <3>5. CASE books' = [books EXCEPT !["deezer"] = NoBooks]
        BY <1>0, <3>5, BooksAfter
      <3>6. pending \in SUBSET Answers
        BY DEF TypeOK
      <3> QED BY <2>0, <2>4, <3>1, <3>2, <3>3, <3>4, <3>5, <3>6, FiniteParts
              DEF EnrichTrackDeezer, LookUpIsrc, LookUpFails, FlushFails
    <2>5. CASE Restart
      BY <1>0, <2>5, BooksAfter DEF Restart
    <2> QED BY StepKinds, <2>1, <2>2, <2>3, <2>4, <2>5
  <1>10. Rest
    <2>0. overlapped \subseteq Cascade /\ starts \in Nat
      BY DEF TypeOK
    <2>1. aborted' = aborted \/ aborted' = TRUE \/ aborted' = FALSE
      <3>1. ASSUME NEW p \in Pipelines, NEW candidates, Start(p, candidates) \/ Resets(p)
            PROVE  aborted' = aborted
        BY <3>1 DEF Start, Resets
      <3>2. ASSUME NEW k \in Linkers, LinkerActs(k) \/ Unlink(k) PROVE aborted' = aborted
        BY <1>0, <3>1, <3>2 DEF LinkerActs, RunLinker, SelectRecordings, MarkAttempted, Merge,
           ItemFails, Unlink
      <3>3. CASE EnrichTrackMusicBrainz
        BY <1>0, <3>1, <3>3 DEF EnrichTrackMusicBrainz, SelectReleases, ResolveRelease, ItemFails
      <3>4. CASE EnrichTrackAcousticBrainz
        BY <1>0, <3>1, <3>4 DEF EnrichTrackAcousticBrainz, SelectForAcousticBrainz, WriteFeatures,
           BatchFails, MarkExhausted, MarkFails
      <3>5. CASE EnrichTrackDeezer
        BY <1>0, <3>1, <3>5 DEF EnrichTrackDeezer, SelectForDeezer, LookUpIsrc, LookUpFails, Flush, FlushFails
      <3>6. CASE ResetTrackMusicBrainz \/ ResetTrackAcousticBrainz \/ ResetTrackDeezer
        BY <1>0, <3>1, <3>6 DEF ResetTrackMusicBrainz, ResetTrackAcousticBrainz, ResetTrackDeezer
      <3>7. CASE Abort \/ Restart \/ UNCHANGED vars
        BY <3>7 DEF Abort, Restart, vars
      <3> QED BY StepKinds, <3>2, <3>3, <3>4, <3>5, <3>6, <3>7
    <2>2. aborted' \in BOOLEAN
      BY <2>1 DEF TypeOK
    <2> DEFINE Ends == overlapped' \subseteq Cascade /\ starts' \in Nat
    <2>3. ASSUME NEW p \in Pipelines, NEW candidates, Start(p, candidates) PROVE Ends
      BY <2>0, <2>3 DEF Start
    <2>4. ASSUME NEW k \in Linkers, LinkerActs(k) PROVE Ends
      BY <1>0, <2>0, <2>3, <2>4 DEF LinkerActs, RunLinker, SelectRecordings, MarkAttempted, Merge, ItemFails
    <2>5. EnrichTrackMusicBrainz => Ends
      BY <1>0, <2>0, <2>3 DEF EnrichTrackMusicBrainz, SelectReleases, ResolveRelease, ItemFails
    <2>6. EnrichTrackAcousticBrainz => Ends
      BY <1>0, <2>0, <2>3 DEF EnrichTrackAcousticBrainz, SelectForAcousticBrainz, WriteFeatures,
         BatchFails, MarkExhausted, MarkFails
    <2>7. EnrichTrackDeezer => Ends
      BY <1>0, <2>0, <2>3 DEF EnrichTrackDeezer, SelectForDeezer, LookUpIsrc, LookUpFails, Flush, FlushFails
    <2>8. /\ ResetTrackMusicBrainz \/ ResetTrackAcousticBrainz \/ ResetTrackDeezer => Ends
          /\ \A k \in Linkers : Unlink(k) => Ends
      BY <2>0 DEF ResetTrackMusicBrainz, Unlink, ResetTrackAcousticBrainz, ResetTrackDeezer, Resets
    <2>9. Abort \/ Restart \/ UNCHANGED vars => Ends
      BY <2>0 DEF Abort, Restart, vars
    <2>10. Ends
      BY StepKinds, <2>4, <2>5, <2>6, <2>7, <2>8, <2>9
    <2> QED BY <2>2, <2>10
  <1> QED BY <1>1, <1>5, <1>6, <1>7, <1>8, <1>9, <1>10 DEF TypeOK

(* They are right at the start.                                            *)
LEMMA InitTyped ==
  ASSUME Init
  PROVE  TypeOK
  <1>1. NoBooks \in Counters
    BY DEF NoBooks, Counters
  <1>2. "musicbrainz" \in Pipelines /\ Grouped \subseteq Pipelines
    BY DEF Pipelines, Grouped
  <1>3. aborted \in BOOLEAN /\ running \in [Pipelines -> BOOLEAN]
    BY DEF Init
  <1>4. /\ mbid \in [Tracks -> Source] /\ features \in [Tracks -> Source]
        /\ exhausted \in [Tracks -> Source] /\ deezer \in [Tracks -> Source]
        /\ links \in [Linkers -> [Tracks -> SUBSET Recordings]]
        /\ attempted \in [Pipelines -> SUBSET Tracks]
    BY DEF Init, Source
  <1>5. /\ todo \in [Pipelines -> SUBSET (Releases \cup Groups)]
        /\ todo["musicbrainz"] \subseteq Releases
        /\ \A p \in Grouped : todo[p] \subseteq Groups
        /\ marking \subseteq Groups /\ pending \subseteq Answers
    BY <1>2 DEF Init
  <1>6. books \in [Batched -> Counters] /\ overlapped \subseteq Cascade /\ starts \in Nat
    BY <1>1 DEF Init
  <1> QED BY <1>3, <1>4, <1>5, <1>6 DEF TypeOK

(* The types of the graph's data and of what the runs hold, at every       *)
(* moment.                                                                 *)
THEOREM TypeCorrect == Spec => []TypeOK
  <1>1. Init => TypeOK
    BY InitTyped
  <1>2. TypeOK /\ [Next]_vars => TypeOK'
    BY StepTyped
  <1> QED BY <1>1, <1>2, PTL DEF Spec

-----------------------------------------------------------------------------
(* A pipeline whose run and stamps a step leaves alone.                    *)
Untouched(p) == todo'[p] = todo[p] /\ running'[p] = running[p] /\ attempted'[p] = attempted[p]

(* The names of the pipelines.                                             *)
LEMMA PipelineNames ==
  /\ "musicbrainz" \in Pipelines /\ "acousticbrainz" \in Pipelines /\ "deezer" \in Pipelines
  /\ "works" \in Linkers /\ "works" \in Pipelines /\ Linkers \subseteq Pipelines /\ Linkers \subseteq Grouped
  /\ "acousticbrainz" \in Grouped /\ "deezer" \in Grouped /\ Grouped \subseteq Pipelines
  /\ "acousticbrainz" \in Batched /\ "deezer" \in Batched
  /\ "musicbrainz" \notin Grouped /\ "acousticbrainz" \notin Linkers /\ "deezer" \notin Linkers
  /\ "acousticbrainz" # "deezer" /\ "musicbrainz" # "acousticbrainz" /\ "musicbrainz" # "deezer"
  /\ Cascade \subseteq Grouped /\ "works" \in Cascade /\ "acousticbrainz" \in Cascade
  /\ "deezer" \in Cascade /\ "works" # "acousticbrainz" /\ "works" # "deezer"
  BY DEF Pipelines, Linkers, Batched, Grouped, Cascade

(* The steps of track-musicbrainz write MBIDs and its own stamps only.     *)
LEMMA MusicBrainzActs ==
  ASSUME TypeOK, EnrichTrackMusicBrainz
  PROVE  /\ \A q \in Pipelines \ {"musicbrainz"} : Untouched(q)
         /\ UNCHANGED <<links, features, exhausted, deezer, marking, pending, books, overlapped>>
  <1>1. ASSUME NEW q \in Pipelines \ {"musicbrainz"} PROVE Untouched(q)
    BY PipelineNames, <1>1
       DEF EnrichTrackMusicBrainz, SelectReleases, Start, ResolveRelease, WriteRelease, Stamp, Done,
           ItemFails, RunEnds, Untouched, TypeOK, graph
  <1>2. UNCHANGED <<links, features, exhausted, deezer, marking, pending, books, overlapped>>
    BY DEF EnrichTrackMusicBrainz, SelectReleases, Start, ResolveRelease, ItemFails, graph, buffers
  <1> QED BY <1>1, <1>2

(* Those of a linking stage write its own links and stamps only.           *)
LEMMA LinkerActsAlone ==
  ASSUME TypeOK, NEW k \in Linkers, LinkerActs(k)
  PROVE  /\ \A q \in Pipelines \ {k} : Untouched(q)
         /\ \A j \in Linkers \ {k} : links'[j] = links[j]
         /\ UNCHANGED <<mbid, features, exhausted, deezer, marking, pending, books, overlapped>>
  <1>1. ASSUME NEW q \in Pipelines \ {k} PROVE Untouched(q)
    BY PipelineNames, <1>1
       DEF LinkerActs, RunLinker, SelectRecordings, Start, MarkAttempted, Merge, Stamp, Done,
           ItemFails, RunEnds, Untouched, TypeOK, graph
  <1>2. ASSUME NEW j \in Linkers \ {k} PROVE links'[j] = links[j]
    BY <1>2 DEF LinkerActs, RunLinker, SelectRecordings, Start, MarkAttempted, Merge, ItemFails, graph, TypeOK
  <1>3. UNCHANGED <<mbid, features, exhausted, deezer, marking, pending, books, overlapped>>
    BY DEF LinkerActs, RunLinker, SelectRecordings, Start, MarkAttempted, Merge, ItemFails, graph, buffers
  <1> QED BY <1>1, <1>2, <1>3

(* Those of track-acousticbrainz: features, terminal markers, its stamps.  *)
LEMMA AcousticBrainzActs ==
  ASSUME TypeOK, EnrichTrackAcousticBrainz
  PROVE  /\ \A q \in Pipelines \ {"acousticbrainz"} : Untouched(q)
         /\ UNCHANGED <<mbid, links, deezer, pending, overlapped>>
         /\ books'["deezer"] = books["deezer"]
  <1>1. ASSUME NEW q \in Pipelines \ {"acousticbrainz"} PROVE Untouched(q)
    BY PipelineNames, <1>1
       DEF EnrichTrackAcousticBrainz, SelectForAcousticBrainz, Start, WriteFeatures, BatchFails,
           SetFeatures, SetExhausted, MarkExhausted, MarkFails, Stamp, Done, RunEnds, Untouched, TypeOK, graph
  <1>2. UNCHANGED <<mbid, links, deezer, pending, overlapped>>
    BY DEF EnrichTrackAcousticBrainz, SelectForAcousticBrainz, Start, WriteFeatures, BatchFails,
           MarkExhausted, MarkFails, graph
  <1>3. books'["deezer"] = books["deezer"]
    BY PipelineNames
       DEF EnrichTrackAcousticBrainz, SelectForAcousticBrainz, WriteFeatures, BatchFails, CountFailed,
           MarkExhausted, MarkFails, TypeOK
  <1> QED BY <1>1, <1>2, <1>3

(* Those of track-deezer: Deezer data and its stamps.                      *)
LEMMA DeezerActs ==
  ASSUME TypeOK, EnrichTrackDeezer
  PROVE  /\ \A q \in Pipelines \ {"deezer"} : Untouched(q)
         /\ UNCHANGED <<mbid, links, features, exhausted, marking, overlapped>>
         /\ books'["acousticbrainz"] = books["acousticbrainz"]
  <1>1. ASSUME NEW q \in Pipelines \ {"deezer"} PROVE Untouched(q)
    BY PipelineNames, <1>1
       DEF EnrichTrackDeezer, SelectForDeezer, Start, LookUpIsrc, LookUpFails, Flush, FlushFails,
           SetDeezerData, Stamp, Done, RunEnds, Untouched, TypeOK, graph
  <1>2. UNCHANGED <<mbid, links, features, exhausted, marking, overlapped>>
    BY DEF EnrichTrackDeezer, SelectForDeezer, Start, LookUpIsrc, LookUpFails, Flush, FlushFails, graph
  <1>3. books'["acousticbrainz"] = books["acousticbrainz"]
    BY PipelineNames
       DEF EnrichTrackDeezer, SelectForDeezer, LookUpIsrc, LookUpFails, CountFailed, Flush, FlushFails, TypeOK
  <1> QED BY <1>1, <1>2, <1>3

(* The resets touch the graph, and none of what the runs hold.             *)
LEMMA ResetActs ==
  ASSUME \/ ResetTrackMusicBrainz \/ \E k \in Linkers : Unlink(k)
         \/ ResetTrackAcousticBrainz \/ ResetTrackDeezer
  PROVE  UNCHANGED <<running, todo, marking, pending, books>>
  BY DEF ResetTrackMusicBrainz, Unlink, ResetTrackAcousticBrainz, ResetTrackDeezer, Resets, buffers

(* What the reset of track-musicbrainz leaves of each track.               *)
LEMMA ResetClears ==
  ASSUME TypeOK, ResetTrackMusicBrainz, NEW t \in Tracks
  PROVE  LET reset == t \in attempted["musicbrainz"] IN
         /\ mbid'[t] = IF reset THEN None ELSE mbid[t]
         /\ features'[t] = IF reset THEN None ELSE features[t]
         /\ exhausted'[t] = IF reset THEN None ELSE exhausted[t]
         /\ deezer'[t] = IF reset THEN None ELSE deezer[t]
         /\ attempted'["musicbrainz"] = {} /\ links'["works"][t] = {}
         /\ \A p \in Cascade : t \in attempted'[p] <=> t \in attempted[p] /\ ~reset
         /\ overlapped' = overlapped \cup {p \in Cascade : running[p]}
  BY PipelineNames DEF ResetTrackMusicBrainz, TypeOK

-----------------------------------------------------------------------------
(* A run that is over leaves nothing held, and only one in progress holds. *)
LEMMA IdleStays ==
  ASSUME TypeOK, Idle, [Next]_vars
  PROVE  Idle'
  <1> USE PipelineNames
  <1>2. ASSUME NEW p \in Pipelines, ~running'[p] PROVE todo'[p] = {}
    <2>1. ASSUME NEW q \in Pipelines, NEW items, Done(q, items), UNCHANGED running PROVE todo'[p] = {}
      BY <1>2, <2>1 DEF Done, TypeOK, Idle
    <2>2. ASSUME NEW q \in Pipelines, RunEnds(q) PROVE todo'[p] = {}
      BY <1>2, <2>2 DEF RunEnds, TypeOK, Idle
    <2>3. ASSUME NEW q \in Pipelines, NEW candidates, Start(q, candidates) PROVE todo'[p] = {}
      BY <1>2, <2>3 DEF Start, TypeOK, Idle
    <2>4. ASSUME UNCHANGED <<todo, running>> PROVE todo'[p] = {}
      BY <1>2, <2>4 DEF Idle
    <2>5. CASE EnrichTrackMusicBrainz
      BY <2>1, <2>2, <2>3, <2>5 DEF EnrichTrackMusicBrainz, SelectReleases, ResolveRelease, ItemFails
    <2>6. ASSUME NEW k \in Linkers, LinkerActs(k) PROVE todo'[p] = {}
      BY <2>1, <2>2, <2>3, <2>6
         DEF LinkerActs, RunLinker, SelectRecordings, MarkAttempted, Merge, ItemFails
    <2>7. CASE EnrichTrackAcousticBrainz
      BY <2>1, <2>2, <2>3, <2>4, <2>7
         DEF EnrichTrackAcousticBrainz, SelectForAcousticBrainz, WriteFeatures, BatchFails, MarkExhausted, MarkFails
    <2>8. CASE EnrichTrackDeezer
      BY <2>1, <2>2, <2>3, <2>4, <2>8
         DEF EnrichTrackDeezer, SelectForDeezer, LookUpIsrc, LookUpFails, Flush, FlushFails
    <2>9. CASE Restart
      BY <2>9 DEF Restart
    <2>10. CASE Abort \/ UNCHANGED vars
      BY <2>4, <2>10 DEF Abort, vars
    <2> QED BY StepKinds, ResetActs, <2>4, <2>5, <2>6, <2>7, <2>8, <2>9, <2>10
  <1>3. ASSUME ~running'["acousticbrainz"] PROVE marking' = {}
    <2>1. ASSUME UNCHANGED marking, running'["acousticbrainz"] = running["acousticbrainz"] PROVE marking' = {}
      BY <1>3, <2>1 DEF Idle
    <2>2. CASE EnrichTrackAcousticBrainz
      <3>1. ASSUME NEW b \in Batches PROVE running["acousticbrainz"]
        <4>1. todo["acousticbrainz"] # {}
          BY <3>1 DEF Batches, Drawn
        <4> QED BY <4>1 DEF Idle
      <3>2. SelectForAcousticBrainz => running'["acousticbrainz"]
        BY DEF SelectForAcousticBrainz, Start, TypeOK
      <3> QED BY <1>3, <2>1, <2>2, <3>1, <3>2
              DEF EnrichTrackAcousticBrainz, WriteFeatures, BatchFails, MarkExhausted, MarkFails
    <2>3. CASE Restart
      BY <2>3 DEF Restart
    <2>4. CASE Abort \/ UNCHANGED vars
      BY <2>1, <2>4 DEF Abort, vars, buffers
    <2> QED BY StepKinds, ResetActs, MusicBrainzActs, LinkerActsAlone, DeezerActs, <2>1, <2>2, <2>3, <2>4
            DEF Untouched
  <1>4. ASSUME ~running'["deezer"] PROVE pending' = {}
    <2>1. ASSUME UNCHANGED pending, running'["deezer"] = running["deezer"] PROVE pending' = {}
      BY <1>4, <2>1 DEF Idle
    <2>2. CASE EnrichTrackDeezer
      <3>1. ASSUME NEW g \in Drawn("deezer") PROVE running["deezer"]
        BY <3>1 DEF Drawn, Idle
      <3>2. SelectForDeezer => running'["deezer"]
        BY DEF SelectForDeezer, Start, TypeOK
      <3> QED BY <1>4, <2>1, <2>2, <3>1, <3>2
              DEF EnrichTrackDeezer, LookUpIsrc, LookUpFails, Flush, FlushFails
    <2>3. CASE Restart
      BY <2>3 DEF Restart
    <2>4. CASE Abort \/ UNCHANGED vars
      BY <2>1, <2>4 DEF Abort, vars, buffers
    <2> QED BY StepKinds, ResetActs, MusicBrainzActs, LinkerActsAlone, AcousticBrainzActs, <2>1, <2>2, <2>3, <2>4
            DEF Untouched
  <1> QED BY <1>2, <1>3, <1>4 DEF Idle

(* A run goes on holding each of its tracks in one place.                  *)
LEMMA HeldOnceStays ==
  ASSUME TypeOK, Idle, HeldOnce, [Next]_vars
  PROVE  HeldOnce'
  <1> USE PipelineNames
  <1>0. /\ marking \in SUBSET Groups /\ \A p \in Grouped : todo[p] \in SUBSET Groups
        /\ \A gs \in SUBSET Groups : \A b \in SUBSET gs : Fanned(b) \subseteq Fanned(gs)
    BY DEF TypeOK, Fanned
  <1>1. ASSUME NEW p \in Grouped PROVE Apart(todo'[p])
    <2>1. CASE Selected(p)
      BY <2>1, GroupsOfSelection DEF Selected
    <2>2. CASE todo'[p] \subseteq todo[p]
      BY <2>2 DEF HeldOnce, Apart
    <2> QED BY <2>1, <2>2, Candidates
  <1>2. /\ Apart(marking') /\ Fanned(todo'["acousticbrainz"]) \cap Fanned(marking') = {}
    <2> DEFINE G == /\ Apart(marking') /\ Fanned(todo'["acousticbrainz"]) \cap Fanned(marking') = {}
    <2>1. ASSUME marking' = {} PROVE G
      BY <2>1 DEF Apart, Fanned
    <2>2. ASSUME UNCHANGED marking, todo'["acousticbrainz"] = todo["acousticbrainz"] PROVE G
      BY <2>2 DEF HeldOnce
    <2>3. CASE EnrichTrackAcousticBrainz
      <3>1. CASE SelectForAcousticBrainz
        <4>1. marking' = marking /\ ~running["acousticbrainz"]
          BY <3>1 DEF SelectForAcousticBrainz, Start
        <4> QED BY <2>1, <4>1 DEF Idle
      <3>2. ASSUME NEW b \in Batches, Done("acousticbrainz", b)
            PROVE  /\ b \in SUBSET todo["acousticbrainz"] /\ marking = {}
                   /\ todo'["acousticbrainz"] = todo["acousticbrainz"] \ b
        BY <3>2 DEF Batches, Drawn, Done, TypeOK
      <3>3. CASE WriteFeatures
        <4>1. PICK b \in Batches : Done("acousticbrainz", b) /\ marking' = b
          BY <3>3 DEF WriteFeatures
        <4>2. /\ b \in SUBSET todo["acousticbrainz"] /\ todo["acousticbrainz"] \in SUBSET Groups
              /\ todo'["acousticbrainz"] = todo["acousticbrainz"] \ b
          BY <1>0, <3>2, <4>1
        <4>3. Apart(todo["acousticbrainz"])
          BY DEF HeldOnce
        <4>4. Apart(b) /\ Fanned(b) \cap Fanned(todo["acousticbrainz"] \ b) = {}
          BY <4>2, <4>3, FannedParts
        <4> QED BY <4>1, <4>2, <4>4
      <3>4. CASE BatchFails
        BY <2>1, <3>2, <3>4 DEF BatchFails
      <3> QED BY <2>1, <2>3, <3>1, <3>3, <3>4 DEF EnrichTrackAcousticBrainz, MarkExhausted, MarkFails
    <2>4. CASE Restart
      BY <2>1, <2>4 DEF Restart
    <2>5. CASE Abort \/ UNCHANGED vars
      BY <2>2, <2>5 DEF Abort, vars, buffers
    <2> QED BY StepKinds, ResetActs, MusicBrainzActs, LinkerActsAlone, DeezerActs, <2>2, <2>3, <2>4, <2>5
            DEF Untouched
  <1>3. /\ \A a \in pending', b \in pending' : a.track = b.track => a = b
        /\ \A a \in pending' : a.track \notin Fanned(todo'["deezer"])
    <2> DEFINE G == /\ \A a \in pending', b \in pending' : a.track = b.track => a = b
                    /\ \A a \in pending' : a.track \notin Fanned(todo'["deezer"])
    <2>1. ASSUME pending' = {} PROVE G
      BY <2>1
    <2>2. ASSUME UNCHANGED pending, todo'["deezer"] \subseteq todo["deezer"] PROVE G
      BY <1>0, <2>2 DEF HeldOnce
    <2>3. CASE EnrichTrackDeezer
      <3>1. CASE SelectForDeezer
        <4>1. pending' = pending /\ ~running["deezer"]
          BY <3>1 DEF SelectForDeezer, Start
        <4> QED BY <2>1, <4>1 DEF Idle
      <3>2. CASE LookUpIsrc
        <4>0. PICK g \in Drawn("deezer") : \E data \in {g.key, None} :
                Done("deezer", {g}) /\ pending' = pending \cup [track : g.tracks, data : {data}]
          BY <3>2 DEF LookUpIsrc
        <4>1. PICK data \in {g.key, None} :
                Done("deezer", {g}) /\ pending' = pending \cup [track : g.tracks, data : {data}]
          BY <4>0
        <4>2. /\ g \in todo["deezer"] /\ g \in Groups
              /\ todo'["deezer"] = todo["deezer"] \ {g}
          BY <1>0, <4>1 DEF Drawn, Done, TypeOK
        <4>3. {g} \in SUBSET todo["deezer"] /\ Fanned({g}) = g.tracks
          BY <4>2 DEF Fanned
        <4>4. /\ g.tracks \cap Fanned(todo'["deezer"]) = {}
              /\ g.tracks \subseteq Fanned(todo["deezer"])
              /\ Fanned(todo'["deezer"]) \subseteq Fanned(todo["deezer"])
          BY <1>0, <4>2, <4>3, FannedParts DEF HeldOnce
        <4>5. \A a \in [track : g.tracks, data : {data}] :
                a.track \in g.tracks /\ a = [track |-> a.track, data |-> data]
          OBVIOUS
        <4>6. \A a \in pending : a.track \notin Fanned(todo["deezer"])
          BY DEF HeldOnce
        <4>7. \A a \in pending' : a.track \notin Fanned(todo'["deezer"])
          BY <4>1, <4>4, <4>5, <4>6
        <4>8. \A a \in pending', b \in pending' : a.track = b.track => a = b
          BY <4>1, <4>4, <4>5, <4>6 DEF HeldOnce
        <4> QED BY <4>7, <4>8
      <3>3. CASE LookUpFails
        <4>1. PICK g \in Drawn("deezer") : Done("deezer", {g})
          BY <3>3 DEF LookUpFails
        <4>2. todo'["deezer"] \subseteq todo["deezer"]
          BY <4>1 DEF Done, TypeOK
        <4> QED BY <2>2, <3>3, <4>2 DEF LookUpFails
      <3> QED BY <2>1, <2>3, <3>1, <3>2, <3>3 DEF EnrichTrackDeezer, Flush, FlushFails
    <2>4. CASE Restart
      BY <2>1, <2>4 DEF Restart
    <2>5. CASE Abort \/ UNCHANGED vars
      BY <2>2, <2>5 DEF Abort, vars, buffers
    <2> QED BY StepKinds, ResetActs, MusicBrainzActs, LinkerActsAlone, AcousticBrainzActs, <2>2, <2>3, <2>4, <2>5
            DEF Untouched
  <1> QED BY <1>1, <1>2, <1>3 DEF HeldOnce

(* The links stay of one recording, and the tracks that wait unlinked.     *)
LEMMA LinksOnceStays ==
  ASSUME TypeOK, HeldOnce, LinksOnce, [Next]_vars
  PROVE  LinksOnce'
  <1> USE PipelineNames
  <1> SUFFICES ASSUME NEW k \in Linkers
               PROVE  /\ \A t \in Tracks : \A r, s \in links'[k][t] : r = s
                      /\ \A t \in Fanned(todo'[k]) : links'[k][t] = {}
    BY DEF LinksOnce
  <1> DEFINE G == /\ \A t \in Tracks : \A r, s \in links'[k][t] : r = s
                  /\ \A t \in Fanned(todo'[k]) : links'[k][t] = {}
  <1>0. todo[k] \in SUBSET Groups /\ links[k] \in [Tracks -> SUBSET Recordings]
    BY DEF TypeOK
  <1>1. ASSUME links'[k] = links[k] PROVE G
    <2>1. CASE Selected(k)
      BY <1>1, <2>1, GroupsOfSelection DEF Selected, LinksOnce
    <2>2. CASE todo'[k] \subseteq todo[k]
      BY <1>1, <2>2 DEF LinksOnce, Fanned
    <2> QED BY <2>1, <2>2, Candidates
  <1>2. ASSUME links'[k] = [t \in Tracks |-> {}], todo'[k] = todo[k] PROVE G
    BY <1>0, <1>2, FannedParts
  <1>3. ASSUME NEW g \in Drawn(k), NEW linked \in SUBSET g.tracks, Merge(k, g, linked) PROVE G
    <2>1. /\ g \in todo[k] /\ g \in Groups /\ todo'[k] = todo[k] \ {g}
          /\ links'[k] = [t \in Tracks |-> IF t \in linked THEN links[k][t] \cup {g.key} ELSE links[k][t]]
      BY <1>0, <1>3 DEF Drawn, Merge, Done, TypeOK
    <2>2. {g} \in SUBSET todo[k] /\ Fanned({g}) = g.tracks
      BY <2>1 DEF Fanned
    <2>3. /\ g.tracks \cap Fanned(todo'[k]) = {} /\ g.tracks \subseteq Fanned(todo[k])
          /\ Fanned(todo'[k]) \subseteq Fanned(todo[k]) /\ Fanned(todo[k]) \subseteq Tracks
      <3>1. Apart(todo[k])
        BY DEF HeldOnce
      <3>2. g.tracks \cap Fanned(todo[k] \ {g}) = {} /\ Fanned(todo[k]) = g.tracks \cup Fanned(todo[k] \ {g})
        BY <1>0, <2>2, <3>1, FannedParts
      <3> QED BY <1>0, <2>1, <3>2, FannedParts
    <2>4. \A t \in linked : links'[k][t] = {g.key}
      BY <2>1, <2>3 DEF LinksOnce
    <2>5. \A t \in Tracks \ linked : links'[k][t] = links[k][t]
      BY <2>1
    <2> QED BY <2>3, <2>4, <2>5 DEF LinksOnce
  <1>4. ASSUME NEW j \in Linkers, LinkerActs(j) PROVE G
    <2>1. CASE j # k
      BY <1>1, <1>4, <2>1, LinkerActsAlone
    <2>2. CASE j = k /\ UNCHANGED links
      BY <1>1, <2>2
    <2> QED BY <1>3, <1>4, <2>1, <2>2
            DEF LinkerActs, RunLinker, SelectRecordings, Start, MarkAttempted, ItemFails, graph
  <1>5. ASSUME NEW j \in Linkers, Unlink(j) PROVE G
    <2>1. UNCHANGED todo
      BY <1>5, ResetActs
    <2>2. CASE j = k
      BY <1>2, <1>5, <2>1, <2>2 DEF Unlink, TypeOK
    <2>3. CASE j # k
      BY <1>1, <1>5, <2>3 DEF Unlink, TypeOK
    <2> QED BY <2>2, <2>3
  <1>6. CASE ResetTrackMusicBrainz
    <2>1. UNCHANGED todo
      BY <1>6, ResetActs
    <2>2. CASE k = "works"
      BY <1>2, <1>6, <2>1, <2>2 DEF ResetTrackMusicBrainz, TypeOK
    <2>3. CASE k # "works"
      BY <1>1, <1>6, <2>3 DEF ResetTrackMusicBrainz, TypeOK
    <2> QED BY <2>2, <2>3
  <1>7. CASE Abort \/ Restart \/ ResetTrackAcousticBrainz \/ ResetTrackDeezer \/ UNCHANGED vars
    BY <1>1, <1>7 DEF Abort, Restart, ResetTrackAcousticBrainz, ResetTrackDeezer, vars, graph
  <1> QED BY StepKinds, MusicBrainzActs, AcousticBrainzActs, DeezerActs, <1>1, <1>4, <1>5, <1>6, <1>7

(* No features beside a terminal marker, and none coming: the tracks that  *)
(* wait for either have neither.                                           *)
LEMMA StillWithoutStays ==
  ASSUME TypeOK, HeldOnce, StillWithout, ExhaustedIsConfirmed, [Next]_vars
  PROVE  StillWithout' /\ ExhaustedIsConfirmed'
  <1> USE PipelineNames
  <1> DEFINE W == todo["acousticbrainz"]
             G == StillWithout' /\ ExhaustedIsConfirmed'
  <1>0. /\ marking \in SUBSET Groups /\ W \in SUBSET Groups /\ Fanned(W) \subseteq Tracks
        /\ Fanned(marking) \subseteq Tracks
        /\ features \in [Tracks -> Source] /\ exhausted \in [Tracks -> Source]
    BY FannedParts DEF TypeOK
  <1>1. ASSUME UNCHANGED <<features, exhausted, marking>> PROVE G
    <2>1. CASE Selected("acousticbrainz")
      BY <1>1, <2>1, GroupsOfSelection DEF Selected, StillWithout, ExhaustedIsConfirmed, Absent
    <2>2. CASE todo'["acousticbrainz"] \subseteq W
      BY <1>1, <2>2 DEF StillWithout, ExhaustedIsConfirmed, Absent, Fanned
    <2> QED BY <2>1, <2>2, Candidates
  <1>2. ASSUME UNCHANGED <<todo, marking>>,
               \A t \in Tracks : \/ features'[t] = features[t] /\ exhausted'[t] = exhausted[t]
                                 \/ features'[t] = None /\ exhausted'[t] = None
        PROVE  G
    <2>1. StillWithout'
      <3>1. Fanned(Absent(marking)) \subseteq Tracks
        BY <1>0, FannedParts DEF Absent
      <3>2. Absent(marking') = Absent(marking)
        BY <1>2 DEF Absent
      <3> QED BY <1>0, <1>2, <3>1, <3>2 DEF StillWithout
    <2> QED BY <1>2, <2>1 DEF ExhaustedIsConfirmed
  <1>3. ASSUME NEW b \in Batches, Done("acousticbrainz", b),
               SetFeatures(b) \/ UNCHANGED features,
               UNCHANGED exhausted, marking' = b \/ marking' = {}
        PROVE  G
    <2>1. b \in SUBSET W /\ b \in SUBSET Groups /\ todo'["acousticbrainz"] = W \ b
      BY <1>0, <1>3 DEF Batches, Drawn, Done, TypeOK
    <2> DEFINE a == Absent(b)
    <2>2. a \in SUBSET b /\ (b \ a) \in SUBSET Groups
      BY <2>1 DEF Absent
    <2>3. Apart(W)
      BY DEF HeldOnce
    <2>4. /\ Fanned(b) \cap Fanned(W \ b) = {} /\ Apart(b) /\ Fanned(W) = Fanned(b) \cup Fanned(W \ b)
      BY <1>0, <2>1, <2>3, FannedParts
    <2>5. Fanned(a) \cap Fanned(b \ a) = {} /\ Fanned(b) = Fanned(a) \cup Fanned(b \ a)
      BY <2>1, <2>2, <2>4, FannedParts
    <2>6. \A t \in Tracks : t \notin Fanned(b \ a) => features'[t] = features[t]
      BY <1>3, <2>2, WrittenIsKey DEF SetFeatures
    <2>7. \A t \in Fanned(W) : features[t] = None /\ exhausted[t] = None
      BY DEF StillWithout
    <2>8. \A t \in Tracks : exhausted'[t] # None => exhausted'[t] \notin Analysed /\ features'[t] = None
      BY <1>3, <2>4, <2>5, <2>6, <2>7 DEF ExhaustedIsConfirmed
    <2>9. \A t \in Fanned(todo'["acousticbrainz"]) : features'[t] = None /\ exhausted'[t] = None
      BY <1>0, <1>3, <2>1, <2>4, <2>5, <2>6, <2>7
    <2>10. CASE marking' = b
      <3>1. Absent(marking') = a
        BY <2>10
      <3>2. \A t \in Fanned(b) : exhausted'[t] = None
        BY <1>3, <2>4, <2>7
      <3>3. \A t \in Fanned(a) : features'[t] = None
        BY <1>0, <2>4, <2>5, <2>6, <2>7
      <3> QED BY <2>8, <2>9, <2>10, <3>1, <3>2, <3>3 DEF StillWithout, ExhaustedIsConfirmed
    <2>11. CASE marking' = {}
      BY <2>8, <2>9, <2>11 DEF StillWithout, ExhaustedIsConfirmed, Absent, Fanned
    <2> QED BY <1>3, <2>10, <2>11
  <1>4. ASSUME SetExhausted(marking) \/ UNCHANGED exhausted, UNCHANGED <<todo, features>>, marking' = {} PROVE G
    <2> DEFINE a == Absent(marking)
    <2>1. a \in SUBSET Groups /\ Fanned(a) \subseteq Fanned(marking) /\ \A g \in a : g.key \notin Analysed
      BY <1>0 DEF Absent, Fanned
    <2>2. /\ \A t \in Tracks : t \notin Fanned(a) => exhausted'[t] = exhausted[t]
          /\ \A t \in Fanned(a) : exhausted'[t] = exhausted[t] \/ exhausted'[t] \notin Analysed
      BY <1>0, <1>4, <2>1, WrittenIsKey DEF SetExhausted
    <2>3. \A t \in Fanned(a) : features[t] = None
      BY DEF StillWithout
    <2>4. ExhaustedIsConfirmed'
      BY <1>4, <2>2, <2>3 DEF ExhaustedIsConfirmed
    <2>5. \A t \in Fanned(W) : features'[t] = None /\ exhausted'[t] = None
      BY <1>0, <1>4, <2>1, <2>2 DEF StillWithout, HeldOnce
    <2> QED BY <1>4, <2>4, <2>5 DEF StillWithout, Absent, Fanned
  <1>5. CASE EnrichTrackAcousticBrainz
    <2>1. CASE SelectForAcousticBrainz
      BY <1>1, <2>1 DEF SelectForAcousticBrainz, Start, graph
    <2>2. CASE WriteFeatures
      BY <1>3, <2>2 DEF WriteFeatures
    <2>3. CASE BatchFails
      <3>1. marking = {}
        BY <2>3 DEF BatchFails, Batches
      <3> QED BY <1>3, <2>3, <3>1 DEF BatchFails
    <2>4. CASE MarkExhausted \/ MarkFails
      BY <1>4, <2>4 DEF MarkExhausted, MarkFails
    <2> QED BY <1>1, <1>5, <2>1, <2>2, <2>3, <2>4 DEF EnrichTrackAcousticBrainz, graph
  <1>6. CASE ResetTrackMusicBrainz
    <2>1. ASSUME NEW t \in Tracks
          PROVE  \/ features'[t] = features[t] /\ exhausted'[t] = exhausted[t]
                 \/ features'[t] = None /\ exhausted'[t] = None
      BY <1>6, <2>1, ResetClears
    <2>2. UNCHANGED <<todo, marking>>
      BY <1>6, ResetActs
    <2> QED BY <1>2, <2>1, <2>2
  <1>7. CASE ResetTrackAcousticBrainz
    <2>1. \A t \in Tracks : features'[t] = None /\ exhausted'[t] = None
      BY <1>7 DEF ResetTrackAcousticBrainz
    <2> QED BY <1>2, <1>7, <2>1, ResetActs
  <1>8. ASSUME NEW k \in Linkers, Unlink(k) PROVE G
    <2>1. UNCHANGED <<features, exhausted, marking>>
      BY <1>8, ResetActs DEF Unlink
    <2> QED BY <1>1, <2>1
  <1>9. CASE ResetTrackDeezer
    BY <1>1, <1>9, ResetActs DEF ResetTrackDeezer
  <1>10. CASE Abort \/ UNCHANGED vars
    BY <1>1, <1>10 DEF Abort, vars, graph, buffers
  <1>11. CASE Restart
    <2>1. todo'["acousticbrainz"] = {} /\ marking' = {} /\ UNCHANGED <<features, exhausted>>
      BY <1>11 DEF Restart, graph
    <2>2. Fanned({}) = {} /\ Absent({}) = {}
      BY DEF Fanned, Absent
    <2> QED BY <2>1, <2>2 DEF StillWithout, ExhaustedIsConfirmed
  <1> QED BY StepKinds, MusicBrainzActs, LinkerActsAlone, DeezerActs,
             <1>1, <1>5, <1>6, <1>7, <1>8, <1>9, <1>10, <1>11

-----------------------------------------------------------------------------
(* The stamp of track-musicbrainz is taken off by its reset only.          *)
LEMMA StampKept ==
  ASSUME TypeOK, [Next]_vars, ~ResetTrackMusicBrainz
  PROVE  attempted["musicbrainz"] \subseteq attempted'["musicbrainz"]
  <1> USE PipelineNames
  <1> DEFINE G == attempted["musicbrainz"] \subseteq attempted'["musicbrainz"]
  <1>1. CASE EnrichTrackMusicBrainz
    <2>1. ASSUME NEW ts, Stamp("musicbrainz", ts) PROVE G
      BY <2>1 DEF Stamp, TypeOK
    <2>2. ASSUME UNCHANGED attempted PROVE G
      BY <2>2
    <2> QED BY <1>1, <2>1, <2>2
            DEF EnrichTrackMusicBrainz, SelectReleases, Start, ResolveRelease, WriteRelease, ItemFails, graph
  <1>2. ASSUME NEW k \in Linkers, LinkerActs(k) \/ Unlink(k) PROVE G
    BY <1>2, LinkerActsAlone DEF Untouched, Unlink, TypeOK
  <1>3. CASE ResetTrackAcousticBrainz \/ ResetTrackDeezer
    BY <1>3 DEF ResetTrackAcousticBrainz, ResetTrackDeezer, TypeOK
  <1>4. CASE Abort \/ Restart \/ UNCHANGED vars
    BY <1>4 DEF Abort, Restart, vars, graph
  <1> QED BY StepKinds, AcousticBrainzActs, DeezerActs, <1>1, <1>2, <1>3, <1>4 DEF Untouched

(* A track with an MBID carries the stamp of the stage that resolved it.   *)
LEMMA MbidIsStampedStays ==
  ASSUME TypeOK, MbidIsStamped, [Next]_vars
  PROVE  MbidIsStamped'
  <1> USE PipelineNames
  <1>1. ASSUME UNCHANGED mbid, ~ResetTrackMusicBrainz PROVE MbidIsStamped'
    BY <1>1, StampKept DEF MbidIsStamped
  <1>2. CASE ResetTrackMusicBrainz
    <2>1. ASSUME NEW t \in Tracks PROVE mbid'[t] = None
      BY <1>2, <2>1, ResetClears DEF MbidIsStamped
    <2> QED BY <2>1 DEF MbidIsStamped
  <1>3. CASE EnrichTrackMusicBrainz /\ ~ResetTrackMusicBrainz
    <2>1. ASSUME NEW rel \in Releases, NEW aligned \in Alignments(Tracklist[rel]),
                 NEW found \in Searches(Tracklist[rel] \ DOMAIN aligned), WriteRelease(rel, aligned, found)
          PROVE  MbidIsStamped'
      <3>1. DOMAIN aligned \subseteq Tracklist[rel]
        BY DEF Alignments
      <3>2. DOMAIN found \subseteq Tracklist[rel]
        BY DEF Searches
      <3>3. Tracklist[rel] \subseteq attempted'["musicbrainz"]
        BY <2>1 DEF WriteRelease, Stamp, TypeOK
      <3>4. \A t \in Tracks \ Tracklist[rel] : mbid'[t] = mbid[t]
        BY <2>1, <3>1, <3>2 DEF WriteRelease
      <3> QED BY <1>3, <3>3, <3>4, StampKept DEF MbidIsStamped
    <2>2. Drawn("musicbrainz") \subseteq Releases
      BY DEF Drawn, TypeOK
    <2> QED BY <1>1, <1>3, <2>1, <2>2
            DEF EnrichTrackMusicBrainz, SelectReleases, Start, ResolveRelease, ItemFails, graph
  <1>4. ASSUME NEW k \in Linkers, Unlink(k) PROVE UNCHANGED mbid
    BY <1>4 DEF Unlink
  <1>5. ResetTrackAcousticBrainz \/ ResetTrackDeezer => UNCHANGED mbid
    BY DEF ResetTrackAcousticBrainz, ResetTrackDeezer
  <1>6. Abort \/ Restart \/ UNCHANGED vars => UNCHANGED mbid
    BY DEF Abort, Restart, vars, graph
  <1> QED BY StepKinds, LinkerActsAlone, AcousticBrainzActs, DeezerActs, <1>1, <1>2, <1>3, <1>4, <1>5, <1>6

(* What a run comes to hold has an MBID; a run that is idle holds nothing. *)
LEMMA HeldAfter ==
  ASSUME TypeOK, Idle, [Next]_vars, NEW p \in Cascade
  PROVE  /\ \A t \in Held(p)' : t \in Held(p) \/ mbid[t] # None
         /\ ~running[p] => Held(p) = {}
  <1> USE PipelineNames
  <1>1. ASSUME ~running[p] PROVE Held(p) = {}
    <2>1. todo[p] = {} /\ (p = "acousticbrainz" => marking = {}) /\ (p = "deezer" => pending = {})
      BY <1>1 DEF Idle
    <2>2. Fanned({}) = {}
      BY DEF Fanned
    <2> QED BY <2>1, <2>2 DEF Held
  <1>2. ASSUME NEW t \in Tracks, t \in Fanned(todo'[p]) PROVE t \in Held(p) \/ mbid[t] # None
    <2>1. CASE Selected(p)
      BY <1>2, <2>1, GroupsOfSelection DEF Selected
    <2>2. CASE todo'[p] \subseteq todo[p]
      BY <1>2, <2>2 DEF Fanned, Held
    <2> QED BY <2>1, <2>2, Candidates
  <1>3. ASSUME NEW t \in Tracks, p = "acousticbrainz", t \in Fanned(marking') PROVE t \in Held(p)
    <2>1. \A b \in Batches : Fanned(b) \subseteq Fanned(todo["acousticbrainz"])
      BY DEF Batches, Drawn, Fanned
    <2>2. \/ marking' = marking \/ marking' = {} \/ \E b \in Batches : marking' = b
      <3>1. EnrichTrackAcousticBrainz =>
              \/ marking' = marking \/ marking' = {} \/ \E b \in Batches : marking' = b
        BY DEF EnrichTrackAcousticBrainz, SelectForAcousticBrainz, Start, WriteFeatures, BatchFails,
               MarkExhausted, MarkFails
      <3>2. Abort \/ Restart \/ UNCHANGED vars => marking' = marking \/ marking' = {}
        BY DEF Abort, Restart, vars, buffers
      <3> QED BY StepKinds, ResetActs, MusicBrainzActs, LinkerActsAlone, DeezerActs, <3>1, <3>2
    <2>3. Fanned({}) = {}
      BY DEF Fanned
    <2> QED BY <1>3, <2>1, <2>2, <2>3 DEF Held
  <1>4. ASSUME NEW t \in Tracks, p = "deezer", NEW a \in pending', a.track = t PROVE t \in Held(p)
    <2>1. ASSUME pending' \subseteq pending PROVE t \in Held(p)
      BY <1>4, <2>1 DEF Held
    <2>2. CASE LookUpIsrc
      <3>1. PICK g \in Drawn("deezer") : \E data \in {g.key, None} :
              pending' = pending \cup [track : g.tracks, data : {data}]
        BY <2>2 DEF LookUpIsrc
      <3>2. a \in pending \/ t \in g.tracks
        BY <1>4, <3>1
      <3> QED BY <1>4, <3>1, <3>2 DEF Held, Drawn, Fanned
    <2>3. EnrichTrackDeezer => LookUpIsrc \/ pending' \subseteq pending
      BY DEF EnrichTrackDeezer, SelectForDeezer, Start, LookUpFails, Flush, FlushFails
    <2>4. Abort \/ Restart \/ UNCHANGED vars => pending' \subseteq pending
      BY DEF Abort, Restart, vars, buffers
    <2> QED BY StepKinds, ResetActs, MusicBrainzActs, LinkerActsAlone, AcousticBrainzActs, <2>1, <2>2, <2>3, <2>4
  <1> QED BY <1>1, <1>2, <1>3, <1>4 DEF Held

(* A run leaves the history of overlaps when its own reset clears up after *)
(* it, and only then; every run the reset falls into enters it.            *)
LEMMA OverlapsAfter ==
  ASSUME TypeOK, [Next]_vars, NEW p \in Cascade
  PROVE  /\ p \in overlapped /\ p \notin overlapped' => ~running[p]
         /\ ResetTrackMusicBrainz /\ p \notin overlapped' => ~running[p] /\ p \notin overlapped
  <1> USE PipelineNames
  <1>1. ASSUME p \in overlapped, p \notin overlapped' PROVE ~running[p]
    <2>1. ASSUME NEW k \in Linkers, Unlink(k) PROVE ~running[p]
      BY <1>1, <2>1 DEF Unlink, Resets
    <2>2. CASE ResetTrackAcousticBrainz \/ ResetTrackDeezer
      BY <1>1, <2>2 DEF ResetTrackAcousticBrainz, ResetTrackDeezer, Resets
    <2>3. ~ResetTrackMusicBrainz
      BY <1>1 DEF ResetTrackMusicBrainz
    <2>4. ~(Abort \/ Restart \/ UNCHANGED vars)
      BY <1>1 DEF Abort, Restart, vars
    <2> QED BY StepKinds, MusicBrainzActs, LinkerActsAlone, AcousticBrainzActs, DeezerActs,
               <1>1, <2>1, <2>2, <2>3, <2>4
  <1>2. ASSUME ResetTrackMusicBrainz, p \notin overlapped' PROVE ~running[p] /\ p \notin overlapped
    BY <1>2 DEF ResetTrackMusicBrainz
  <1> QED BY <1>1, <1>2

(* A run still holds resolved tracks only, but for one a reset fell into.  *)
LEMMA HeldIsResolvedStays ==
  ASSUME TypeOK, Idle, MbidIsStamped, HeldIsResolved, [Next]_vars
  PROVE  HeldIsResolved'
  <1> SUFFICES ASSUME NEW p \in Cascade, p \notin overlapped', NEW t \in Tracks, t \in Held(p)'
               PROVE  t \in attempted'["musicbrainz"]
    BY DEF HeldIsResolved, Held
  <1>1. CASE ResetTrackMusicBrainz
    <2>1. Held(p) = {} /\ UNCHANGED <<todo, marking, pending>>
      BY <1>1, HeldAfter, OverlapsAfter, ResetActs
    <2> QED BY <2>1 DEF Held
  <1>2. CASE ~ResetTrackMusicBrainz
    <2>1. t \in Held(p) \/ mbid[t] # None
      BY HeldAfter
    <2>2. p \in overlapped => Held(p) = {}
      BY HeldAfter, OverlapsAfter
    <2> QED BY <1>2, <2>1, <2>2, StampKept DEF MbidIsStamped, HeldIsResolved
  <1> QED BY <1>1, <1>2

(* What a stage of the cascade leaves on a track: its stamp or its data.   *)
Marked(p, t) ==
    \/ t \in attempted[p]
    \/ p = "works" /\ links["works"][t] # {}
    \/ p = "acousticbrainz" /\ (features[t] # None \/ exhausted[t] # None)
    \/ p = "deezer" /\ deezer[t] # None

(* CascadeComplete, said of the marks a stage leaves on a track.           *)
LEMMA CascadeByMarks == CascadeComplete <=>
    \A p \in Cascade : \A t \in Tracks \ attempted["musicbrainz"] : Marked(p, t) => p \in overlapped
  <1> DEFINE C(p) == \A t \in Tracks \ attempted["musicbrainz"] : Marked(p, t) => p \in overlapped
  <1>1. (\A p \in Cascade : C(p)) <=> C("works") /\ C("acousticbrainz") /\ C("deezer")
    BY DEF Cascade
  <1>2. CascadeComplete <=> C("works") /\ C("acousticbrainz") /\ C("deezer")
    BY DEF CascadeComplete, Marked
  <1> QED BY <1>1, <1>2

(* A stage marks only tracks its run holds, in a step that is none of a    *)
(* reset's; and its own reset leaves no mark.                              *)
LEMMA MarkedAfter ==
  ASSUME TypeOK, [Next]_vars, NEW p \in Cascade, NEW t \in Tracks
  PROVE  \/ ~Marked(p, t)'
         \/ Marked(p, t) /\ (ResetTrackMusicBrainz => t \notin attempted["musicbrainz"])
                         /\ (p \in overlapped => p \in overlapped')
         \/ t \in Held(p) /\ overlapped' = overlapped /\ ~ResetTrackMusicBrainz
  <1> USE PipelineNames
  <1> DEFINE Same == Marked(p, t) /\ (ResetTrackMusicBrainz => t \notin attempted["musicbrainz"])
                       /\ (p \in overlapped => p \in overlapped')
             Adds == t \in Held(p) /\ overlapped' = overlapped /\ ~ResetTrackMusicBrainz
             G == ~Marked(p, t)' \/ Same \/ Adds
             Kept == /\ attempted'[p] = attempted[p]
                     /\ p = "works" => links'["works"] = links["works"]
                     /\ p = "acousticbrainz" => features' = features /\ exhausted' = exhausted
                     /\ p = "deezer" => deezer' = deezer
  <1>0. p \in Pipelines /\ p # "musicbrainz"
        /\ (p = "works" \/ p = "acousticbrainz" \/ p = "deezer")
    BY DEF Cascade
  <1>1. ASSUME Kept, ~ResetTrackMusicBrainz, p \in overlapped => p \in overlapped' PROVE G
    <2>1. Marked(p, t)' => Marked(p, t)
      BY <1>1 DEF Marked
    <2> QED BY <1>1, <2>1
  <1>2. CASE ResetTrackMusicBrainz
    <2>1. Marked(p, t)' => Marked(p, t) /\ t \notin attempted["musicbrainz"]
      BY <1>0, <1>2, ResetClears DEF Marked
    <2>2. overlapped \subseteq overlapped'
      BY <1>2 DEF ResetTrackMusicBrainz
    <2> QED BY <2>1, <2>2
  <1>3. CASE EnrichTrackMusicBrainz /\ ~ResetTrackMusicBrainz
    BY <1>0, <1>1, <1>3, MusicBrainzActs DEF Untouched
  <1>4. ASSUME NEW k \in Linkers, LinkerActs(k), ~ResetTrackMusicBrainz PROVE G
    <2>1. CASE k # p
      <3>1. Untouched(p) /\ (p = "works" => links'["works"] = links["works"])
            /\ UNCHANGED <<features, exhausted, deezer, overlapped>>
        BY <1>0, <1>4, <2>1, LinkerActsAlone
      <3> QED BY <1>1, <1>4, <3>1 DEF Untouched
    <2>2. CASE k = p
      <3>1. p = "works" /\ overlapped' = overlapped
        BY <1>0, <1>4, <2>2, LinkerActsAlone
      <3>2. ASSUME NEW g \in Drawn("works"), t \in g.tracks PROVE t \in Held(p)
        BY <3>1, <3>2 DEF Drawn, Fanned, Held
      <3>3. ASSUME NEW g \in Drawn("works"), NEW linked \in SUBSET g.tracks,
                   Merge("works", g, linked) \/ MarkAttempted("works", g), t \notin g.tracks
            PROVE  Marked(p, t)' => Marked(p, t)
        BY <3>1, <3>3 DEF Merge, MarkAttempted, Stamp, Marked, TypeOK
      <3>4. ASSUME UNCHANGED graph PROVE G
        <4>1. Kept /\ UNCHANGED overlapped
          BY <3>1, <3>4 DEF graph
        <4> QED BY <1>1, <1>4, <4>1
      <3>5. ASSUME NEW g \in Drawn("works"), NEW linked \in SUBSET g.tracks,
                   Merge("works", g, linked) \/ MarkAttempted("works", g)
            PROVE  G
        BY <1>4, <3>1, <3>2, <3>3, <3>5
      <3> QED BY <1>4, <2>2, <3>1, <3>4, <3>5
              DEF LinkerActs, RunLinker, SelectRecordings, Start, ItemFails
    <2> QED BY <2>1, <2>2
  <1>5. CASE EnrichTrackAcousticBrainz /\ ~ResetTrackMusicBrainz
    <2>1. CASE p # "acousticbrainz"
      <3>1. Untouched(p) /\ UNCHANGED <<links, deezer, overlapped>>
        BY <1>0, <1>5, <2>1, AcousticBrainzActs
      <3> QED BY <1>1, <1>5, <2>1, <3>1 DEF Untouched
    <2>2. CASE p = "acousticbrainz"
      <3>0. overlapped' = overlapped
        BY <1>5, AcousticBrainzActs
      <3>1. ASSUME UNCHANGED <<features, exhausted, attempted>> PROVE G
        BY <1>1, <1>5, <2>2, <3>0, <3>1
      <3>2. ASSUME NEW b \in SUBSET Groups, t \notin Fanned(b),
                   \/ SetFeatures(b) /\ UNCHANGED exhausted
                   \/ SetExhausted(b) /\ UNCHANGED features
            PROVE  Marked(p, t)' => Marked(p, t)
        <4>1. /\ b \ Absent(b) \in SUBSET Groups /\ Absent(b) \in SUBSET Groups
              /\ t \notin Fanned(b \ Absent(b)) /\ t \notin Fanned(Absent(b))
          BY <3>2 DEF Absent, Fanned
        <4>2. ASSUME NEW ts, t \notin ts, Stamp("acousticbrainz", ts)
              PROVE  t \in attempted'[p] => t \in attempted[p]
          BY <2>2, <4>2 DEF Stamp, TypeOK
        <4>3. t \in attempted'[p] => t \in attempted[p]
          BY <3>2, <4>1, <4>2 DEF SetFeatures, SetExhausted
        <4>4. features'[t] = features[t] /\ exhausted'[t] = exhausted[t]
          BY <3>2, <4>1, WrittenIsKey DEF SetFeatures, SetExhausted
        <4> QED BY <2>2, <4>3, <4>4 DEF Marked
      <3>3. ASSUME NEW b \in Batches PROVE b \in SUBSET Groups /\ (t \in Fanned(b) => t \in Held(p))
        BY <2>2 DEF Batches, Drawn, Held, Fanned, TypeOK
      <3>4. marking \in SUBSET Groups /\ (t \in Fanned(marking) => t \in Held(p))
        BY <2>2 DEF Held, TypeOK
      <3>5. ASSUME NEW b \in SUBSET Groups, t \in Fanned(b) => t \in Held(p),
                   \/ SetFeatures(b) /\ UNCHANGED exhausted
                   \/ SetExhausted(b) /\ UNCHANGED features
            PROVE  G
        BY <1>5, <3>0, <3>2, <3>5
      <3>6. CASE SelectForAcousticBrainz
        BY <3>1, <3>6 DEF SelectForAcousticBrainz, Start, graph
      <3>7. CASE WriteFeatures \/ BatchFails
        BY <3>1, <3>3, <3>5, <3>7 DEF WriteFeatures, BatchFails
      <3>8. CASE MarkExhausted \/ MarkFails
        BY <3>1, <3>4, <3>5, <3>8 DEF MarkExhausted, MarkFails
      <3> QED BY <1>5, <3>1, <3>6, <3>7, <3>8 DEF EnrichTrackAcousticBrainz, graph
    <2> QED BY <2>1, <2>2
  <1>6. CASE EnrichTrackDeezer /\ ~ResetTrackMusicBrainz
    <2>1. CASE p # "deezer"
      <3>1. Untouched(p) /\ UNCHANGED <<links, features, exhausted, overlapped>>
        BY <1>0, <1>6, <2>1, DeezerActs
      <3> QED BY <1>1, <1>6, <2>1, <3>1 DEF Untouched
    <2>2. CASE p = "deezer"
      <3>0. overlapped' = overlapped
        BY <1>6, DeezerActs
      <3>1. ASSUME UNCHANGED <<deezer, attempted>> PROVE G
        BY <1>1, <1>6, <2>2, <3>0, <3>1
      <3>2. ASSUME SetDeezerData PROVE G
        <4>1. CASE \E a \in pending : a.track = t
          BY <1>6, <2>2, <3>0, <4>1 DEF Held
        <4>2. CASE ~\E a \in pending : a.track = t
          <5>1. deezer'[t] = deezer[t] /\ (t \in attempted'["deezer"] => t \in attempted["deezer"])
            BY <3>2, <4>2 DEF SetDeezerData, Stamp, TypeOK
          <5>2. Marked(p, t)' => Marked(p, t)
            BY <2>2, <5>1 DEF Marked
          <5> QED BY <1>6, <3>0, <5>2
        <4> QED BY <4>1, <4>2
      <3> QED BY <1>6, <3>1, <3>2
              DEF EnrichTrackDeezer, SelectForDeezer, Start, LookUpIsrc, LookUpFails, Flush, FlushFails, graph
    <2> QED BY <2>1, <2>2
  <1>7. ASSUME NEW k \in Linkers, Unlink(k), ~ResetTrackMusicBrainz PROVE G
    <2>1. CASE k = p
      <3>1. p = "works"
        BY <1>0, <2>1
      <3> QED BY <1>7, <2>1, <3>1 DEF Unlink, Marked, TypeOK
    <2>2. CASE k # p
      BY <1>0, <1>1, <1>7, <2>2 DEF Unlink, TypeOK
    <2> QED BY <2>1, <2>2
  <1>8. CASE ResetTrackAcousticBrainz /\ ~ResetTrackMusicBrainz
    <2>1. CASE p = "acousticbrainz"
      BY <1>8, <2>1 DEF ResetTrackAcousticBrainz, Marked, TypeOK
    <2>2. CASE p # "acousticbrainz"
      BY <1>0, <1>1, <1>8, <2>2 DEF ResetTrackAcousticBrainz, TypeOK
    <2> QED BY <2>1, <2>2
  <1>9. CASE ResetTrackDeezer /\ ~ResetTrackMusicBrainz
    <2>1. CASE p = "deezer"
      BY <1>9, <2>1 DEF ResetTrackDeezer, Marked, TypeOK
    <2>2. CASE p # "deezer"
      BY <1>0, <1>1, <1>9, <2>2 DEF ResetTrackDeezer, TypeOK
    <2> QED BY <2>1, <2>2
  <1>10. CASE (Abort \/ Restart \/ UNCHANGED vars) /\ ~ResetTrackMusicBrainz
    <2>1. UNCHANGED graph /\ UNCHANGED overlapped
      BY <1>10 DEF Abort, Restart, vars
    <2> QED BY <1>1, <1>10, <2>1 DEF graph
  <1> QED BY StepKinds, <1>2, <1>3, <1>4, <1>5, <1>6, <1>7, <1>8, <1>9, <1>10

(* The cascade goes on being complete.                                     *)
LEMMA CascadeCompleteStays ==
  ASSUME TypeOK, Idle, HeldIsResolved, CascadeComplete, [Next]_vars
  PROVE  CascadeComplete'
  <1> DEFINE C(p) == \A t \in Tracks \ attempted["musicbrainz"] : Marked(p, t) => p \in overlapped
  <1>1. ASSUME NEW p \in Cascade, NEW t \in Tracks \ attempted'["musicbrainz"], Marked(p, t)'
        PROVE  p \in overlapped'
    <2>1. CASE Marked(p, t) /\ (ResetTrackMusicBrainz => t \notin attempted["musicbrainz"])
               /\ (p \in overlapped => p \in overlapped')
      <3>1. t \notin attempted["musicbrainz"]
        BY <2>1, StampKept
      <3> QED BY <2>1, <3>1, CascadeByMarks
    <2>2. CASE t \in Held(p) /\ overlapped' = overlapped /\ ~ResetTrackMusicBrainz
      BY <2>2, StampKept DEF HeldIsResolved
    <2> QED BY <1>1, <2>1, <2>2, MarkedAfter
  <1>2. C("works")' /\ C("acousticbrainz")' /\ C("deezer")'
    BY <1>1 DEF Cascade
  <1> QED BY <1>2 DEF CascadeComplete, Marked

-----------------------------------------------------------------------------
(* The tracks of disjoint groups add up.                                   *)
LEMMA TracksAddUp ==
  ASSUME NEW gs \in SUBSET Groups, NEW b \in SUBSET gs, Apart(gs)
  PROVE  /\ NumTracks(gs) = NumTracks(b) + NumTracks(gs \ b)
         /\ NumTracks(gs) \in Nat /\ NumTracks(b) \in Nat /\ NumTracks(gs \ b) \in Nat
  <1>1. /\ Fanned(gs) = Fanned(b) \cup Fanned(gs \ b) /\ Fanned(b) \cap Fanned(gs \ b) = {}
    BY FannedParts
  <1>2. IsFiniteSet(Fanned(b)) /\ IsFiniteSet(Fanned(gs \ b))
        /\ NumTracks(gs) \in Nat /\ NumTracks(b) \in Nat /\ NumTracks(gs \ b) \in Nat
    <2>1. b \in SUBSET Groups /\ gs \ b \in SUBSET Groups
      OBVIOUS
    <2> QED BY <2>1, FiniteParts
  <1>3. Cardinality(Fanned(gs)) =
          Cardinality(Fanned(b)) + Cardinality(Fanned(gs \ b)) - Cardinality({})
    BY <1>1, <1>2, FS_Union
  <1> QED BY <1>2, <1>3, FS_EmptySet DEF NumTracks

(* Deezer's buffer takes one answer per track of the group looked up.      *)
LEMMA OneAnswerPerTrack ==
  ASSUME NEW ts \in SUBSET Tracks, NEW d
  PROVE  Cardinality([track : ts, data : {d}]) = Cardinality(ts)
         /\ IsFiniteSet([track : ts, data : {d}])
  <1> DEFINE A == [track : ts, data : {d}]
             f == [t \in ts |-> [track |-> t, data |-> d]]
  <1>1. f \in [ts -> A]
    OBVIOUS
  <1>2. \A t, u \in ts : f[t] = f[u] => t = u
    <2> SUFFICES ASSUME NEW t \in ts, NEW u \in ts, f[t] = f[u] PROVE t = u
      OBVIOUS
    <2>1. f[t].track = t /\ f[u].track = u
      OBVIOUS
    <2> QED BY <2>1
  <1>3. ASSUME NEW a \in A PROVE \E t \in ts : f[t] = a
    <2>1. a.track \in ts /\ a = [track |-> a.track, data |-> d]
      OBVIOUS
    <2> QED BY <2>1
  <1> HIDE DEF f, A
  <1>4. f \in Bijection(ts, A)
    BY <1>1, <1>2, <1>3 DEF Bijection, Injection, IsInjective, Surjection
  <1>5. IsFiniteSet(ts)
    BY FiniteParts
  <1>6. Cardinality(A) = Cardinality(ts) /\ IsFiniteSet(A)
    BY <1>4, <1>5, FS_Bijection DEF ExistsBijection
  <1> QED BY <1>6 DEF A

(* The balance of one run.                                                 *)
AcousticBrainzBalance ==
    books["acousticbrainz"].selected =
      Settled(books["acousticbrainz"]) + (NumTracks(todo["acousticbrainz"]) + NumTracks(marking))

DeezerBalance ==
    books["deezer"].selected =
      Settled(books["deezer"]) + (NumTracks(todo["deezer"]) + Cardinality(pending))

(* BooksBalance, said of either pipeline that keeps books.                 *)
LEMMA BalanceOfEach ==
  TypeOK => (BooksBalance <=> /\ running["acousticbrainz"] => AcousticBrainzBalance
                              /\ running["deezer"] => DeezerBalance)
  <1> SUFFICES ASSUME TypeOK
               PROVE  BooksBalance <=> /\ running["acousticbrainz"] => AcousticBrainzBalance
                                       /\ running["deezer"] => DeezerBalance
    OBVIOUS
  <1>1. /\ books["acousticbrainz"] \in Counters /\ books["deezer"] \in Counters
        /\ todo["acousticbrainz"] \in SUBSET Groups /\ todo["deezer"] \in SUBSET Groups
        /\ marking \in SUBSET Groups /\ pending \in SUBSET Answers
    BY PipelineNames DEF TypeOK
  <1>2. /\ NumTracks(todo["acousticbrainz"]) \in Nat /\ NumTracks(todo["deezer"]) \in Nat
        /\ NumTracks(marking) \in Nat /\ Cardinality(pending) \in Nat
    BY <1>1, FiniteParts
  <1> DEFINE B(p) == running[p] => books[p].selected =
            books[p].processed + books[p].skipped + books[p].exhausted + books[p].failed
            + NumTracks(todo[p])
            + (IF p = "deezer" THEN Cardinality(pending) ELSE NumTracks(marking))
  <1>3. BooksBalance <=> B("acousticbrainz") /\ B("deezer")
    BY DEF BooksBalance, Batched
  <1>4. B("acousticbrainz") <=> (running["acousticbrainz"] => AcousticBrainzBalance)
    BY <1>1, <1>2 DEF AcousticBrainzBalance, Settled, Counters
  <1>5. B("deezer") <=> (running["deezer"] => DeezerBalance)
    BY <1>1, <1>2 DEF DeezerBalance, Settled, Counters
  <1> QED BY <1>3, <1>4, <1>5

(* The books of an AcousticBrainz run go on balancing.                     *)
LEMMA AcousticBrainzBalances ==
  ASSUME TypeOK, Idle, HeldOnce, running["acousticbrainz"] => AcousticBrainzBalance, [Next]_vars
  PROVE  running'["acousticbrainz"] => AcousticBrainzBalance'
  <1> USE PipelineNames
  <1> DEFINE p == "acousticbrainz"
             G == running'[p] => AcousticBrainzBalance'
             W == todo[p]
             A == Absent(marking)
  <1>0. /\ marking \in SUBSET Groups /\ W \in SUBSET Groups /\ Apart(W) /\ Apart(marking)
        /\ books[p] \in Counters /\ books[p].selected \in Int /\ Settled(books[p]) \in Int
        /\ NumTracks({}) = 0 /\ NumTracks(W) \in Nat /\ NumTracks(marking) \in Nat
    <2>1. marking \in SUBSET Groups /\ W \in SUBSET Groups /\ books[p] \in Counters
      BY DEF TypeOK
    <2>2. books[p].selected \in Int /\ Settled(books[p]) \in Int
      BY <2>1 DEF Counters, Settled
    <2>3. NumTracks({}) = 0
      <3>1. Fanned({}) = {}
        BY DEF Fanned
      <3> QED BY <3>1, FS_EmptySet DEF NumTracks
    <2> QED BY <2>1, <2>2, <2>3, FiniteParts DEF HeldOnce
  <1>1. ASSUME todo'[p] = todo[p], running'[p] = running[p], UNCHANGED marking, books'[p] = books[p] PROVE G
    BY <1>1 DEF AcousticBrainzBalance
  <1>2. CASE SelectForAcousticBrainz
    <2>1. PICK aged \in SUBSET attempted[p] :
            /\ Start(p, ByRecording(WithoutFeatures \cap NotThrottled(p, aged)))
            /\ books' = [books EXCEPT ![p] =
                 [NoBooks EXCEPT !.selected = Cardinality(WithoutFeatures \cap NotThrottled(p, aged))]]
      BY <1>2 DEF SelectForAcousticBrainz
    <2> DEFINE ts == WithoutFeatures \cap NotThrottled(p, aged)
               n == Cardinality(ts)
    <2>2. ts \in SUBSET Tracks /\ \A t \in ts : mbid[t] # None
      BY DEF WithoutFeatures
    <2>3. todo'[p] = ByRecording(ts) /\ marking' = marking /\ ~running[p]
      BY <2>1 DEF Start, TypeOK
    <2>4. marking = {}
      BY <2>3 DEF Idle
    <2>5. NumTracks(todo'[p]) = n
      BY <2>2, <2>3, GroupsOfSelection DEF NumTracks
    <2>6. n \in Nat
      BY <2>2, FiniteParts
    <2>7. books'[p].selected = n /\ Settled(books'[p]) = 0
      BY <2>1, <2>6, BooksAfter
    <2>8. NumTracks(marking') = 0
      BY <1>0, <2>3, <2>4
    <2> QED BY <2>5, <2>6, <2>7, <2>8 DEF AcousticBrainzBalance
  <1>3. ASSUME NEW b \in Batches, Done(p, b)
        PROVE  /\ todo'[p] = W \ b /\ marking = {} /\ b \in SUBSET Groups /\ AcousticBrainzBalance
               /\ NumTracks(W) = NumTracks(b) + NumTracks(W \ b)
               /\ NumTracks(b) \in Nat /\ NumTracks(W \ b) \in Nat
    <2>1. b \in SUBSET W /\ marking = {} /\ W # {}
      BY <1>3 DEF Batches, Drawn
    <2>2. running[p]
      BY <2>1 DEF Idle
    <2>3. todo'[p] = W \ b
      BY <1>3 DEF Done, TypeOK
    <2> QED BY <1>0, <2>1, <2>2, <2>3, TracksAddUp
  <1>4. CASE WriteFeatures
    <2>1. PICK b \in Batches : Done(p, b) /\ marking' = b
      BY <1>4 DEF WriteFeatures
    <2>2. UNCHANGED books
      BY <1>4 DEF WriteFeatures
    <2>3. /\ todo'[p] = W \ b /\ marking = {} /\ AcousticBrainzBalance
          /\ NumTracks(W) = NumTracks(b) + NumTracks(W \ b)
          /\ NumTracks(b) \in Nat /\ NumTracks(W \ b) \in Nat
      BY <1>3, <2>1
    <2>4. NumTracks(marking') = NumTracks(b) /\ NumTracks(marking) = 0 /\ NumTracks(todo'[p]) = NumTracks(W \ b)
      BY <1>0, <2>1, <2>3
    <2> QED BY <1>0, <2>2, <2>3, <2>4 DEF AcousticBrainzBalance
  <1>5. CASE BatchFails
    <2>1. PICK b \in Batches : Done(p, b) /\ CountFailed(p, NumTracks(b))
      BY <1>5 DEF BatchFails
    <2>2. UNCHANGED marking
      BY <1>5 DEF BatchFails
    <2>3. NumTracks(b) \in Nat
      BY <1>3, <2>1
    <2>4. books'[p].selected = books[p].selected /\ Settled(books'[p]) = Settled(books[p]) + NumTracks(b)
      BY <2>1, <2>3, BooksAfter
    <2>5. /\ todo'[p] = W \ b /\ marking = {} /\ AcousticBrainzBalance
          /\ NumTracks(W) = NumTracks(b) + NumTracks(W \ b)
          /\ NumTracks(b) \in Nat /\ NumTracks(W \ b) \in Nat
      BY <1>3, <2>1
    <2>6. marking' = marking /\ NumTracks(marking) = 0 /\ NumTracks(todo'[p]) = NumTracks(W \ b)
      BY <1>0, <2>2, <2>5
    <2> QED BY <1>0, <2>4, <2>5, <2>6 DEF AcousticBrainzBalance
  <1>6. /\ NumTracks(marking) = NumTracks(A) + NumTracks(marking \ A)
        /\ NumTracks(A) \in Nat /\ NumTracks(marking \ A) \in Nat
    BY <1>0, TracksAddUp DEF Absent
  <1>7. CASE MarkExhausted
    <2>1. UNCHANGED <<running, todo>> /\ marking' = {} /\ marking # {}
      BY <1>7 DEF MarkExhausted
    <2>2. Booked(p, NumTracks(marking \ A), NumTracks(A))
      BY <1>7 DEF MarkExhausted, Booked
    <2>3. /\ books'[p].selected = books[p].selected
          /\ Settled(books'[p]) = Settled(books[p]) + (NumTracks(marking \ A) + NumTracks(A))
      BY <1>6, <2>2, BooksAfter
    <2>4. NumTracks(marking') = 0 /\ todo'[p] = W
      BY <1>0, <2>1
    <2>5. AcousticBrainzBalance
      BY <2>1 DEF Idle
    <2> QED BY <1>0, <1>6, <2>3, <2>4, <2>5 DEF AcousticBrainzBalance
  <1>8. CASE MarkFails
    <2>1. UNCHANGED <<running, todo>> /\ marking' = {} /\ marking # {}
      BY <1>8 DEF MarkFails
    <2>2. CountFailed(p, NumTracks(marking))
      BY <1>8 DEF MarkFails
    <2>3. /\ books'[p].selected = books[p].selected
          /\ Settled(books'[p]) = Settled(books[p]) + NumTracks(marking)
      BY <1>0, <2>2, BooksAfter
    <2>4. NumTracks(marking') = 0 /\ todo'[p] = W
      BY <1>0, <2>1
    <2>5. AcousticBrainzBalance
      BY <2>1 DEF Idle
    <2> QED BY <1>0, <2>3, <2>4, <2>5 DEF AcousticBrainzBalance
  <1>9. ASSUME RunEnds(p) PROVE G
    BY <1>9 DEF RunEnds, TypeOK
  <1>10. EnrichTrackAcousticBrainz => G
    BY <1>2, <1>4, <1>5, <1>7, <1>8, <1>9 DEF EnrichTrackAcousticBrainz
  <1>11. Restart => G
    BY DEF Restart
  <1>12. Abort \/ UNCHANGED vars => G
    BY <1>1 DEF Abort, vars, buffers
  <1>13. EnrichTrackMusicBrainz \/ EnrichTrackDeezer \/ (\E k \in Linkers : LinkerActs(k)) => G
    BY <1>1, MusicBrainzActs, DeezerActs, LinkerActsAlone DEF Untouched
  <1> QED BY StepKinds, ResetActs, <1>1, <1>10, <1>11, <1>12, <1>13

(* So do those of a Deezer run.                                            *)
LEMMA DeezerBalances ==
  ASSUME TypeOK, Idle, HeldOnce, running["deezer"] => DeezerBalance, [Next]_vars
  PROVE  running'["deezer"] => DeezerBalance'
  <1> USE PipelineNames
  <1> DEFINE p == "deezer"
             G == running'[p] => DeezerBalance'
             W == todo[p]
  <1>0. /\ pending \in SUBSET Answers /\ W \in SUBSET Groups /\ Apart(W)
        /\ books[p] \in Counters /\ books[p].selected \in Int /\ Settled(books[p]) \in Int
        /\ Cardinality({}) = 0 /\ NumTracks(W) \in Nat
        /\ IsFiniteSet(pending) /\ Cardinality(pending) \in Nat
    <2>1. pending \in SUBSET Answers /\ W \in SUBSET Groups /\ books[p] \in Counters
      BY DEF TypeOK
    <2>2. books[p].selected \in Int /\ Settled(books[p]) \in Int
      BY <2>1 DEF Counters, Settled
    <2> QED BY <2>1, <2>2, FiniteParts, FS_EmptySet DEF HeldOnce
  <1>1. ASSUME todo'[p] = todo[p], running'[p] = running[p], UNCHANGED pending, books'[p] = books[p] PROVE G
    BY <1>1 DEF DeezerBalance
  <1>2. CASE SelectForDeezer
    <2>1. PICK aged \in SUBSET attempted[p] :
            /\ Start(p, ByRecording(WithoutDeezer \cap NotThrottled(p, aged)))
            /\ books' = [books EXCEPT ![p] =
                 [NoBooks EXCEPT !.selected = Cardinality(WithoutDeezer \cap NotThrottled(p, aged))]]
      BY <1>2 DEF SelectForDeezer
    <2> DEFINE ts == WithoutDeezer \cap NotThrottled(p, aged)
               n == Cardinality(ts)
    <2>2. ts \in SUBSET Tracks /\ \A t \in ts : mbid[t] # None
      BY TrackEnrichmentAssumption DEF WithoutDeezer
    <2>3. todo'[p] = ByRecording(ts) /\ pending' = pending /\ ~running[p]
      BY <2>1 DEF Start, TypeOK
    <2>4. pending = {}
      BY <2>3 DEF Idle
    <2>5. NumTracks(todo'[p]) = n
      BY <2>2, <2>3, GroupsOfSelection DEF NumTracks
    <2>6. n \in Nat
      BY <2>2, FiniteParts
    <2>7. books'[p].selected = n /\ Settled(books'[p]) = 0
      BY <2>1, <2>6, BooksAfter
    <2> QED BY <1>0, <2>3, <2>4, <2>5, <2>6, <2>7 DEF DeezerBalance
  <1>3. ASSUME NEW g \in Drawn(p), Done(p, {g})
        PROVE  /\ todo'[p] = W \ {g} /\ g \in Groups /\ DeezerBalance
               /\ NumTracks(W) = Cardinality(g.tracks) + NumTracks(W \ {g})
               /\ Cardinality(g.tracks) \in Nat /\ NumTracks(W \ {g}) \in Nat
               /\ g.tracks \in SUBSET Tracks /\ g.tracks \subseteq Fanned(W)
    <2>1. g \in W /\ g \in Groups /\ {g} \in SUBSET W /\ W # {}
      BY <1>0, <1>3 DEF Drawn
    <2>2. running[p]
      BY <2>1 DEF Idle
    <2>3. todo'[p] = W \ {g}
      BY <1>3 DEF Done, TypeOK
    <2>4. Fanned({g}) = g.tracks
      BY DEF Fanned
    <2>5. g.tracks \in SUBSET Tracks /\ g.tracks \subseteq Fanned(W)
      BY <2>1 DEF Groups, Fanned
    <2>6. /\ NumTracks(W) = NumTracks({g}) + NumTracks(W \ {g})
          /\ NumTracks({g}) \in Nat /\ NumTracks(W \ {g}) \in Nat
      BY <1>0, <2>1, TracksAddUp
    <2>7. NumTracks({g}) = Cardinality(g.tracks)
      BY <2>4 DEF NumTracks
    <2> QED BY <2>1, <2>2, <2>3, <2>5, <2>6, <2>7
  <1>4. CASE LookUpIsrc
    <2>1. PICK g \in Drawn(p) : \E data \in {g.key, None} :
            Done(p, {g}) /\ pending' = pending \cup [track : g.tracks, data : {data}]
      BY <1>4 DEF LookUpIsrc
    <2>2. PICK data \in {g.key, None} :
            Done(p, {g}) /\ pending' = pending \cup [track : g.tracks, data : {data}]
      BY <2>1
    <2>0. /\ todo'[p] = W \ {g} /\ DeezerBalance
          /\ NumTracks(W) = Cardinality(g.tracks) + NumTracks(W \ {g})
          /\ Cardinality(g.tracks) \in Nat /\ NumTracks(W \ {g}) \in Nat
          /\ g.tracks \in SUBSET Tracks /\ g.tracks \subseteq Fanned(W)
      BY <1>3, <2>2
    <2> DEFINE new == [track : g.tracks, data : {data}]
    <2>3. Cardinality(new) = Cardinality(g.tracks) /\ IsFiniteSet(new)
      BY <2>0, OneAnswerPerTrack
    <2>4. pending \cap new = {}
      <3>1. \A a \in new : a.track \in g.tracks
        OBVIOUS
      <3>2. \A a \in pending : a.track \notin Fanned(W)
        BY DEF HeldOnce
      <3> QED BY <2>0, <3>1, <3>2
    <2>5. Cardinality(pending \cup new) = Cardinality(pending) + Cardinality(new) - Cardinality({})
      BY <1>0, <2>3, <2>4, FS_Union
    <2>6. UNCHANGED books
      BY <1>4 DEF LookUpIsrc
    <2>7. Cardinality(pending') = Cardinality(pending) + Cardinality(g.tracks)
      BY <1>0, <2>0, <2>2, <2>3, <2>5
    <2>8. NumTracks(todo'[p]) = NumTracks(W \ {g})
      BY <2>0
    <2> HIDE DEF new
    <2> QED BY <1>0, <2>0, <2>6, <2>7, <2>8 DEF DeezerBalance
  <1>5. CASE LookUpFails
    <2>1. PICK g \in Drawn(p) : Done(p, {g}) /\ CountFailed(p, Cardinality(g.tracks))
      BY <1>5 DEF LookUpFails
    <2>2. UNCHANGED pending
      BY <1>5 DEF LookUpFails
    <2>3. Cardinality(g.tracks) \in Nat
      BY <1>3, <2>1
    <2>4. books'[p].selected = books[p].selected
          /\ Settled(books'[p]) = Settled(books[p]) + Cardinality(g.tracks)
      BY <2>1, <2>3, BooksAfter
    <2>5. /\ todo'[p] = W \ {g} /\ DeezerBalance
          /\ NumTracks(W) = Cardinality(g.tracks) + NumTracks(W \ {g})
          /\ Cardinality(g.tracks) \in Nat /\ NumTracks(W \ {g}) \in Nat
          /\ g.tracks \in SUBSET Tracks /\ g.tracks \subseteq Fanned(W)
      BY <1>3, <2>1
    <2>6. pending' = pending /\ NumTracks(todo'[p]) = NumTracks(W \ {g})
      BY <2>2, <2>5
    <2> QED BY <1>0, <2>4, <2>5, <2>6 DEF DeezerBalance
  <1>6. ASSUME UNCHANGED <<running, todo>>, pending' = {}, pending # {},
               books'[p].selected = books[p].selected,
               Settled(books'[p]) = Settled(books[p]) + Cardinality(pending)
        PROVE  G
    <2>1. DeezerBalance
      BY <1>6 DEF Idle
    <2> QED BY <1>0, <1>6, <2>1 DEF DeezerBalance
  <1>7. CASE Flush
    <2> DEFINE matched == {a \in pending : a.data # None}
               m == Cardinality(matched)
               n == Cardinality(pending \ matched)
    <2>1. matched \in SUBSET Answers /\ pending \ matched \in SUBSET Answers
      BY <1>0
    <2>2. m \in Nat /\ n \in Nat /\ IsFiniteSet(matched) /\ IsFiniteSet(pending \ matched)
      BY <2>1, FiniteParts
    <2>3. Booked(p, m, n)
      BY <1>7 DEF Flush, Booked
    <2>4. Cardinality(pending) = m + n
      <3>1. matched \cup (pending \ matched) = pending /\ matched \cap (pending \ matched) = {}
        OBVIOUS
      <3> HIDE DEF matched
      <3>2. Cardinality(pending) = m + n - Cardinality({})
        BY <2>2, <3>1, FS_Union
      <3> QED BY <1>0, <2>2, <3>2
    <2> HIDE DEF m, n
    <2>5. books'[p].selected = books[p].selected /\ Settled(books'[p]) = Settled(books[p]) + (m + n)
      BY <2>2, <2>3, BooksAfter
    <2>6. UNCHANGED <<running, todo>> /\ pending' = {} /\ pending # {}
      BY <1>7 DEF Flush, FlushDue
    <2> QED BY <1>6, <2>4, <2>5, <2>6
  <1>8. CASE FlushFails
    <2>1. UNCHANGED <<running, todo>> /\ pending' = {} /\ pending # {} /\ CountFailed(p, Cardinality(pending))
      BY <1>8 DEF FlushFails, FlushDue
    <2>2. /\ books'[p].selected = books[p].selected
          /\ Settled(books'[p]) = Settled(books[p]) + Cardinality(pending)
      BY <1>0, <2>1, BooksAfter
    <2> QED BY <1>6, <2>1, <2>2
  <1>9. ASSUME RunEnds(p) PROVE G
    BY <1>9 DEF RunEnds, TypeOK
  <1>10. EnrichTrackDeezer => G
    BY <1>2, <1>4, <1>5, <1>7, <1>8, <1>9 DEF EnrichTrackDeezer
  <1>11. Restart => G
    BY DEF Restart
  <1>12. Abort \/ UNCHANGED vars => G
    BY <1>1 DEF Abort, vars, buffers
  <1>13. EnrichTrackMusicBrainz \/ EnrichTrackAcousticBrainz \/ (\E k \in Linkers : LinkerActs(k)) => G
    BY <1>1, MusicBrainzActs, AcousticBrainzActs, LinkerActsAlone DEF Untouched
  <1> QED BY StepKinds, ResetActs, <1>1, <1>10, <1>11, <1>12, <1>13

-----------------------------------------------------------------------------
(* All of it holds when the service starts on an empty graph.              *)
LEMMA Initially == Init => IInv
  <1> SUFFICES ASSUME Init PROVE IInv
    OBVIOUS
  <1> USE PipelineNames
  <1>0. Fanned({}) = {} /\ Absent({}) = {}
    BY DEF Fanned, Absent
  <1>1. TypeOK
    BY InitTyped
  <1>2. Idle
    BY DEF Init, Idle
  <1>3. HeldOnce
    BY <1>0 DEF Init, HeldOnce, Apart
  <1>4. LinksOnce
    BY <1>0 DEF Init, LinksOnce
  <1>5. StillWithout /\ ExhaustedIsConfirmed
    BY <1>0 DEF Init, StillWithout, ExhaustedIsConfirmed
  <1>6. MbidIsStamped
    BY DEF Init, MbidIsStamped
  <1>7. HeldIsResolved
    BY <1>0 DEF Init, HeldIsResolved, Held
  <1>8. CascadeComplete
    BY DEF Init, CascadeComplete
  <1>9. BooksBalance
    <2>1. \A p \in Batched : ~running[p]
      BY DEF Init, Batched, Pipelines
    <2> QED BY <2>1 DEF BooksBalance
  <1> QED BY <1>1, <1>2, <1>3, <1>4, <1>5, <1>6, <1>7, <1>8, <1>9 DEF IInv

(* And every step keeps it.                                                *)
LEMMA Inductive == IInv /\ [Next]_vars => IInv'
  <1>0. (TypeOK => (BooksBalance <=> /\ running["acousticbrainz"] => AcousticBrainzBalance
                                     /\ running["deezer"] => DeezerBalance))'
    BY BalanceOfEach, PTL
  <1> SUFFICES ASSUME IInv, [Next]_vars PROVE IInv'
    OBVIOUS
  <1>1. /\ TypeOK /\ Idle /\ HeldOnce /\ LinksOnce /\ StillWithout /\ ExhaustedIsConfirmed
        /\ MbidIsStamped /\ HeldIsResolved /\ CascadeComplete /\ BooksBalance
    BY DEF IInv
  <1>2. TypeOK' /\ Idle' /\ HeldOnce' /\ LinksOnce' /\ StillWithout' /\ ExhaustedIsConfirmed'
    BY <1>1, StepTyped, IdleStays, HeldOnceStays, LinksOnceStays, StillWithoutStays
  <1>3. MbidIsStamped' /\ HeldIsResolved' /\ CascadeComplete'
    BY <1>1, MbidIsStampedStays, HeldIsResolvedStays, CascadeCompleteStays
  <1>4. /\ running["acousticbrainz"] => AcousticBrainzBalance
        /\ running["deezer"] => DeezerBalance
    BY <1>1, BalanceOfEach
  <1>5. /\ running'["acousticbrainz"] => AcousticBrainzBalance'
        /\ running'["deezer"] => DeezerBalance'
    BY <1>1, <1>4, AcousticBrainzBalances, DeezerBalances
  <1>6. BooksBalance'
    BY <1>0, <1>2, <1>5
  <1> QED BY <1>2, <1>3, <1>6 DEF IInv

(* The invariant holds in every state.                                     *)
LEMMA Invariant == Spec => []IInv
  BY Initially, Inductive, PTL DEF Spec

(* OneRecording, whatever is resolved again, reset or run side by side: a  *)
(* stage links only tracks that had no link of it when they were selected, *)
(* and no other run links them before the write.                           *)
THEOREM LinksAreOfOneRecording == Spec => []OneRecording
  <1>1. IInv => OneRecording
    <2> SUFFICES ASSUME IInv, NEW k \in Linkers, NEW t \in Tracks
                 PROVE  Cardinality(links[k][t]) <= 1
      BY DEF OneRecording
    <2>1. \A r, s \in links[k][t] : r = s
      BY DEF IInv, LinksOnce
    <2>2. links[k][t] = {} \/ \E r : links[k][t] = {r}
      BY <2>1
    <2>3. Cardinality({}) = 0 /\ \A r : Cardinality({r}) = 1
      BY FS_EmptySet, FS_Singleton
    <2>4. Cardinality(links[k][t]) = 0 \/ Cardinality(links[k][t]) = 1
      BY <2>2, <2>3
    <2> QED BY <2>4
  <1> QED BY <1>1, Invariant, PTL

(* ExhaustedIsConfirmed: the terminal marker is only on tracks whose       *)
(* recording AcousticBrainz does not have, and never beside features.      *)
THEOREM MarkerIsTerminal == Spec => []ExhaustedIsConfirmed
  <1>1. IInv => ExhaustedIsConfirmed
    BY DEF IInv
  <1> QED BY <1>1, Invariant, PTL

(* CascadeComplete: a track whose identifiers were reset keeps no stamp or *)
(* data of a stage of the cascade, but where the reset fell into a run of  *)
(* that stage.                                                             *)
THEOREM ResetIsComplete == Spec => []CascadeComplete
  <1>1. IInv => CascadeComplete
    BY DEF IInv
  <1> QED BY <1>1, Invariant, PTL

(* BooksBalance: at every moment of a batched run each track it selected   *)
(* waits, is in a buffer or was counted once, whatever failed in between.  *)
THEOREM BooksAlwaysBalance == Spec => []BooksBalance
  <1>1. IInv => BooksBalance
    BY DEF IInv
  <1> QED BY <1>1, Invariant, PTL

=============================================================================
