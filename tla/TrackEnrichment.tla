---------------------------- MODULE TrackEnrichment ----------------------------
(***************************************************************************)
(* What the track stages write on the Track nodes of the graph and when:   *)
(* track-musicbrainz resolves each track's recording MBID and ISRC, and    *)
(* six stages derive data from those identifiers.  A run reads its         *)
(* candidates once, grouped by the identifier, and writes each group much  *)
(* later by elementId; different pipelines may run at the same time (the   *)
(* admin routes refuse only a second run, or a reset, of the same one).    *)
(*                                                                         *)
(* Recordings stand for their identifiers; what a stage derived is named   *)
(* by the recording it was derived from.  A stamp (...FetchedAt) that is   *)
(* there may be older than the staleness window or not at any query.       *)
(***************************************************************************)
EXTENDS Naturals, FiniteSets, FiniteSetsExt

CONSTANTS
    Tracks, Releases,
    Tracklist,     \* HAS_TRACK: the tracks of a release, set by ingestion
    Recordings,    \* MusicBrainz recordings
    Registered,    \* those that have an ISRC
    Analysed,      \* those AcousticBrainz, which is frozen, has a feature of
    MaxBatch,      \* MAX_RECORDING_IDS_PER_CALL
    WriteBatch,    \* WRITE_BATCH_SIZE
    MaxStarts,     \* bound: runs and resets
    MaxParallel,   \* bound: runs in progress at a time
    None

Linkers == {"works", "artists", "places", "lineage"}
Batched == {"acousticbrainz", "deezer"}
Pipelines == {"musicbrainz"} \cup Linkers \cup Batched

ASSUME TrackEnrichmentAssumption ==
    /\ Tracklist \in [Releases -> SUBSET Tracks]
    /\ IsFiniteSet(Tracks) /\ IsFiniteSet(Recordings) /\ None \notin Recordings
    /\ Registered \subseteq Recordings /\ Analysed \subseteq Recordings
    /\ MaxBatch \in Nat \ {0} /\ WriteBatch \in Nat \ {0}
    /\ MaxStarts \in Nat /\ MaxParallel \in Nat

VARIABLES
    mbid,        \* Track.recordingMbid; Track.isrc is that of the recording
    attempted,   \* per pipeline, the tracks that carry its stamp
    links,       \* edges a linking stage made, by the recording they are of
    features,    \* the recording whose AcousticBrainz features the track has
    exhausted,   \* the one it was found exhausted for
    deezer,      \* the one whose Deezer data it has
    running,     \* per pipeline, PipelineState.running
    todo,        \* per pipeline, the candidates its run has not settled
    marking,     \* groups whose features are written and the rest is not
    pending,     \* Deezer's buffer of answers to write
    books,       \* the counters of a batched run and what it selected
    aborted,     \* the shutdown signal
    overlapped,  \* history: runs a reset of track-musicbrainz fell into
    starts

graph == <<mbid, attempted, links, features, exhausted, deezer>>
buffers == <<marking, pending, books>>
vars == <<graph, running, todo, buffers, aborted, overlapped, starts>>

NoBooks == [selected |-> 0, processed |-> 0, skipped |-> 0, exhausted |-> 0, failed |-> 0]

Init ==
    /\ mbid = [t \in Tracks |-> None]
    /\ attempted = [p \in Pipelines |-> {}]
    /\ links = [k \in Linkers |-> [t \in Tracks |-> {}]]
    /\ features = [t \in Tracks |-> None]
    /\ exhausted = [t \in Tracks |-> None]
    /\ deezer = [t \in Tracks |-> None]
    /\ running = [p \in Pipelines |-> FALSE]
    /\ todo = [p \in Pipelines |-> {}]
    /\ marking = {} /\ pending = {}
    /\ books = [p \in Batched |-> NoBooks]
    /\ aborted = FALSE
    /\ overlapped = {}
    /\ starts = 0

-----------------------------------------------------------------------------
(* POST /<name>/enrich: a run starts when its pipeline is idle, and reads  *)
(* its candidates.  One that finds none, or starts once the signal has     *)
(* fired, changes nothing and is left out.  A candidate is not throttled:  *)
(* it carries no stamp, or one that has aged past the window.              *)
Start(p, candidates) ==
    /\ ~running[p] /\ ~aborted
    /\ starts < MaxStarts /\ Cardinality({q \in Pipelines : running[q]}) < MaxParallel
    /\ candidates # {}
    /\ starts' = starts + 1
    /\ running' = [running EXCEPT ![p] = TRUE]
    /\ todo' = [todo EXCEPT ![p] = candidates]
    /\ UNCHANGED <<graph, marking, pending, aborted, overlapped>>

NotThrottled(p, aged) == (Tracks \ attempted[p]) \cup aged

(* One lookup per identifier, fanned out to every candidate that has it. *)
ByRecording(ts) ==
    {[key |-> r, tracks |-> {t \in ts : mbid[t] = r}] : r \in {mbid[t] : t \in ts}}

(* The next item of the run, none once the signal has fired. *)
Drawn(p) == IF aborted THEN {} ELSE todo[p]

Done(p, items) == todo' = [todo EXCEPT ![p] = @ \ items]

Stamp(p, ts) == attempted' = [attempted EXCEPT ![p] = @ \cup ts]

(* An item that fails is dropped with nothing written.  One the in-run     *)
(* sweep takes up again is, until then, one that is not settled yet.       *)
ItemFails(p) ==
    /\ \E item \in Drawn(p) : Done(p, {item})
    /\ UNCHANGED <<graph, running, buffers, aborted, overlapped, starts>>

RunEnds(p) ==
    /\ running[p] /\ Drawn(p) = {}
    /\ running' = [running EXCEPT ![p] = FALSE]
    /\ todo' = [todo EXCEPT ![p] = {}]

(* POST /<name>/reset takes the same running flag; one that finds no stamp *)
(* has nothing to clear and is left out, and one after the signal writes   *)
(* what it would have just before.                                         *)
Resets(p) ==
    /\ ~running[p] /\ starts < MaxStarts
    /\ ~aborted /\ attempted[p] # {}
    /\ starts' = starts + 1
    /\ UNCHANGED <<running, todo, buffers, aborted>>

-----------------------------------------------------------------------------
(* track-musicbrainz.  A release is taken up for any one track without an  *)
(* MBID, and its whole tracklist rewritten.                                *)
WantsMbid(ts, aged) ==
    {rel \in Releases :
        \E t \in Tracklist[rel] \cap ts : mbid[t] = None /\ t \in NotThrottled("musicbrainz", aged)}

SelectReleases ==
    \E aged \in SUBSET attempted["musicbrainz"] :
        Start("musicbrainz", WantsMbid(Tracks, aged)) /\ UNCHANGED books

(* alignTracklist: a track gets the MBID of the entry at its place when    *)
(* the two agree; the others get none.  An open breaker has no entries.    *)
Alignments(ts) == UNION {[matched -> Recordings] : matched \in SUBSET ts}

(* searchRecording: null when the search finds nothing, and also when the  *)
(* request fails or the breaker is open.                                   *)
SearchAnswers == Recordings \cup {None}

Searches(ts) == [ts -> SearchAnswers]

WriteRelease(rel, aligned, found) ==
    /\ mbid' = [t \in Tracks |->
                  IF t \in DOMAIN aligned THEN aligned[t]
                  ELSE IF t \in DOMAIN found THEN found[t] ELSE mbid[t]]
    /\ Stamp("musicbrainz", Tracklist[rel])

ResolveRelease ==
    /\ \E rel \in Drawn("musicbrainz") :
        /\ Done("musicbrainz", {rel})
        /\ \E aligned \in Alignments(Tracklist[rel]) :
             \E found \in Searches(Tracklist[rel] \ DOMAIN aligned) :
                 WriteRelease(rel, aligned, found)
    /\ UNCHANGED <<links, features, exhausted, deezer, running, buffers, aborted, overlapped, starts>>

(* The reset clears what it takes to be keyed by the identifiers. *)
Cascade == {"works", "acousticbrainz", "deezer"}

(* A slip: the terminal marker outlives the MBID it was set for. *)
ResetKeepsExhausted ==
    LET ts == attempted["musicbrainz"]
        cleared(f) == [t \in Tracks |-> IF t \in ts THEN None ELSE f[t]] IN
    /\ Resets("musicbrainz")
    /\ mbid' = cleared(mbid)
    /\ features' = cleared(features)
    /\ deezer' = cleared(deezer)
    /\ attempted' = [p \in Pipelines |->
                       IF p \in Cascade \cup {"musicbrainz"} THEN attempted[p] \ ts ELSE attempted[p]]
    /\ links' = [links EXCEPT !["works"] = [t \in Tracks |-> {}]]
    /\ overlapped' = overlapped \cup {p \in Cascade : running[p]}
    /\ UNCHANGED exhausted

ResetTrackMusicBrainz ==
    LET ts == attempted["musicbrainz"]
        cleared(f) == [t \in Tracks |-> IF t \in ts THEN None ELSE f[t]] IN
    /\ Resets("musicbrainz")
    /\ mbid' = cleared(mbid)
    /\ features' = cleared(features)
    /\ exhausted' = cleared(exhausted)
    /\ deezer' = cleared(deezer)
    /\ attempted' = [p \in Pipelines |->
                       IF p \in Cascade \cup {"musicbrainz"} THEN attempted[p] \ ts ELSE attempted[p]]
    /\ links' = [links EXCEPT !["works"] = [t \in Tracks |-> {}]]
    /\ overlapped' = overlapped \cup {p \in Cascade : running[p]}

EnrichTrackMusicBrainz ==
    \/ SelectReleases
    \/ ResolveRelease
    \/ ItemFails("musicbrainz")
    \/ RunEnds("musicbrainz") /\ UNCHANGED <<graph, buffers, aborted, overlapped, starts>>

-----------------------------------------------------------------------------
(* The four stages that link a track to nodes of its recording, all run by *)
(* runEnrichment: candidates, a lookup that finds something or nothing,    *)
(* one write.                                                              *)
SelectRecordings(k, lacking) ==
    \E aged \in SUBSET attempted[k] :
        /\ Start(k, ByRecording({t \in lacking \cap NotThrottled(k, aged) : mbid[t] # None}))
        /\ UNCHANGED books

Merge(k, g, linked) ==
    /\ Done(k, {g}) /\ Stamp(k, g.tracks)
    /\ links' = [links EXCEPT ![k] = [t \in Tracks |->
                   IF t \in linked THEN @[t] \cup {g.key} ELSE @[t]]]
    /\ UNCHANGED <<mbid, features, exhausted, deezer, running, buffers, aborted, overlapped, starts>>

(* Nothing found, or the recording is gone, or the breaker is open. *)
MarkAttempted(k, g) ==
    /\ Done(k, {g}) /\ Stamp(k, g.tracks)
    /\ UNCHANGED <<mbid, links, features, exhausted, deezer, running, buffers, aborted, overlapped, starts>>

RunLinker(k, lacking) ==
    \/ SelectRecordings(k, lacking)
    \/ \E g \in Drawn(k) : MarkAttempted(k, g)
    \/ ItemFails(k)
    \/ RunEnds(k) /\ UNCHANGED <<graph, buffers, aborted, overlapped, starts>>

(* Its own reset deletes every edge of the stage and every stamp. *)
Unlink(k) ==
    /\ Resets(k)
    /\ links' = [links EXCEPT ![k] = [t \in Tracks |-> {}]]
    /\ attempted' = [attempted EXCEPT ![k] = {}]
    /\ overlapped' = overlapped \ {k}
    /\ UNCHANGED <<mbid, features, exhausted, deezer>>

(* RECORDING_OF a Work.  A slip: linked tracks are looked up again. *)
AnyTrack == Tracks

WithoutWork == {t \in Tracks : links["works"][t] = {}}

MergeTrackWorks(g) == Merge("works", g, g.tracks)

EnrichTrackWorks ==
    \/ RunLinker("works", WithoutWork)
    \/ \E g \in Drawn("works") : MergeTrackWorks(g)

ResetTrackWorks == Unlink("works")

(* CREDITED_ON with source musicbrainz: where the person already has a     *)
(* credit on the track, that edge is met and keeps its source.             *)
WithoutMbCredit == {t \in Tracks : links["artists"][t] = {}}

MergeRecordingArtistCredits(g) == \E linked \in SUBSET g.tracks : Merge("artists", g, linked)

EnrichTrackRecordingArtists ==
    \/ RunLinker("artists", WithoutMbCredit)
    \/ \E g \in Drawn("artists") : MergeRecordingArtistCredits(g)

ResetRecordingArtists == Unlink("artists")

(* RECORDED_AT a Studio, with source musicbrainz. *)
WithoutMbStudio == {t \in Tracks : links["places"][t] = {}}

MergeRecordingPlaces(g) == Merge("places", g, g.tracks)

EnrichTrackRecordingPlaces ==
    \/ RunLinker("places", WithoutMbStudio)
    \/ \E g \in Drawn("places") : MergeRecordingPlaces(g)

ResetRecordingPlaces == Unlink("places")

(* RELATED_RECORDING. *)
WithoutLineage == {t \in Tracks : links["lineage"][t] = {}}

MergeRecordingLineage(g) == Merge("lineage", g, g.tracks)

EnrichTrackRecordingLineage ==
    \/ RunLinker("lineage", WithoutLineage)
    \/ \E g \in Drawn("lineage") : MergeRecordingLineage(g)

ResetRecordingLineage == Unlink("lineage")

-----------------------------------------------------------------------------
Fanned(gs) == UNION {g.tracks : g \in gs}
NumTracks(gs) == Cardinality(Fanned(gs))
Written(f, gs) ==
    [t \in Tracks |-> IF t \in Fanned(gs) THEN (CHOOSE g \in gs : t \in g.tracks).key ELSE f[t]]

(* track-acousticbrainz: a batch of recordings per call, the features of   *)
(* those that have any, then the terminal marker of the others.            *)
WithoutFeatures == {t \in Tracks : mbid[t] # None /\ exhausted[t] = None /\ features[t] = None}

SelectForAcousticBrainz ==
    \E aged \in SUBSET attempted["acousticbrainz"] :
        LET ts == WithoutFeatures \cap NotThrottled("acousticbrainz", aged) IN
        /\ Start("acousticbrainz", ByRecording(ts))
        /\ books' = [books EXCEPT !["acousticbrainz"] = [NoBooks EXCEPT !.selected = Cardinality(ts)]]

Batches ==
    LET left == Drawn("acousticbrainz") IN
    IF marking # {} THEN {}
    ELSE {b \in SUBSET left : b # {} /\ Cardinality(b) = Min({MaxBatch, Cardinality(left)})}

(* getFeatures throws where it cannot tell, so what it leaves out is gone. *)
Absent(batch) == {g \in batch : g.key \notin Analysed}

SetFeatures(batch) ==
    /\ features' = Written(features, batch \ Absent(batch))
    /\ Stamp("acousticbrainz", Fanned(batch \ Absent(batch)))

SetExhausted(batch) ==
    /\ exhausted' = Written(exhausted, Absent(batch))
    /\ Stamp("acousticbrainz", Fanned(Absent(batch)))

CountFailed(p, n) == books' = [books EXCEPT ![p].failed = @ + n]

WriteFeatures ==
    /\ \E batch \in Batches :
        /\ Done("acousticbrainz", batch) /\ SetFeatures(batch)
        /\ marking' = batch
    /\ UNCHANGED <<mbid, links, exhausted, deezer, running, pending, books, aborted, overlapped, starts>>

(* A slip: an open breaker reads as a response without any recording. *)
BatchReadsAsEmpty ==
    /\ \E batch \in Batches :
        /\ Done("acousticbrainz", batch)
        /\ exhausted' = Written(exhausted, batch)
        /\ Stamp("acousticbrainz", Fanned(batch))
        /\ CountFailed("acousticbrainz", NumTracks(batch))
    /\ UNCHANGED <<mbid, links, features, deezer, running, marking, pending, aborted, overlapped, starts>>

(* The call throws, or the write does, committed or not. *)
BatchFails ==
    /\ \E batch \in Batches :
        /\ Done("acousticbrainz", batch)
        /\ SetFeatures(batch) \/ UNCHANGED <<features, attempted>>
        /\ CountFailed("acousticbrainz", NumTracks(batch))
    /\ UNCHANGED <<mbid, links, exhausted, deezer, running, marking, pending, aborted, overlapped, starts>>

MarkExhausted ==
    /\ marking # {}
    /\ SetExhausted(marking)
    /\ books' = [books EXCEPT
         !["acousticbrainz"].processed = @ + NumTracks(marking \ Absent(marking)),
         !["acousticbrainz"].exhausted = @ + NumTracks(Absent(marking))]
    /\ marking' = {}
    /\ UNCHANGED <<mbid, links, features, deezer, running, todo, pending, aborted, overlapped, starts>>

MarkFails ==
    /\ marking # {}
    /\ SetExhausted(marking) \/ UNCHANGED <<exhausted, attempted>>
    /\ CountFailed("acousticbrainz", NumTracks(marking))
    /\ marking' = {}
    /\ UNCHANGED <<mbid, links, features, deezer, running, todo, pending, aborted, overlapped, starts>>

EnrichTrackAcousticBrainz ==
    \/ SelectForAcousticBrainz
    \/ WriteFeatures \/ BatchFails
    \/ MarkExhausted \/ MarkFails
    \/ /\ marking = {} /\ RunEnds("acousticbrainz")
       /\ books' = [books EXCEPT !["acousticbrainz"] = NoBooks]
       /\ UNCHANGED <<graph, marking, pending, aborted, overlapped, starts>>

ResetTrackAcousticBrainz ==
    /\ Resets("acousticbrainz")
    /\ features' = [t \in Tracks |-> None]
    /\ exhausted' = [t \in Tracks |-> None]
    /\ attempted' = [attempted EXCEPT !["acousticbrainz"] = {}]
    /\ overlapped' = overlapped \ {"acousticbrainz"}
    /\ UNCHANGED <<mbid, links, deezer>>

-----------------------------------------------------------------------------
(* track-deezer: one lookup per ISRC, the answers buffered and written     *)
(* WriteBatch tracks at a time, the last ones also when the signal fired.  *)
WithoutDeezer == {t \in Tracks : mbid[t] \in Registered /\ deezer[t] = None}

SelectForDeezer ==
    \E aged \in SUBSET attempted["deezer"] :
        LET ts == WithoutDeezer \cap NotThrottled("deezer", aged) IN
        /\ Start("deezer", ByRecording(ts))
        /\ books' = [books EXCEPT !["deezer"] = [NoBooks EXCEPT !.selected = Cardinality(ts)]]

BufferFull == Cardinality(pending) >= WriteBatch

(* Data, or none: not in the catalogue, or an open breaker. *)
LookUpIsrc ==
    /\ ~BufferFull
    /\ \E g \in Drawn("deezer") : \E data \in {g.key, None} :
        /\ Done("deezer", {g})
        /\ pending' = pending \cup [track : g.tracks, data : {data}]
    /\ UNCHANGED <<graph, running, marking, books, aborted, overlapped, starts>>

LookUpFails ==
    /\ ~BufferFull
    /\ \E g \in Drawn("deezer") :
        /\ Done("deezer", {g})
        /\ CountFailed("deezer", Cardinality(g.tracks))
    /\ UNCHANGED <<graph, running, marking, pending, aborted, overlapped, starts>>

SetDeezerData ==
    /\ deezer' = [t \in Tracks |->
                   IF \E a \in pending : a.track = t
                   THEN (CHOOSE a \in pending : a.track = t).data ELSE deezer[t]]
    /\ Stamp("deezer", {a.track : a \in pending})

FlushDue == pending # {} /\ (BufferFull \/ Drawn("deezer") = {})

Flush ==
    /\ FlushDue
    /\ SetDeezerData
    /\ LET matched == {a \in pending : a.data # None} IN
         books' = [books EXCEPT
           !["deezer"].processed = @ + Cardinality(matched),
           !["deezer"].skipped = @ + Cardinality(pending \ matched)]
    /\ pending' = {}
    /\ UNCHANGED <<mbid, links, features, exhausted, running, todo, marking, aborted, overlapped, starts>>

(* A slip: the buffer is cleared only when it was written. *)
FlushFailsKeepingBuffer ==
    /\ FlushDue
    /\ SetDeezerData \/ UNCHANGED <<deezer, attempted>>
    /\ CountFailed("deezer", Cardinality(pending))
    /\ UNCHANGED <<mbid, links, features, exhausted, running, todo, marking, pending, aborted, overlapped, starts>>

FlushFails ==
    /\ FlushDue
    /\ SetDeezerData \/ UNCHANGED <<deezer, attempted>>
    /\ CountFailed("deezer", Cardinality(pending))
    /\ pending' = {}
    /\ UNCHANGED <<mbid, links, features, exhausted, running, todo, marking, aborted, overlapped, starts>>

EnrichTrackDeezer ==
    \/ SelectForDeezer
    \/ LookUpIsrc \/ LookUpFails
    \/ Flush \/ FlushFails
    \/ /\ pending = {} /\ RunEnds("deezer")
       /\ books' = [books EXCEPT !["deezer"] = NoBooks]
       /\ UNCHANGED <<graph, marking, pending, aborted, overlapped, starts>>

ResetTrackDeezer ==
    /\ Resets("deezer")
    /\ deezer' = [t \in Tracks |-> None]
    /\ attempted' = [attempted EXCEPT !["deezer"] = {}]
    /\ overlapped' = overlapped \ {"deezer"}
    /\ UNCHANGED <<mbid, links, features, exhausted>>

-----------------------------------------------------------------------------
(* SIGTERM: every run goes on to its next check and ends there.            *)
Abort ==
    /\ ~aborted /\ \E p \in Pipelines : running[p]
    /\ aborted' = TRUE
    /\ UNCHANGED <<graph, running, todo, buffers, overlapped, starts>>

(* The process dies, in order or not, and another one starts. *)
Restart ==
    /\ \E p \in Pipelines : running[p]
    /\ running' = [p \in Pipelines |-> FALSE]
    /\ todo' = [p \in Pipelines |-> {}]
    /\ marking' = {} /\ pending' = {}
    /\ books' = [p \in Batched |-> NoBooks]
    /\ aborted' = FALSE
    /\ UNCHANGED <<graph, overlapped, starts>>

Enrich ==
    \/ EnrichTrackMusicBrainz
    \/ EnrichTrackWorks \/ EnrichTrackRecordingArtists
    \/ EnrichTrackRecordingPlaces \/ EnrichTrackRecordingLineage
    \/ EnrichTrackAcousticBrainz \/ EnrichTrackDeezer

Reset ==
    \/ ResetTrackMusicBrainz
    \/ ResetTrackWorks \/ ResetRecordingArtists
    \/ ResetRecordingPlaces \/ ResetRecordingLineage
    \/ ResetTrackAcousticBrainz \/ ResetTrackDeezer

Next == Enrich \/ Reset \/ Abort \/ Restart

Spec == Init /\ [][Next]_vars

-----------------------------------------------------------------------------
Groups == [key : Recordings, tracks : SUBSET Tracks]

(* Whatever is resolved again, reset or run side by side, what a stage has *)
(* linked a track to is of one recording, never of two.                    *)
OneRecording ==
    \A k \in Linkers, t \in Tracks : Cardinality(links[k][t]) <= 1

(* "a confirmed absence never gains data": the terminal marker is only on  *)
(* tracks found without any analysis, never beside features, whatever      *)
(* failed, crashed or was resolved again between the two writes.           *)
ExhaustedIsConfirmed ==
    \A t \in Tracks : exhausted[t] # None => exhausted[t] \notin Analysed /\ features[t] = None

(* Stale markers: a track whose identifiers were reset keeps no stamp or   *)
(* data of a stage the reset cascades to, unless that stage had a run in   *)
(* progress then and wrote it afterwards.                                  *)
CascadeComplete ==
    \A t \in Tracks \ attempted["musicbrainz"] :
        /\ t \in attempted["works"] \/ links["works"][t] # {} => "works" \in overlapped
        /\ t \in attempted["acousticbrainz"] \/ features[t] # None \/ exhausted[t] # None =>
             "acousticbrainz" \in overlapped
        /\ t \in attempted["deezer"] \/ deezer[t] # None => "deezer" \in overlapped

(* The counters of a batched run: every track it selected is waiting, in a *)
(* buffer, or counted once.                                                *)
BooksBalance ==
    \A p \in Batched : running[p] =>
        books[p].selected =
            books[p].processed + books[p].skipped + books[p].exhausted + books[p].failed
            + NumTracks(todo[p])
            + (IF p = "deezer" THEN Cardinality(pending) ELSE NumTracks(marking))

=============================================================================
