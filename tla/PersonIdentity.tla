----------------------------- MODULE PersonIdentity -----------------------------
(***************************************************************************)
(* Who is who in the graph.  A person may have an Artist node (one per     *)
(* Discogs id, by constraint) and Musician nodes, which no constraint      *)
(* keeps apart: credits merge them by Discogs id or, without one, by name; *)
(* recording credits of MusicBrainz merge them by MBID.  Four pipelines    *)
(* write these nodes, and each finds them by a key of its own.             *)
(*                                                                         *)
(* Every action below is one autocommitted query (or transaction) with the *)
(* answer it waited for.  The stamps (...FetchedAt) only throttle: which   *)
(* of the eligible nodes a run takes up is left open.                      *)
(***************************************************************************)
EXTENDS Naturals, FiniteSets, Sequences, Functions

CONSTANTS
    Ids,            \* Discogs ids of persons
    Mbids,          \* MusicBrainz artists
    Names,
    Releases,
    Targets,        \* what a credit is on: releases and their tracks
    ReleaseOf,      \* the release of each
    Recorded,       \* the targets that are tracks with a recording MBID
    ReleasedBy,     \* Discogs: the artists of a release ...
    Extraartists,   \* ... and its credits, those of its tracks last
    Performers,     \* MusicBrainz: the artists of a recording ...
    MbName,         \* ... how it names them ...
    DiscogsLink,    \* ... and the MBID with a relation to the Discogs id
    Nodes,          \* bound: Musician nodes at a time
    MaxIngests,     \* bound: ingestions
    MaxStarts,      \* bound: runs and resets of the other pipelines
    MaxDeaths,      \* bound: restarts of the service
    None

Credits == [id : Ids \cup {None}, name : Names, on : Targets]
Pipelines == {"mb-artist-id", "nationality", "track-recording-artists"}
Stages == {"idle", "artists", "musicians"}

ASSUME PersonIdentityAssumption ==
    /\ ReleaseOf \in [Targets -> Releases]
    /\ Recorded \subseteq Targets
    /\ None \notin Ids \cup Mbids \cup Names \cup {"discogs", "musicbrainz"}
    /\ ReleasedBy \in [Releases -> Seq(Ids)] /\ Extraartists \in [Releases -> Seq(Credits)]
    /\ Performers \in [Recorded -> SUBSET Mbids] /\ MbName \in [Mbids -> Names]
    /\ DiscogsLink \in [Ids -> Mbids \cup {None}]
    /\ IsFiniteSet(Nodes) /\ MaxIngests \in Nat /\ MaxStarts \in Nat /\ MaxDeaths \in Nat

VARIABLES
    artists,     \* the Artist nodes
    musicians,   \* the Musician nodes, with their CREDITED_ON and SAME_PERSON_AS
    shelf,       \* releases with their labels, genres, styles, country, studios, tracks
    queries,     \* the queries left of the release being ingested
    left,        \* the releases an ingestion has not taken up
    stage,       \* per pipeline, which of its two candidate lists it works on
    todo,        \* the candidates of that list it has not settled
    reconciled,  \* history: person-reconciliation ran since the last ingestion
    ingests, starts, deaths

graph == <<artists, musicians, shelf>>
ingest == <<queries, left>>
runs == <<stage, todo>>
bounds == <<ingests, starts, deaths>>
vars == <<graph, ingest, runs, reconciled, bounds>>

NoNode == [here |-> FALSE]
NoArtist == [here |-> FALSE, mbid |-> None, country |-> None]
NewMusician(id, mbid, name) ==
    [here |-> TRUE, id |-> id, mbid |-> mbid, name |-> name,
     credit |-> [t \in Targets |-> None], same |-> {}, country |-> None]

Init ==
    /\ artists = [i \in Ids |-> NoArtist]
    /\ musicians = [n \in Nodes |-> NoNode]
    /\ shelf = {} /\ queries = <<>> /\ left = {}
    /\ stage = [p \in Pipelines |-> "idle"]
    /\ todo = [p \in Pipelines |-> {}]
    /\ reconciled = FALSE
    /\ ingests = 0 /\ starts = 0 /\ deaths = 0

-----------------------------------------------------------------------------
(* MATCH (:Musician {...}): every node with the key.                       *)
Here == {n \in Nodes : musicians[n].here}
WithId(i) == {n \in Here : musicians[n].id = i}
WithName(x) == {n \in Here : musicians[n].name = x}
WithMbid(m) == {n \in Here : musicians[n].mbid = m}
Unused == Nodes \ Here

(* MERGE: all that match, or one new node.  No free node is a bound.       *)
Matched(ns, new) ==
    IF ns # {} THEN [n \in ns |-> musicians[n]]
    ELSE IF Unused = {} THEN <<>>
    ELSE [n \in {CHOOSE u \in Unused : TRUE} |-> new]

Written(nodes) == [n \in Nodes |-> IF n \in DOMAIN nodes THEN nodes[n] ELSE musicians[n]]

-----------------------------------------------------------------------------
(* Ingestion: the queries of mergeReleaseGraph, in order.                  *)
MergeArtists(r) == [k \in DOMAIN ReleasedBy[r] |-> [query |-> "artist", of |-> ReleasedBy[r][k]]]

MergeCredits(r) ==
    LET cs == Extraartists[r] IN
    [k \in 1 .. 2 * Len(cs) |->
        LET c == cs[(k + 1) \div 2] IN
        IF k % 2 = 1 THEN [query |-> "credit", of |-> c] ELSE [query |-> "same", of |-> c.id]]

MergeReleaseGraph(r) ==
    MergeArtists(r) \o <<[query |-> "shelve", of |-> r]>> \o MergeCredits(r)

Idle == \A p \in Pipelines : stage[p] = "idle"
Ingesting == queries # <<>> \/ left # {}

(* POST /ingest, and the releases stage of a reload: alone.                *)
StartIngest ==
    /\ Idle /\ ~Ingesting /\ ingests < MaxIngests
    /\ ingests' = ingests + 1
    /\ left' = Releases /\ reconciled' = FALSE
    /\ UNCHANGED <<graph, queries, runs, starts, deaths>>

(* getRelease answers, or fails and the next release is taken up.          *)
NextRelease ==
    /\ queries = <<>>
    /\ \E r \in left :
        /\ left' = left \ {r}
        /\ \/ queries' = MergeReleaseGraph(r)
           \/ queries' = <<>>
    /\ UNCHANGED <<graph, runs, reconciled, bounds>>

IngestArtist(i) ==
    /\ artists' = [artists EXCEPT ![i].here = TRUE]
    /\ UNCHANGED <<musicians, shelf>>

(* The queries between the artists and the credits touch no person.        *)
Shelve(r) == shelf' = shelf \cup {r} /\ UNCHANGED <<artists, musicians>>

(* The name is what the credit says last; the edge is Discogs' now, also   *)
(* where MusicBrainz had made it.                                          *)
CreditedAs(node, c) ==
    [node EXCEPT !.name = c.name, !.credit[c.on] = "discogs"]

IngestCredit(c) ==
    LET ns == IF c.id # None THEN WithId(c.id) ELSE WithName(c.name)
        nodes == Matched(ns, NewMusician(c.id, None, c.name))
    IN /\ nodes # <<>>
       /\ musicians' = Written([n \in DOMAIN nodes |-> CreditedAs(nodes[n], c)])
       /\ UNCHANGED <<artists, shelf>>

MergeSamePersonAs(i) ==
    /\ musicians' = Written([n \in {m \in WithId(i) : i # None /\ artists[i].here} |->
                        [musicians[n] EXCEPT !.same = @ \cup {i}]])
    /\ UNCHANGED <<artists, shelf>>

RunQuery ==
    /\ queries # <<>>
    /\ LET q == Head(queries) IN
        CASE q.query = "artist" -> IngestArtist(q.of)
          [] q.query = "shelve" -> Shelve(q.of)
          [] q.query = "credit" -> IngestCredit(q.of)
          [] q.query = "same"   -> MergeSamePersonAs(q.of)
    /\ queries' = Tail(queries)
    /\ UNCHANGED <<left, runs, reconciled, bounds>>

(* A query fails: the release is given up with a prefix of it written.     *)
QueryFails ==
    /\ queries # <<>> /\ queries' = <<>>
    /\ UNCHANGED <<graph, left, runs, reconciled, bounds>>

-----------------------------------------------------------------------------
(* POST /<name>/enrich: beside other pipelines, not beside an ingestion.   *)
(* A run reads its candidates, and later writes each by the key it read.   *)
Starts(p) ==
    /\ stage[p] = "idle" /\ ~Ingesting /\ starts < MaxStarts
    /\ starts' = starts + 1

Works(p) == UNCHANGED <<ingest, reconciled, ingests, deaths>>

Takes(p, on, candidates) ==
    /\ \E items \in SUBSET candidates : todo' = [todo EXCEPT ![p] = items]
    /\ stage' = [stage EXCEPT ![p] = on]

(* An item that fails is dropped and nothing is written.                   *)
ItemFails(p) ==
    /\ \E item \in todo[p] : todo' = [todo EXCEPT ![p] = @ \ {item}]
    /\ Works(p) /\ UNCHANGED <<graph, stage, starts>>

EndRun(p) ==
    /\ stage[p] = "musicians" /\ todo[p] = {}
    /\ stage' = [stage EXCEPT ![p] = "idle"]
    /\ Works(p) /\ UNCHANGED <<graph, todo, starts>>

-----------------------------------------------------------------------------
(* mb-artist-id: Artists, then Musicians, with a Discogs id and no MBID.   *)
ArtistsForMbid == {i \in Ids : artists[i].here /\ artists[i].mbid = None}
MusiciansForMbid ==
    {musicians[n].id : n \in {m \in Here : musicians[m].id # None /\ musicians[m].mbid = None}}

StartMbids ==
    /\ Starts("mb-artist-id") /\ Takes("mb-artist-id", "artists", ArtistsForMbid)
    /\ Works("mb-artist-id") /\ UNCHANGED graph

MbidsOfMusicians ==
    /\ stage["mb-artist-id"] = "artists" /\ todo["mb-artist-id"] = {}
    /\ Takes("mb-artist-id", "musicians", MusiciansForMbid)
    /\ Works("mb-artist-id") /\ UNCHANGED <<graph, starts>>

(* No relation, a failed request and a refused one read the same.          *)
MbidAnswers(i) == {DiscogsLink[i], None}

SetMbid(i, mbid) ==
    IF stage["mb-artist-id"] = "artists"
    THEN /\ artists' = [artists EXCEPT ![i].mbid = mbid]
         /\ UNCHANGED musicians
    ELSE /\ musicians' = Written([n \in WithId(i) |-> [musicians[n] EXCEPT !.mbid = mbid]])
         /\ UNCHANGED artists

(* Without an answer the node is only stamped.                             *)
ResolveMbid ==
    /\ \E i \in todo["mb-artist-id"] : \E mbid \in MbidAnswers(i) :
        /\ IF mbid = None THEN UNCHANGED <<artists, musicians>> ELSE SetMbid(i, mbid)
        /\ todo' = [todo EXCEPT !["mb-artist-id"] = @ \ {i}]
    /\ Works("mb-artist-id") /\ UNCHANGED <<shelf, stage, starts>>

(* Its reset takes the MBID off every node, whoever put it there.          *)
ResetMbids ==
    /\ Starts("mb-artist-id")
    /\ artists' = [i \in Ids |-> [artists[i] EXCEPT !.mbid = None]]
    /\ musicians' = Written([n \in Here |-> [musicians[n] EXCEPT !.mbid = None]])
    /\ Works("mb-artist-id") /\ UNCHANGED <<shelf, runs>>

-----------------------------------------------------------------------------
(* track-recording-artists: tracks without a credit of MusicBrainz.        *)
RecordingsToCredit ==
    {t \in {k \in Recorded : ReleaseOf[k] \in shelf} :
        \A n \in Here : musicians[n].credit[t] # "musicbrainz"}

StartRecordingArtists ==
    /\ Starts("track-recording-artists")
    /\ Takes("track-recording-artists", "musicians", RecordingsToCredit)
    /\ Works("track-recording-artists") /\ UNCHANGED graph

(* MERGE by MBID, whoever holds it, or a fallback node; the credit fills a *)
(* gap and never replaces one.                                             *)
(* A slip: only persons of the collection.                                 *)
CollectedHolders(m) == {n \in WithMbid(m) : musicians[n].id # None}

Holders(m) == WithMbid(m)

(* A slip: SET instead of ON CREATE SET.                                   *)
PerformedAnew(node, m, t) ==
    [node EXCEPT !.credit[t] = "musicbrainz",
                 !.same = @ \cup {i \in Ids : artists[i].here /\ artists[i].mbid = m}]

Performed(node, m, t) ==
    [node EXCEPT !.credit[t] = IF @ = None THEN "musicbrainz" ELSE @,
                 !.same = @ \cup {i \in Ids : artists[i].here /\ artists[i].mbid = m}]

(* An open breaker, or a recording MusicBrainz no longer has, is no credit. *)
RecordingAnswers(t) == {Performers[t], {}}

(* One query for all credits of the recording: new nodes for those nobody  *)
(* holds.                                                                  *)
MergeRecordingArtists(t, performers) ==
    LET missing == {m \in performers : Holders(m) = {}}
        homes == {h \in [missing -> Unused] : IsInjective(h)}
        Holds(h, m) == IF m \in missing THEN {h[m]} ELSE Holders(m)
        Merged(h, n, m) == Performed(IF m \in missing THEN NewMusician(None, m, MbName[m])
                                                      ELSE musicians[n], m, t)
    IN /\ homes # {}
       /\ LET h == CHOOSE x \in homes : TRUE IN
          musicians' = Written([n \in UNION {Holds(h, m) : m \in performers} |->
                          Merged(h, n, CHOOSE m \in performers : n \in Holds(h, m))])

CreditRecording ==
    /\ \E t \in todo["track-recording-artists"] : \E performers \in RecordingAnswers(t) :
        /\ MergeRecordingArtists(t, performers)
        /\ todo' = [todo EXCEPT !["track-recording-artists"] = @ \ {t}]
    /\ Works("track-recording-artists") /\ UNCHANGED <<artists, shelf, stage, starts>>

(* Its reset: one transaction that deletes what the stage wrote, also the  *)
(* nodes that look like its own, with all that hangs on them.              *)
Fallbacks == {n \in Here : musicians[n].mbid # None /\ musicians[n].id = None}

ResetRecordingArtists ==
    /\ Starts("track-recording-artists")
    /\ musicians' =
        [n \in Nodes |->
            IF n \in Fallbacks THEN NoNode
            ELSE IF n \notin Here THEN musicians[n]
            ELSE [musicians[n] EXCEPT !.credit =
                    [t \in Targets |-> IF @[t] = "musicbrainz" THEN None ELSE @[t]]]]
    /\ Works("track-recording-artists") /\ UNCHANGED <<artists, shelf, runs>>

-----------------------------------------------------------------------------
(* nationality: Artists, then Musicians, without a country.  A country is  *)
(* named by the person it was looked up for: the row the run had read.     *)
ArtistsForCountry ==
    {[id |-> i, mbid |-> artists[i].mbid, name |-> None] :
        i \in {k \in Ids : artists[k].here /\ artists[k].country = None}}
Row(n) == [id |-> musicians[n].id, mbid |-> musicians[n].mbid, name |-> musicians[n].name]
MusiciansForCountry == {Row(n) : n \in {m \in Here : musicians[m].country = None}}

StartNationality ==
    /\ Starts("nationality") /\ Takes("nationality", "artists", ArtistsForCountry)
    /\ Works("nationality") /\ UNCHANGED graph

CountriesOfMusicians ==
    /\ stage["nationality"] = "artists" /\ todo["nationality"] = {}
    /\ Takes("nationality", "musicians", MusiciansForCountry)
    /\ Works("nationality") /\ UNCHANGED <<graph, starts>>

(* resolveCountry asks for the Discogs id, else the MBID, else the name.   *)
LookedUp(row) ==
    IF row.id # None THEN [id |-> row.id, mbid |-> None, name |-> None]
    ELSE IF row.mbid # None THEN [id |-> None, mbid |-> row.mbid, name |-> None]
    ELSE [id |-> None, mbid |-> None, name |-> row.name]

(* A country is told by the person asked for; none, or a failed request,   *)
(* only stamps.                                                            *)
CountryAnswers(person) == {person, None}

(* The nodes the answer is written to, by the same precedence.             *)
(* A slip: without the MBID arm (#426).                                    *)
NationalityMatchByName(row) ==
    IF row.id # None THEN WithId(row.id)
    ELSE {n \in WithName(row.name) : musicians[n].id = None}

NationalityMatch(row) ==
    IF row.id # None THEN WithId(row.id)
    ELSE {n \in IF row.mbid # None THEN WithMbid(row.mbid) ELSE WithName(row.name) :
            musicians[n].id = None}

SetNationality(item, country) ==
    IF stage["nationality"] = "artists"
    THEN /\ artists' = [artists EXCEPT ![item.id].country = country]
         /\ UNCHANGED musicians
    ELSE /\ musicians' = Written([n \in NationalityMatch(item) |->
                            [musicians[n] EXCEPT !.country = country]])
         /\ UNCHANGED artists

ResolveCountry ==
    /\ \E item \in todo["nationality"] : \E country \in CountryAnswers(LookedUp(item)) :
        /\ IF country = None THEN UNCHANGED <<artists, musicians>>
                             ELSE SetNationality(item, country)
        /\ todo' = [todo EXCEPT !["nationality"] = @ \ {item}]
    /\ Works("nationality") /\ UNCHANGED <<shelf, stage, starts>>

-----------------------------------------------------------------------------
(* person-reconciliation: one query over the whole graph.  A second one    *)
(* before the next ingestion finds nothing to add and is left out.         *)
(* A slip: the Musicians that carry the Artist's MBID.                     *)
SameMbids ==
    {m \in Here : /\ musicians[m].id # None /\ artists[musicians[m].id].here
                  /\ musicians[m].mbid = artists[musicians[m].id].mbid}

SamePersons == {m \in Here : musicians[m].id # None /\ artists[musicians[m].id].here}

ReconcileSamePersonLinks ==
    /\ ~Ingesting /\ ~reconciled
    /\ reconciled' = TRUE
    /\ musicians' = Written([n \in SamePersons |->
                        [musicians[n] EXCEPT !.same = @ \cup {musicians[n].id}]])
    /\ UNCHANGED <<artists, shelf, ingest, runs, bounds>>

(* The service dies and what ran is gone.                                  *)
Restart ==
    /\ deaths < MaxDeaths /\ (Ingesting \/ ~Idle)
    /\ deaths' = deaths + 1
    /\ queries' = <<>> /\ left' = {}
    /\ stage' = [p \in Pipelines |-> "idle"]
    /\ todo' = [p \in Pipelines |-> {}]
    /\ UNCHANGED <<graph, reconciled, ingests, starts>>

Next ==
    \/ StartIngest \/ NextRelease \/ RunQuery \/ QueryFails
    \/ StartMbids \/ MbidsOfMusicians \/ ResolveMbid \/ ResetMbids
    \/ StartRecordingArtists \/ CreditRecording \/ ResetRecordingArtists
    \/ StartNationality \/ CountriesOfMusicians \/ ResolveCountry
    \/ \E p \in Pipelines : ItemFails(p) \/ EndRun(p)
    \/ ReconcileSamePersonLinks \/ Restart

Spec == Init /\ [][Next]_vars
-----------------------------------------------------------------------------
(* An MBID is on at most one Musician without a Discogs id, which is what  *)
(* setMusicianNationality relies on to find the node it looked up, however *)
(* ingestions, resolutions and resets follow each other.                   *)
FallbackUnique ==
    \A n, k \in Fallbacks : musicians[n].mbid = musicians[k].mbid => n = k

(* A country is on nodes of the key it was looked up for, although the row *)
(* was read long before the write: one looked up for a Discogs id on the   *)
(* nodes of that id, one for an MBID or a name on nodes without an id; one *)
(* for an MBID never on a node with another MBID; one for a name on nodes  *)
(* of that name.  That is less than setMusicianNationality says of the     *)
(* last: "reserved for the genuine id===0 Discogs population (no           *)
(* discogsId, no musicbrainzId)".  The name arm has no guard on the MBID,  *)
(* and a country found by name is also on the MBID fallbacks of that name, *)
(* which may be other people.                                              *)
CountryOfOwnKey ==
    \A n \in {m \in Here : musicians[m].country # None} :
        LET node == musicians[n]  c == node.country IN
        /\ c.id = node.id
        /\ c.id = None =>
             IF c.mbid # None THEN node.mbid \in {c.mbid, None} ELSE node.name = c.name

(* Once person-reconciliation has run, until the next ingestion, every     *)
(* Musician whose Discogs id an Artist has is linked to it: whatever order *)
(* the releases came in, whichever of them failed half way or was given up *)
(* with the service, and whatever the other pipelines and resets do.       *)
ReconciledLinksStay ==
    reconciled => \A n \in SamePersons : musicians[n].id \in musicians[n].same

(* No step takes a credit of Discogs from the graph, or hands it to        *)
(* MusicBrainz, whose reset would then delete it; except on a node that    *)
(* looks like a fallback.                                                  *)
DiscogsCreditsKept ==
    [][\A n \in Here \ Fallbacks :
         /\ musicians'[n].here /\ musicians'[n].id = musicians[n].id
         /\ \A t \in Targets : musicians[n].credit[t] = "discogs"
                               => musicians'[n].credit[t] = "discogs"]_vars

=============================================================================
