-------------------------------- MODULE Catalogue --------------------------------
(***************************************************************************)
(* The stages that write labels, masters, groups and the Wikidata facts of *)
(* artists.  Each is a pipeline of its own: it reads its candidates once,  *)
(* settles one after the other, and stamps what it has looked up, so that  *)
(* no later run takes it up within the staleness window.  Some write an    *)
(* item, or reset themselves, by several queries, and the service may die  *)
(* between any two.                                                        *)
(***************************************************************************)
EXTENDS Naturals, Sequences, FiniteSets

CONSTANTS
    Releases, Masters,
    MasterOf,       \* masterDiscogsId of a release
    LabelsOf,       \* ON_LABEL, and
    CreditsOf,      \* the Musicians with a discogsId credited, and
    ArtistsOf,      \* RELEASED_BY (no placeholder), by release
    Labels,
    Markets,        \* raw market names of Discogs and MusicBrainz
    Countries, Regions,
    NormalizeCountry,  \* the countries and regions a market stands for
    Roster,         \* members[] of a Musician on Discogs; {} for no group
    Qids,           \* Wikidata items
    ItemOf,         \* the item of an artist
    Scopes,         \* bound: the pipelines that are used in one behaviour
    MaxStarts,      \* bound: runs, resets
    MaxParallel,    \* bound: pipelines at a time
    MaxFaults,      \* bound: failing queries, and restarts of the service
    None

Musicians == DOMAIN Roster
Artists == UNION {ArtistsOf[r] : r \in Releases}

Stages == {"label-hierarchy", "master-data", "mb-release-events", "group-members",
           "artist-wikidata"}

ASSUME CatalogueAssumption ==
    /\ MasterOf \in [Releases -> Masters] /\ LabelsOf \in [Releases -> SUBSET Labels]
    /\ CreditsOf \in [Releases -> SUBSET Musicians]
    /\ NormalizeCountry \in [Markets -> SUBSET (Countries \cup Regions)]
    /\ \A g \in Musicians : Roster[g] \subseteq Musicians
    /\ Countries \cap Regions = {} /\ ItemOf \in [Artists -> Qids] /\ None \notin Qids
    /\ None \notin Masters \cup [master : Masters, releases : SUBSET Releases]
    /\ Releases \cap Masters = {} /\ Masters \cap Musicians = {}
    /\ MaxStarts \in Nat /\ MaxParallel \in Nat /\ MaxFaults \in Nat
    /\ Scopes \subseteq SUBSET Stages

VARIABLES
    owned,      \* the Release nodes
    stamp,      \* per stage, the nodes that carry its ...FetchedAt
    parents,    \* PARENT_LABEL edges
    years,      \* Release.originalYear is set
    masters,    \* the Master nodes
    releasedIn, \* RELEASED_IN and RELEASED_IN_REGION edges of a master
    crosswalk,  \* the masters with a musicbrainzReleaseGroupId
    mbEvents,   \* MB_RELEASED_IN and MB_RELEASED_IN_REGION edges of a master
    memberOf,   \* MEMBER_OF edges between Musicians, member first
    notAGroup,  \* the Musicians with the terminal marker
    wikidata,   \* wikidataQid, influencedByQids and memberOf... of an artist
    facts,      \* INFLUENCED_BY and dated MEMBER_OF edges between artists
    scope,
    running, todo,
    writing,    \* per stage, what is left of the queries under way
    answered,   \* history: what a release's year, and a master's events, came with
    linkable,   \* history: the members collected when a group was last checked
    torn,       \* history: nodes left between two queries of a write or a reset
    stale,      \* history: edges whose ground a reset has taken away
    starts, faults

graph == <<stamp, parents, years, masters, releasedIn, crosswalk, mbEvents, memberOf,
           notAGroup, wikidata, facts>>
pipelines == <<running, todo, writing>>
history == <<answered, linkable, torn, stale>>
bounds == <<scope, faults>>
vars == <<owned, graph, pipelines, history, bounds, starts>>

NoData == [qid |-> None, influencedBy |-> {}, memberOf |-> {}]

Init ==
    /\ owned = {}
    /\ stamp = [s \in Stages |-> {}]
    /\ parents = {}
    /\ years = {} /\ masters = {}
    /\ releasedIn = [m \in Masters |-> {}]
    /\ crosswalk = {} /\ mbEvents = [m \in Masters |-> {}]
    /\ memberOf = {} /\ notAGroup = {}
    /\ wikidata = [x \in Artists |-> NoData] /\ facts = {}
    /\ running = {} /\ todo = [s \in Stages |-> {}]
    /\ writing = [s \in Stages |-> <<>>]
    /\ answered = [k \in Releases \cup Masters |-> {}]
    /\ linkable = [g \in Musicians |-> {}]
    /\ torn = [write |-> {}, reset |-> {}] /\ stale = {}
    /\ starts = 0 /\ faults = 0 /\ scope \in Scopes

Collected(of) == UNION {of[r] : r \in owned}

(* An ingestion brings in a release, while no pipeline runs.               *)
Ingest ==
    /\ running = {}
    /\ \E r \in Releases \ owned : owned' = owned \cup {r}
    /\ UNCHANGED <<graph, pipelines, history, starts, bounds>>

-----------------------------------------------------------------------------
(* The candidates: nodes without a stamp, or with one older than the       *)
(* window, that lack what the stage looks for.                             *)
Due(s, nodes, aged) == (nodes \ stamp[s]) \cup (nodes \cap aged)

GetUnenrichedLabels(aged) == Due("label-hierarchy", Collected(LabelsOf), aged)

(* One item per master, with the releases of it that still lack the year.  *)
GetUnenrichedMasters(aged) ==
    LET rs == Due("master-data", owned \ years, aged) IN
    {[master |-> MasterOf[r], releases |-> {q \in rs : MasterOf[q] = MasterOf[r]}] : r \in rs}

GetMastersForReleaseEvents(aged) ==
    Due("mb-release-events", {m \in masters : mbEvents[m] = {}}, aged)

GetGroupCandidates(aged) == Due("group-members", Collected(CreditsOf) \ notAGroup, aged)

(* A slip: the data is refreshed once it is older than the window.         *)
GetArtistsRefreshed(aged) == Due("artist-wikidata", Collected(ArtistsOf), aged)

GetUnenrichedArtistsForWikidata(aged) ==
    Due("artist-wikidata", {x \in Collected(ArtistsOf) : wikidata[x].qid = None}, aged)

Candidates(s, aged) ==
    CASE s = "label-hierarchy"   -> GetUnenrichedLabels(aged)
      [] s = "master-data"       -> GetUnenrichedMasters(aged)
      [] s = "mb-release-events" -> GetMastersForReleaseEvents(aged)
      [] s = "group-members"     -> GetGroupCandidates(aged)
      [] s = "artist-wikidata"   -> GetUnenrichedArtistsForWikidata(aged)

StartRun(s) ==
    /\ s \in scope \ running /\ Cardinality(running) < MaxParallel /\ starts < MaxStarts
    /\ starts' = starts + 1
    /\ running' = running \cup {s}
    /\ \E aged \in SUBSET stamp[s] :
        /\ Candidates(s, aged) # {}
        /\ todo' = [todo EXCEPT ![s] = Candidates(s, aged)]
    /\ UNCHANGED <<owned, graph, writing, history, bounds>>

(* An item whose lookup fails is left as it was; the run ends when all are *)
(* settled, or early on the shutdown signal.                               *)
ItemFails(s) ==
    /\ writing[s] = <<>>
    /\ \E item \in todo[s] : todo' = [todo EXCEPT ![s] = @ \ {item}]
    /\ UNCHANGED <<owned, graph, running, writing, history, starts, bounds>>

RunEnds(s) ==
    /\ s \in running /\ writing[s] = <<>>
    /\ running' = running \ {s}
    /\ todo' = [todo EXCEPT ![s] = {}]
    /\ UNCHANGED <<owned, graph, writing, history, starts, bounds>>

Stamp(s, nodes) == stamp' = [stamp EXCEPT ![s] = @ \cup nodes]

Settle(s, item) ==
    /\ writing[s] = <<>> /\ item \in todo[s]
    /\ todo' = [todo EXCEPT ![s] = @ \ {item}]

(* Queries are executed in turn.                                           *)
Begin(s, queries) == writing' = [writing EXCEPT ![s] = queries]

Query(s, name) ==
    /\ writing[s] # <<>> /\ Head(writing[s]).query = name
    /\ writing' = [writing EXCEPT ![s] = Tail(@)]

Rows(s) == Head(writing[s]).rows
Item(s) == Head(writing[s]).item

Send(item, query, rows) == <<[item |-> item, query |-> query, rows |-> rows]>>

(* One that has no rows is not sent.                                       *)
SendRows(item, query, rows) == IF rows = {} THEN <<>> ELSE Send(item, query, rows)

SendPlaces(item, places) ==
    SendRows(item, "countries", places \cap Countries)
        \o SendRows(item, "regions", places \cap Regions)

Places(answer) == UNION {NormalizeCountry[k] : k \in answer}

-----------------------------------------------------------------------------
(* label-hierarchy: one query per label, for a parent or for none (Discogs *)
(* names none, the label itself, or one without an id or a name).          *)

SetLabelParent(child, parent) ==
    parents' = {e \in parents : e[1] # child} \cup {<<child, parent>>}

SetLabelHierarchyFetched(child) == parents' = {e \in parents : e[1] # child}

EnrichLabel ==
    /\ \E l \in todo["label-hierarchy"] :
        /\ Settle("label-hierarchy", l)
        /\ Stamp("label-hierarchy", {l})
        /\ \/ \E p \in Labels \ {l} : SetLabelParent(l, p)
           \/ SetLabelHierarchyFetched(l)
    /\ UNCHANGED <<owned, years, masters, releasedIn, crosswalk, mbEvents, memberOf, notAGroup,
                   wikidata, facts, running, writing, history, starts, bounds>>

(* POST /<name>/reset takes the flag of its pipeline, refused if it is set.*)
Resets(s) ==
    /\ s \in scope \ running /\ starts < MaxStarts /\ Cardinality(running) < MaxParallel
    /\ starts' = starts + 1

(* Edges go with the stamp of the label they leave.                        *)
ResetLabelHierarchy ==
    /\ Resets("label-hierarchy") /\ stamp["label-hierarchy"] # {}
    /\ stamp' = [stamp EXCEPT !["label-hierarchy"] = {}]
    /\ parents' = {e \in parents : e[1] \notin stamp["label-hierarchy"]}
    /\ UNCHANGED <<owned, years, masters, releasedIn, crosswalk, mbEvents, memberOf, notAGroup,
                   wikidata, facts, pipelines, history, bounds>>

-----------------------------------------------------------------------------
(* master-data: the master without a year stamps the releases; the other   *)
(* is merged, then its places, then the year of the releases is set.       *)

(* A slip: the releases are marked as done first.                          *)
YearFirst(item, places) ==
    Send(item, "year", item.releases) \o Send(item, "master", {}) \o SendPlaces(item, places)

MergeMasterData(item, places) ==
    Send(item, "master", {}) \o SendPlaces(item, places) \o Send(item, "year", item.releases)

EnrichMaster ==
    /\ \E item \in todo["master-data"] :
        /\ Settle("master-data", item)
        /\ \/ /\ Stamp("master-data", item.releases)
              /\ UNCHANGED <<writing, answered>>
           \/ \E versions \in SUBSET Markets :
                /\ Begin("master-data", MergeMasterData(item, Places(versions)))
                /\ answered' = [k \in DOMAIN answered |->
                                  IF k \in item.releases THEN Places(versions) ELSE answered[k]]
                /\ UNCHANGED stamp
    /\ UNCHANGED <<owned, parents, years, masters, releasedIn, crosswalk, mbEvents, memberOf,
                   notAGroup, wikidata, facts, running, linkable, torn, stale, starts, bounds>>

WriteMaster ==
    LET s == "master-data" IN
    /\ \/ /\ Query(s, "master")
          /\ masters' = masters \cup {Item(s).master}
          /\ UNCHANGED <<releasedIn, years, stamp>>
       \/ /\ Query(s, "countries") \/ Query(s, "regions")
          /\ releasedIn' = [releasedIn EXCEPT ![Item(s).master] = @ \cup Rows(s)]
          /\ UNCHANGED <<masters, years, stamp>>
       \/ /\ Query(s, "year")
          /\ years' = years \cup Rows(s)
          /\ Stamp(s, Rows(s))
          /\ UNCHANGED <<masters, releasedIn>>
    /\ UNCHANGED <<owned, parents, crosswalk, mbEvents, memberOf, notAGroup, wikidata, facts,
                   running, todo, history, starts, bounds>>

-----------------------------------------------------------------------------
(* mb-release-events: a master without a release group in MusicBrainz (or  *)
(* with an open breaker) is stamped; the other gets the MBID, the events   *)
(* that are not digital alone and name a market, then the stamp.           *)

(* A slip: the MBID is stored with the stamp, after the edges.             *)
CrosswalkLast(m, places) ==
    SendPlaces(m, places) \o Send(m, "crosswalk", {}) \o Send(m, "stamp", {})

WriteEvents(m, places) ==
    Send(m, "crosswalk", {}) \o SendPlaces(m, places) \o Send(m, "stamp", {})

(* MusicBrainz knows no release group, or the markets of its releases, as  *)
(* far as its pages were read before the breaker opened.                   *)
EventAnswers == {None} \cup SUBSET Markets

EnrichEvents ==
    /\ \E m \in todo["mb-release-events"], events \in EventAnswers :
        /\ Settle("mb-release-events", m)
        /\ IF events = None
           THEN Stamp("mb-release-events", {m}) /\ UNCHANGED <<writing, answered>>
           ELSE /\ Begin("mb-release-events", WriteEvents(m, Places(events)))
                /\ answered' = [answered EXCEPT ![m] = Places(events)]
                /\ UNCHANGED stamp
    /\ UNCHANGED <<owned, parents, years, masters, releasedIn, crosswalk, mbEvents, memberOf,
                   notAGroup, wikidata, facts, running, linkable, torn, stale, starts, bounds>>

WriteReleaseEvents ==
    LET s == "mb-release-events" IN
    /\ \/ /\ Query(s, "crosswalk")
          /\ crosswalk' = crosswalk \cup {Item(s)}
          /\ UNCHANGED <<mbEvents, stamp, torn>>
       \/ /\ Query(s, "countries") \/ Query(s, "regions")
          /\ mbEvents' = [mbEvents EXCEPT ![Item(s)] = @ \cup Rows(s)]
          /\ UNCHANGED <<crosswalk, stamp, torn>>
       \/ /\ Query(s, "stamp")
          /\ Stamp(s, {Item(s)})
          /\ torn' = [torn EXCEPT !.write = @ \ {Item(s)}]
          /\ UNCHANGED <<crosswalk, mbEvents>>
    /\ UNCHANGED <<owned, parents, years, masters, releasedIn, memberOf, notAGroup, wikidata,
                   facts, running, todo, answered, linkable, stale, starts, bounds>>

(* The reset clears stamps and MBIDs of the stamped, then all the edges.   *)
ResetReleaseEvents ==
    LET s == "mb-release-events" IN
    /\ \/ /\ Resets(s) /\ masters # {}
          /\ running' = running \cup {s}
          /\ Begin(s, Send(None, "unmark", {}) \o Send(None, "unlink", {}))
          /\ UNCHANGED <<stamp, crosswalk, mbEvents>>
       \/ /\ Query(s, "unmark")
          /\ crosswalk' = crosswalk \ stamp[s]
          /\ stamp' = [stamp EXCEPT ![s] = {}]
          /\ UNCHANGED <<mbEvents, running, starts>>
       \/ /\ Query(s, "unlink")
          /\ mbEvents' = [m \in Masters |-> {}]
          /\ running' = running \ {s}
          /\ UNCHANGED <<stamp, crosswalk, starts>>
    /\ UNCHANGED <<owned, parents, years, masters, releasedIn, memberOf, notAGroup, wikidata,
                   facts, todo, history, bounds>>

-----------------------------------------------------------------------------
(* group-members: a roster is linked as far as its members are collected,  *)
(* a Musician without one is marked for good.                              *)
Linkable(g) == (Roster[g] \cap Collected(CreditsOf)) \ {g}

SetGroupMembers(g) ==
    /\ memberOf' = memberOf \cup (Linkable(g) \X {g})
    /\ linkable' = [linkable EXCEPT ![g] = Linkable(g)]
    /\ torn' = [torn EXCEPT !.reset = @ \ {g}]
    /\ UNCHANGED notAGroup

MarkNotAGroup(g) ==
    /\ notAGroup' = notAGroup \cup {g}
    /\ UNCHANGED <<memberOf, linkable, torn>>

(* A slip: a group none of whose members is collected is taken for none.   *)
IsLinkedGroup(g) == Linkable(g) # {}

IsGroup(g) == Roster[g] # {}

EnrichGroup ==
    /\ \E g \in todo["group-members"] :
        /\ Settle("group-members", g)
        /\ Stamp("group-members", {g})
        /\ IF IsGroup(g) THEN SetGroupMembers(g) ELSE MarkNotAGroup(g)
    /\ UNCHANGED <<owned, parents, years, masters, releasedIn, crosswalk, mbEvents, wikidata,
                   facts, running, writing, answered, stale, starts, bounds>>

(* The reset deletes the edges first, then clears both markers.            *)
ResetGroupMembers ==
    LET s == "group-members" IN
    /\ \/ /\ Resets(s) /\ stamp[s] # {}
          /\ running' = running \cup {s}
          /\ Begin(s, Send(None, "unlink", {}) \o Send(None, "unmark", {}))
          /\ UNCHANGED <<stamp, memberOf, notAGroup>>
       \/ /\ Query(s, "unlink")
          /\ memberOf' = {}
          /\ UNCHANGED <<stamp, notAGroup, running, starts>>
       \/ /\ Query(s, "unmark")
          /\ stamp' = [stamp EXCEPT ![s] = {}] /\ notAGroup' = {}
          /\ running' = running \ {s}
          /\ UNCHANGED <<memberOf, starts>>
    /\ UNCHANGED <<owned, parents, years, masters, releasedIn, crosswalk, mbEvents, wikidata,
                   facts, todo, history, bounds>>

-----------------------------------------------------------------------------
(* artist-wikidata: null (unknown to Wikidata, or the client has given the *)
(* lookup up) stamps alone; else every property is overwritten.            *)
Data(x) == [qid : {ItemOf[x]}, influencedBy : SUBSET Qids, memberOf : SUBSET Qids]

SetArtistWikidata(x, data) ==
    /\ Stamp("artist-wikidata", {x})
    /\ wikidata' = IF data = None THEN wikidata ELSE [wikidata EXCEPT ![x] = data]

(* By the Discogs id, else by the Wikipedia pages Discogs names.           *)
EnrichWikidata ==
    /\ \E x \in todo["artist-wikidata"] : \E data \in Data(x) \cup {None} :
        /\ Settle("artist-wikidata", x)
        /\ SetArtistWikidata(x, data)
    /\ UNCHANGED <<owned, parents, years, masters, releasedIn, crosswalk, mbEvents, memberOf,
                   notAGroup, facts, running, writing, history, starts, bounds>>

(* What the lists say between artists of the graph, never of themselves.   *)
Projection(kind) ==
    {f \in [kind : {kind}, from : Artists, to : Artists] :
        /\ f.from # f.to /\ wikidata[f.to].qid # None
        /\ wikidata[f.to].qid \in (IF kind = "influence" THEN wikidata[f.from].influencedBy
                                                         ELSE wikidata[f.from].memberOf)}

(* artist-influences and band-membership: one query each, which adds.      *)
LinkFacts(kind) ==
    /\ "artist-wikidata" \in scope /\ starts < MaxStarts /\ Projection(kind) # {}
    /\ starts' = starts + 1
    /\ facts' = facts \cup Projection(kind)
    /\ stale' = stale \ Projection(kind)
    /\ UNCHANGED <<owned, stamp, parents, years, masters, releasedIn, crosswalk, mbEvents,
                   memberOf, notAGroup, wikidata, pipelines, answered, linkable, torn, bounds>>

(* The reset drops the lists of the stamped and leaves the edges.          *)
ResetWikidata ==
    LET s == "artist-wikidata" IN
    /\ Resets(s) /\ stamp[s] # {}
    /\ wikidata' = [x \in Artists |-> IF x \in stamp[s] THEN NoData ELSE wikidata[x]]
    /\ stamp' = [stamp EXCEPT ![s] = {}]
    /\ stale' = facts
    /\ UNCHANGED <<owned, parents, years, masters, releasedIn, crosswalk, mbEvents, memberOf,
                   notAGroup, facts, pipelines, answered, linkable, torn, bounds>>

-----------------------------------------------------------------------------
UnderWay(s, query) == \E i \in DOMAIN writing[s] : writing[s][i].query = query

(* What a write or a reset cut off leaves behind: a master some of whose   *)
(* events are written, or the edges of the masters, or the markers of the  *)
(* groups the reset had not come to.                                       *)
Tear(stages) ==
    torn' = [write |-> torn.write \cup
               (IF "mb-release-events" \in stages /\ UnderWay("mb-release-events", "stamp")
                THEN {m \in Masters : m = Item("mb-release-events") /\ mbEvents[m] # {}} ELSE {}),
             reset |-> torn.reset \cup
               (IF "mb-release-events" \in stages /\ UnderWay("mb-release-events", "unlink")
                   /\ ~UnderWay("mb-release-events", "unmark")
                THEN {m \in Masters : mbEvents[m] # {}} ELSE {}) \cup
               (IF "group-members" \in stages /\ UnderWay("group-members", "unmark")
                   /\ ~UnderWay("group-members", "unlink")
                THEN stamp["group-members"] ELSE {})]

(* A query fails.  Of a reset it ends the request; an item is settled as   *)
(* failed, for the run to take up again if its sweep thinks it worthwhile. *)
QueryFails(s) ==
    /\ writing[s] # <<>> /\ faults < MaxFaults
    /\ faults' = faults + 1
    /\ Tear({s})
    /\ Begin(s, <<>>)
    /\ IF Item(s) = None
       THEN running' = running \ {s} /\ UNCHANGED todo
       ELSE /\ \E again \in SUBSET {Item(s)} : todo' = [todo EXCEPT ![s] = @ \cup again]
            /\ UNCHANGED running
    /\ UNCHANGED <<owned, graph, answered, linkable, stale, scope, starts>>

(* The service dies, and all that is under way with it.                    *)
Dies ==
    /\ faults < MaxFaults /\ running # {}
    /\ faults' = faults + 1
    /\ Tear(Stages)
    /\ running' = {} /\ todo' = [s \in Stages |-> {}]
    /\ writing' = [s \in Stages |-> <<>>]
    /\ UNCHANGED <<owned, graph, answered, linkable, stale, scope, starts>>

Next ==
    \/ Ingest \/ Dies
    \/ \E s \in Stages : StartRun(s) \/ ItemFails(s) \/ RunEnds(s) \/ QueryFails(s)
    \/ EnrichLabel \/ ResetLabelHierarchy
    \/ EnrichMaster \/ WriteMaster
    \/ EnrichEvents \/ WriteReleaseEvents \/ ResetReleaseEvents
    \/ EnrichGroup \/ ResetGroupMembers
    \/ EnrichWikidata \/ ResetWikidata
    \/ \E kind \in {"influence", "membership"} : LinkFacts(kind)

Spec == Init /\ [][Next]_vars
-----------------------------------------------------------------------------
(* A release with an original year is never taken up again; so whatever    *)
(* died or failed before, its master is there with all the places that     *)
(* came with the year.                                                     *)
DatedIsComplete ==
    \A r \in years : MasterOf[r] \in masters /\ answered[r] \subseteq releasedIn[MasterOf[r]]

(* A master with events is never taken up again: so it has its release     *)
(* group, which is why the MBID is written first, and all the places of    *)
(* the answer.  A write cut off between its queries may cost it places, a  *)
(* reset cut off either.                                                   *)
EventsAreComplete ==
    \A m \in Masters :
        mbEvents[m] # {} /\ writing["mb-release-events"] = <<>> /\ m \notin torn.reset =>
            /\ m \in crosswalk
            /\ m \notin torn.write => m \in stamp["mb-release-events"] /\ answered[m] \subseteq mbEvents[m]

(* What the markers say of the edges.  A label with a parent has one, and  *)
(* is stamped, for the reset looks for stamps.  A group that was checked   *)
(* is linked to every member collected by then, and the terminal marker is *)
(* on none that a member could still be linked to.  A reset cut off        *)
(* leaves groups without their edges until they are checked again.         *)
MarkersMatchEdges ==
    /\ \A e \in parents :
        e[1] \in stamp["label-hierarchy"] /\ \A f \in parents : f[1] = e[1] => f = e
    /\ \A g \in notAGroup : Linkable(g) = {}
    /\ writing["group-members"] = <<>> =>
        \A g \in stamp["group-members"] \ torn.reset :
            linkable[g] \X {g} \subseteq memberOf

(* The edges drawn from Wikidata lists are only ever added; yet each is    *)
(* one the lists still tell, unless artist-wikidata was reset since.       *)
FactsAreBacked ==
    \A f \in facts \ stale : f \in Projection(f.kind)

=============================================================================
