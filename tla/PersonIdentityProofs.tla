------------------------- MODULE PersonIdentityProofs -------------------------
(***************************************************************************)
(* Proofs about the persons of the graph, for any releases, credits and    *)
(* answers of MusicBrainz, and any number of ingestions, runs, resets and  *)
(* deaths.  What carries them is one fact about every step: how a Musician *)
(* node may change (Evolves), whichever query changed it.                  *)
(***************************************************************************)
EXTENDS PersonIdentity, SequenceTheorems, TLAPS

(* A person by the key it is looked up by, and a country by that person.   *)
Rows == [id : Ids \cup {None}, mbid : Mbids \cup {None}, name : Names \cup {None}]
Sources == {None, "discogs", "musicbrainz"}

ArtistNodes == [here : BOOLEAN, mbid : Mbids \cup {None}, country : Rows \cup {None}]
MusicianNodes ==
    [here : {TRUE}, id : Ids \cup {None}, mbid : Mbids \cup {None}, name : Names,
     credit : [Targets -> Sources], same : SUBSET Ids, country : Rows \cup {None}]

Queries ==
    [query : {"artist"}, of : Ids] \cup [query : {"shelve"}, of : Releases] \cup
    [query : {"credit"}, of : Credits] \cup [query : {"same"}, of : Ids \cup {None}]

TypeOK ==
    /\ artists \in [Ids -> ArtistNodes]
    /\ musicians \in [Nodes -> {NoNode} \cup MusicianNodes]
    /\ shelf \subseteq Releases
    /\ queries \in Seq(Queries)
    /\ left \subseteq Releases
    /\ stage \in [Pipelines -> Stages]
    /\ todo \in [Pipelines -> SUBSET (Ids \cup Recorded \cup Rows)]
    /\ todo["mb-artist-id"] \subseteq Ids
    /\ todo["track-recording-artists"] \subseteq Recorded
    /\ todo["nationality"] \subseteq Rows
    /\ reconciled \in BOOLEAN

(* The country on a node was looked up for a key of that node.             *)
OwnKey(node) ==
    LET c == node.country IN
    /\ c.id = node.id
    /\ c.id = None =>
         IF c.mbid # None THEN node.mbid \in {c.mbid, None} ELSE node.name = c.name

(* How a query may change a node that is there: it keeps its Discogs id;   *)
(* one without keeps its name, and its MBID unless a reset takes it; links *)
(* and credits of Discogs stay; a country that is new is its own.          *)
Grows(old, new) ==
    /\ new \in MusicianNodes /\ new.id = old.id
    /\ old.id = None => new.name = old.name /\ new.mbid \in {old.mbid, None}
    /\ old.same \subseteq new.same
    /\ \A t \in Targets : old.credit[t] = "discogs" => new.credit[t] = "discogs"
    /\ new.country = old.country \/ OwnKey(new)

(* A node that was not there has no country; with an MBID it is a fallback *)
(* for a person nobody stood for.                                          *)
Fresh(new) ==
    /\ new \in MusicianNodes /\ new.country = None
    /\ new.mbid # None => new.id = None /\ WithMbid(new.mbid) = {}

Evolves(n) ==
    \/ musicians'[n] = musicians[n]
    \/ n \in Here /\ Grows(musicians[n], musicians'[n])
    \/ n \notin Here /\ Fresh(musicians'[n])
    \/ n \in Fallbacks /\ musicians'[n] = NoNode

(* Of the nodes one query adds, no two stand for the same MBID.            *)
FreshApart ==
    \A n, k \in Unused :
        musicians'[n].here /\ musicians'[k].here /\ musicians'[n].mbid # None
            /\ musicians'[n].mbid = musicians'[k].mbid => n = k

Evolution ==
    /\ musicians' \in [Nodes -> {NoNode} \cup MusicianNodes]
    /\ \A n \in Nodes : Evolves(n)
    /\ FreshApart

(* The query adds no node with a Discogs id, and no Artist.               *)
AddsNoPerson == \A n \in Unused : musicians'[n].here => musicians'[n].id = None
SameArtists == \A i \in Ids : artists'[i].here = artists[i].here

-----------------------------------------------------------------------------
(* A node is there or is no node.                                          *)
LEMMA NodeKinds ==
    ASSUME TypeOK, NEW n \in Nodes
    PROVE  /\ n \in Here => musicians[n] \in MusicianNodes
           /\ n \notin Here => musicians[n] = NoNode
           /\ n \in Here <=> musicians[n].here
<1>1. musicians[n] \in {NoNode} \cup MusicianNodes
  BY DEF TypeOK
<1>2. ~NoNode.here /\ \A node \in MusicianNodes : node.here
  BY DEF NoNode, MusicianNodes
<1>. QED
  BY <1>1, <1>2 DEF Here

(* A query that leaves the Musicians alone.                                *)
LEMMA SameMusicians ==
    ASSUME TypeOK, UNCHANGED musicians
    PROVE  Evolution /\ AddsNoPerson
<1>1. \A n \in Unused : ~musicians[n].here
  BY DEF Unused, Here
<1>. QED
  BY <1>1 DEF Evolution, Evolves, FreshApart, AddsNoPerson, TypeOK

(* A query that adds no node: it is enough that each node is kept, grows   *)
(* or, a fallback, goes.                                                   *)
LEMMA NoNewMusicians ==
    ASSUME TypeOK,
           NEW f, musicians' = [n \in Nodes |-> f[n]],
           \A n \in Nodes : \/ f[n] = musicians[n]
                            \/ n \in Here /\ Grows(musicians[n], f[n])
                            \/ n \in Fallbacks /\ f[n] = NoNode
    PROVE  Evolution /\ AddsNoPerson
<1>1. \A n \in Nodes : musicians'[n] = f[n]
  OBVIOUS
<1>2. \A n \in Nodes : Evolves(n)
  BY <1>1 DEF Evolves
<1>3. \A n \in Nodes : f[n] \in {NoNode} \cup MusicianNodes
  BY DEF Grows, TypeOK
<1>4. FreshApart
  BY <1>1, NodeKinds DEF FreshApart, Unused, Fallbacks, Here
<1>5. AddsNoPerson
  BY <1>1, NodeKinds DEF AddsNoPerson, Unused, Fallbacks, Here
<1>. QED
  BY <1>2, <1>3, <1>4, <1>5 DEF Evolution

(* The same of a write to some of the nodes.                               *)
LEMMA WrittenGrows ==
    ASSUME TypeOK, NEW g, DOMAIN g \subseteq Here, musicians' = Written(g),
           \A n \in DOMAIN g : Grows(musicians[n], g[n])
    PROVE  Evolution /\ AddsNoPerson
<1> DEFINE f == [n \in Nodes |-> IF n \in DOMAIN g THEN g[n] ELSE musicians[n]]
<1>1. DOMAIN g \subseteq Nodes
  BY DEF Here
<1>2. musicians' = [n \in Nodes |-> f[n]]
  BY DEF Written
<1>3. \A n \in Nodes : f[n] = musicians[n] \/ (n \in Here /\ Grows(musicians[n], f[n]))
  OBVIOUS
<1> HIDE DEF f
<1>. QED
  BY <1>2, <1>3, NoNewMusicians

-----------------------------------------------------------------------------
(* A credit is written to the nodes with its key, or to a new one.         *)
LEMMA CreditEvolves ==
    ASSUME TypeOK, NEW c \in Credits, IngestCredit(c)
    PROVE  Evolution
<1> DEFINE ns == IF c.id # None THEN WithId(c.id) ELSE WithName(c.name)
           new == NewMusician(c.id, None, c.name)
           nodes == Matched(ns, new)
<1>0. c.id \in Ids \cup {None} /\ c.name \in Names /\ c.on \in Targets
  BY DEF Credits
<1>1. nodes # <<>> /\ musicians' = Written([n \in DOMAIN nodes |-> CreditedAs(nodes[n], c)])
  BY DEF IngestCredit
<1>2. ns \subseteq Here
  BY DEF WithId, WithName
<1>3. CASE ns # {}
  <2>1. DOMAIN nodes = ns /\ \A n \in ns : nodes[n] = musicians[n]
    BY <1>3 DEF Matched
  <2>2. ASSUME NEW n \in ns PROVE Grows(musicians[n], CreditedAs(musicians[n], c))
    <3>1. musicians[n] \in MusicianNodes
      BY <1>2, NodeKinds DEF Here
    <3>2. CreditedAs(musicians[n], c) \in MusicianNodes
      BY <1>0, <3>1 DEF CreditedAs, MusicianNodes, Sources
    <3>3. c.id = None => musicians[n].name = c.name
      BY DEF WithName
    <3>4. c.id # None => musicians[n].id # None
      BY DEF WithId
    <3>. QED
      BY <1>0, <3>1, <3>2, <3>3, <3>4 DEF CreditedAs, Grows, MusicianNodes
  <2> DEFINE g == [n \in DOMAIN nodes |-> CreditedAs(nodes[n], c)]
  <2>3. DOMAIN g = ns /\ \A n \in ns : g[n] = CreditedAs(musicians[n], c)
    BY <2>1
  <2>4. musicians' = Written(g)
    BY <1>1
  <2> HIDE DEF g, nodes
  <2>. QED
    BY <1>2, <2>2, <2>3, <2>4, WrittenGrows
<1>4. CASE ns = {}
  <2> DEFINE u == CHOOSE v \in Unused : TRUE
  <2>1. Unused # {}
    BY <1>1, <1>4 DEF Matched
  <2>2. u \in Unused
    BY <2>1
  <2>3. DOMAIN nodes = {u} /\ nodes[u] = new
    BY <1>4, <2>1 DEF Matched
  <2>4. Fresh(CreditedAs(new, c)) /\ CreditedAs(new, c).mbid = None
    BY <1>0 DEF Fresh, CreditedAs, NewMusician, MusicianNodes, Sources
  <2>5. musicians' = [n \in Nodes |-> IF n = u THEN CreditedAs(new, c) ELSE musicians[n]]
    BY <1>1, <2>3 DEF Written
  <2> HIDE DEF u, new, nodes
  <2>6. /\ \A n \in Nodes \ {u} : musicians'[n] = musicians[n]
        /\ musicians'[u] = CreditedAs(new, c)
        /\ u \in Nodes /\ u \notin Here
    BY <2>2, <2>5 DEF Unused
  <2>7. \A n \in Nodes : Evolves(n)
    BY <2>4, <2>6 DEF Evolves
  <2>8. FreshApart
    BY <2>4, <2>6, NodeKinds DEF FreshApart, Unused
  <2>9. musicians' \in [Nodes -> {NoNode} \cup MusicianNodes]
    BY <2>4, <2>5 DEF TypeOK, Fresh
  <2>. QED
    BY <2>7, <2>8, <2>9 DEF Evolution
<1>. QED
  BY <1>3, <1>4

(* The link to the Artist with the Discogs id of the credit.               *)
LEMMA SameEvolves ==
    ASSUME TypeOK, NEW i \in Ids \cup {None}, MergeSamePersonAs(i)
    PROVE  Evolution /\ AddsNoPerson
<1> DEFINE ns == {m \in WithId(i) : i # None /\ artists[i].here}
           g == [n \in ns |-> [musicians[n] EXCEPT !.same = @ \cup {i}]]
<1>1. musicians' = Written(g)
  BY DEF MergeSamePersonAs
<1>2. DOMAIN g \subseteq Here /\ DOMAIN g = ns
  BY DEF WithId
<1>3. ASSUME NEW n \in ns PROVE Grows(musicians[n], g[n])
  <2>1. musicians[n] \in MusicianNodes /\ i \in Ids
    BY <1>2, NodeKinds DEF Here
  <2>. QED
    BY <2>1 DEF Grows, MusicianNodes
<1> HIDE DEF g
<1>. QED
  BY <1>1, <1>2, <1>3, WrittenGrows

(* The MBID of MusicBrainz for a Discogs id.                               *)
LEMMA MbidEvolves ==
    ASSUME TypeOK, NEW i \in Ids, NEW mbid \in Mbids, SetMbid(i, mbid)
    PROVE  Evolution /\ AddsNoPerson
<1> DEFINE g == [n \in WithId(i) |-> [musicians[n] EXCEPT !.mbid = mbid]]
<1>1. CASE stage["mb-artist-id"] = "artists"
  BY <1>1, SameMusicians DEF SetMbid
<1>2. CASE stage["mb-artist-id"] # "artists"
  <2>1. musicians' = Written(g)
    BY <1>2 DEF SetMbid
  <2>2. DOMAIN g \subseteq Here
    BY DEF WithId
  <2>3. ASSUME NEW n \in DOMAIN g PROVE Grows(musicians[n], g[n])
    <3>1. musicians[n] \in MusicianNodes /\ musicians[n].id = i
      BY <2>2, NodeKinds DEF Here, WithId
    <3>2. i # None
      BY PersonIdentityAssumption DEF PersonIdentityAssumption
    <3>. QED
      BY <3>1, <3>2 DEF Grows, MusicianNodes
  <2> HIDE DEF g
  <2>. QED
    BY <2>1, <2>2, <2>3, WrittenGrows
<1>. QED
  BY <1>1, <1>2

(* The reset that takes the MBID off every node.                           *)
LEMMA ResetMbidsEvolves ==
    ASSUME TypeOK, ResetMbids
    PROVE  Evolution /\ AddsNoPerson
<1> DEFINE g == [n \in Here |-> [musicians[n] EXCEPT !.mbid = None]]
<1>1. musicians' = Written(g) /\ DOMAIN g = Here
  BY DEF ResetMbids
<1>2. ASSUME NEW n \in Here PROVE Grows(musicians[n], g[n])
  <2>1. musicians[n] \in MusicianNodes
    BY NodeKinds DEF Here
  <2>. QED
    BY <2>1 DEF Grows, MusicianNodes
<1> HIDE DEF g
<1>. QED
  BY <1>1, <1>2, WrittenGrows

(* The one query of person-reconciliation.                                 *)
LEMMA ReconcileEvolves ==
    ASSUME TypeOK, ReconcileSamePersonLinks
    PROVE  /\ Evolution
           /\ \A n \in SamePersons :
                 /\ musicians'[n].id = musicians[n].id
                 /\ musicians[n].id \in musicians'[n].same
           /\ \A n \in Nodes \ SamePersons : musicians'[n] = musicians[n]
<1> DEFINE g == [n \in SamePersons |-> [musicians[n] EXCEPT !.same = @ \cup {musicians[n].id}]]
<1>1. musicians' = Written(g) /\ DOMAIN g = SamePersons /\ SamePersons \subseteq Here
  BY DEF ReconcileSamePersonLinks, SamePersons
<1>2. ASSUME NEW n \in SamePersons
      PROVE  Grows(musicians[n], g[n]) /\ musicians[n].id \in g[n].same
  <2>1. musicians[n] \in MusicianNodes /\ musicians[n].id \in Ids
    BY <1>1, NodeKinds DEF Here, SamePersons, MusicianNodes
  <2>. QED
    BY <2>1 DEF Grows, MusicianNodes
<1>3. /\ \A n \in SamePersons : musicians'[n] = g[n]
      /\ \A n \in Nodes \ SamePersons : musicians'[n] = musicians[n]
  BY <1>1 DEF Written, Here
<1> HIDE DEF g
<1>. QED
  BY <1>1, <1>2, <1>3, WrittenGrows DEF Grows

(* The country of a lookup is written to nodes of its own key only.        *)
LEMMA CountryEvolves ==
    ASSUME TypeOK, NEW item \in Rows, SetNationality(item, LookedUp(item))
    PROVE  Evolution /\ AddsNoPerson
<1> DEFINE country == LookedUp(item)
           g == [n \in NationalityMatch(item) |-> [musicians[n] EXCEPT !.country = country]]
<1>1. CASE stage["nationality"] = "artists"
  BY <1>1, SameMusicians DEF SetNationality
<1>2. CASE stage["nationality"] # "artists"
  <2>1. musicians' = Written(g)
    BY <1>2 DEF SetNationality
  <2>2. DOMAIN g \subseteq Here /\ DOMAIN g = NationalityMatch(item)
    BY DEF NationalityMatch, WithId, WithMbid, WithName
  <2>3. country \in Rows
    BY DEF LookedUp, Rows
  <2>4. ASSUME NEW n \in NationalityMatch(item) PROVE Grows(musicians[n], g[n])
    <3>1. musicians[n] \in MusicianNodes
      BY <2>2, NodeKinds DEF Here
    <3>2. /\ g[n] \in MusicianNodes /\ g[n].country = country
          /\ g[n].id = musicians[n].id /\ g[n].mbid = musicians[n].mbid
          /\ g[n].name = musicians[n].name
          /\ g[n].same = musicians[n].same /\ g[n].credit = musicians[n].credit
      BY <2>3, <3>1 DEF MusicianNodes
    <3>3. CASE item.id # None
      <4>1. musicians[n].id = item.id /\ country.id = item.id
        BY <3>3 DEF NationalityMatch, WithId, LookedUp
      <4>. QED
        BY <3>2, <3>3, <4>1 DEF Grows, OwnKey
    <3>4. CASE item.id = None
      <4>1. musicians[n].id = None /\ country.id = None
        BY <3>4 DEF NationalityMatch, LookedUp
      <4>2. item.mbid # None => musicians[n].mbid = item.mbid /\ country.mbid = item.mbid
        BY <3>4 DEF NationalityMatch, WithMbid, LookedUp
      <4>3. item.mbid = None => /\ musicians[n].name = item.name
                                /\ country.name = item.name /\ country.mbid = None
        BY <3>4 DEF NationalityMatch, WithName, LookedUp
      <4>. QED
        BY <3>2, <4>1, <4>2, <4>3 DEF Grows, OwnKey
    <3>. QED
      BY <3>3, <3>4
  <2> HIDE DEF g
  <2>. QED
    BY <2>1, <2>2, <2>4, WrittenGrows
<1>. QED
  BY <1>1, <1>2

(* The reset of the recording credits takes fallback nodes, and the        *)
(* credits of MusicBrainz.                                                 *)
LEMMA ResetCreditsEvolves ==
    ASSUME TypeOK, ResetRecordingArtists
    PROVE  Evolution /\ AddsNoPerson
<1> DEFINE kept(n) == [musicians[n] EXCEPT !.credit =
                         [t \in Targets |-> IF @[t] = "musicbrainz" THEN None ELSE @[t]]]
           f == [n \in Nodes |-> IF n \in Fallbacks THEN NoNode
                                 ELSE IF n \notin Here THEN musicians[n] ELSE kept(n)]
<1>1. musicians' = f
  BY DEF ResetRecordingArtists
<1>2. ASSUME NEW n \in Here PROVE Grows(musicians[n], kept(n))
  <2>1. musicians[n] \in MusicianNodes
    BY NodeKinds DEF Here
  <2>2. [t \in Targets |-> IF musicians[n].credit[t] = "musicbrainz" THEN None
                                                                  ELSE musicians[n].credit[t]]
          \in [Targets -> Sources]
    BY <2>1 DEF MusicianNodes, Sources
  <2>. QED
    BY <2>1, <2>2 DEF Grows, MusicianNodes
<1>3. ASSUME NEW n \in Nodes
      PROVE  \/ f[n] = musicians[n]
             \/ n \in Here /\ Grows(musicians[n], f[n])
             \/ n \in Fallbacks /\ f[n] = NoNode
  <2>1. CASE n \in Fallbacks
    BY <2>1
  <2>2. CASE n \notin Fallbacks /\ n \notin Here
    BY <2>2
  <2>3. CASE n \notin Fallbacks /\ n \in Here
    <3>1. f[n] = kept(n)
      BY <2>3
    <3> HIDE DEF f, kept
    <3>. QED
      BY <1>2, <2>3, <3>1
  <2>. QED
    BY <2>1, <2>2, <2>3
<1>4. musicians' = [n \in Nodes |-> f[n]]
  BY <1>1
<1> HIDE DEF f
<1>. QED
  BY <1>3, <1>4, NoNewMusicians

(* A recording's credits: each goes to whoever holds the MBID, or to one   *)
(* new node, by which the MBID is held from then on.                       *)
LEMMA RecordingEvolves ==
    ASSUME TypeOK, NEW t \in Recorded, NEW performers \in SUBSET Mbids,
           MergeRecordingArtists(t, performers)
    PROVE  Evolution /\ AddsNoPerson
<1> DEFINE missing == {m \in performers : Holders(m) = {}}
           homes == {h \in [missing -> Unused] : IsInjective(h)}
           h == CHOOSE x \in homes : TRUE
           Holds(m) == IF m \in missing THEN {h[m]} ELSE Holders(m)
           Base(n, m) == IF m \in missing THEN NewMusician(None, m, MbName[m]) ELSE musicians[n]
           Of(n) == CHOOSE m \in performers : n \in Holds(m)
           held == UNION {Holds(m) : m \in performers}
           g == [n \in held |-> Performed(Base(n, Of(n)), Of(n), t)]
<1>1. homes # {} /\ musicians' = Written(g)
  BY DEF MergeRecordingArtists
<1>2. h \in [missing -> Unused] /\ \A a, b \in missing : h[a] = h[b] => a = b
  BY <1>1 DEF IsInjective
<1>3. t \in Targets
  BY PersonIdentityAssumption DEF PersonIdentityAssumption
<1>4. \A m \in missing : Holders(m) = {} /\ m \in performers
  OBVIOUS
<1>5. \A m \in performers \ missing : Holders(m) \subseteq Here
  BY DEF Holders, WithMbid
<1>6. \A n \in held : Of(n) \in performers /\ n \in Holds(Of(n))
  OBVIOUS
<1>7. DOMAIN g = held /\ \A n \in held : g[n] = Performed(Base(n, Of(n)), Of(n), t)
  OBVIOUS
<1>8. \A m \in performers : Holds(m) = IF m \in missing THEN {h[m]} ELSE Holders(m)
  OBVIOUS
<1>9. \A m \in missing : \A n \in Nodes : Base(n, m) = NewMusician(None, m, MbName[m])
  OBVIOUS
<1>10. \A m \in performers \ missing : \A n \in Nodes : Base(n, m) = musicians[n]
  OBVIOUS
<1>11. missing \subseteq performers
  OBVIOUS
<1> HIDE DEF missing, homes, h, Holds, Base, Of, held, g
<1>12. ASSUME NEW n \in held
       PROVE  /\ n \in Nodes
              /\ n \in Here => Grows(musicians[n], g[n])
              /\ n \notin Here => /\ Fresh(g[n]) /\ g[n].id = None
                                  /\ Of(n) \in missing /\ n = h[Of(n)] /\ g[n].mbid = Of(n)
  <2> DEFINE m == Of(n)
             links == {i \in Ids : artists[i].here /\ artists[i].mbid = m}
  <2>1. m \in performers /\ n \in Holds(m) /\ m \in Mbids /\ m # None
    BY <1>6, PersonIdentityAssumption DEF PersonIdentityAssumption
  <2>2. ASSUME NEW node \in MusicianNodes
        PROVE  /\ Performed(node, m, t) \in MusicianNodes
               /\ Performed(node, m, t).id = node.id /\ Performed(node, m, t).mbid = node.mbid
               /\ Performed(node, m, t).name = node.name
               /\ Performed(node, m, t).country = node.country
               /\ node.same \subseteq Performed(node, m, t).same
               /\ \A k \in Targets : node.credit[k] = "discogs"
                                      => Performed(node, m, t).credit[k] = "discogs"
    <3>1. links \subseteq Ids
      OBVIOUS
    <3>2. Performed(node, m, t) =
            [node EXCEPT !.credit[t] = IF @ = None THEN "musicbrainz" ELSE @,
                         !.same = @ \cup links]
      BY DEF Performed
    <3> HIDE DEF links
    <3>3. "discogs" # None
      BY PersonIdentityAssumption DEF PersonIdentityAssumption
    <3> DEFINE credit == [node.credit EXCEPT ![t] = IF @ = None THEN "musicbrainz" ELSE @]
    <3>4. credit \in [Targets -> Sources]
      BY <1>3 DEF MusicianNodes, Sources
    <3>5. \A k \in Targets : node.credit[k] = "discogs" => credit[k] = "discogs"
      BY <1>3, <3>3 DEF MusicianNodes
    <3>6. Performed(node, m, t) = [node EXCEPT !.credit = credit, !.same = @ \cup links]
      BY <1>3, <3>2 DEF MusicianNodes
    <3> HIDE DEF credit
    <3>. QED
      BY <3>1, <3>4, <3>5, <3>6 DEF MusicianNodes
  <2>3. CASE m \in missing
    <3>1. n = h[m] /\ n \in Unused
      BY <1>2, <1>8, <2>1, <2>3
    <3>2. NewMusician(None, m, MbName[m]) \in MusicianNodes
      BY <2>1, PersonIdentityAssumption
         DEF PersonIdentityAssumption, NewMusician, MusicianNodes, Sources
    <3>3. /\ NewMusician(None, m, MbName[m]).id = None /\ NewMusician(None, m, MbName[m]).mbid = m
          /\ NewMusician(None, m, MbName[m]).country = None
      BY DEF NewMusician
    <3>4. g[n] = Performed(NewMusician(None, m, MbName[m]), m, t)
      BY <1>7, <1>9, <2>3, <3>1 DEF Unused
    <3>5. WithMbid(m) = {}
      BY <1>4, <2>3 DEF Holders
    <3>6. /\ g[n] \in MusicianNodes /\ g[n].id = None /\ g[n].mbid = m /\ g[n].country = None
      BY <2>2, <3>2, <3>3, <3>4
    <3>. QED
      BY <2>3, <3>1, <3>5, <3>6 DEF Fresh, Unused
  <2>4. CASE m \notin missing
    <3>1. n \in Here
      BY <1>5, <1>8, <2>1, <2>4
    <3>2. n \in Nodes /\ musicians[n] \in MusicianNodes
      BY <3>1, NodeKinds DEF Here
    <3>3. g[n] = Performed(musicians[n], m, t)
      BY <1>7, <1>10, <2>1, <2>4, <3>2
    <3>. QED
      BY <2>2, <3>1, <3>2, <3>3 DEF Grows
  <2>. QED
    BY <2>3, <2>4
<1>13. \A n \in Nodes : musicians'[n] = IF n \in held THEN g[n] ELSE musicians[n]
  BY <1>1, <1>7 DEF Written
<1>14. \A n \in Nodes : Evolves(n)
  BY <1>12, <1>13 DEF Evolves
<1>15. musicians' \in [Nodes -> {NoNode} \cup MusicianNodes]
  <2>1. \A n \in held : g[n] \in MusicianNodes
    BY <1>12 DEF Grows, Fresh
  <2>2. musicians' = [n \in Nodes |-> IF n \in held THEN g[n] ELSE musicians[n]]
    BY <1>1, <1>7 DEF Written
  <2>. QED
    BY <2>1, <2>2 DEF TypeOK
<1>16. \A n \in Unused : musicians'[n].here => n \in held
  BY <1>13, NodeKinds DEF Unused
<1>17. FreshApart
  <2> SUFFICES ASSUME NEW n \in Unused, NEW k \in Unused,
                      musicians'[n].here, musicians'[k].here,
                      musicians'[n].mbid = musicians'[k].mbid
               PROVE  n = k
    BY DEF FreshApart
  <2>1. n \in held /\ k \in held /\ n \notin Here /\ k \notin Here /\ n \in Nodes /\ k \in Nodes
    BY <1>16 DEF Unused
  <2>2. Of(n) = Of(k)
    BY <1>12, <1>13, <2>1
  <2>. QED
    BY <1>12, <2>1, <2>2
<1>18. AddsNoPerson
  BY <1>12, <1>13, <1>16 DEF AddsNoPerson, Unused
<1>. QED
  BY <1>14, <1>15, <1>17, <1>18 DEF Evolution

-----------------------------------------------------------------------------
(* The queries of a release are of the four kinds.                         *)
LEMMA QueriesTyped ==
    ASSUME NEW r \in Releases
    PROVE  MergeReleaseGraph(r) \in Seq(Queries)
<1> USE PersonIdentityAssumption DEF PersonIdentityAssumption
<1>1. MergeArtists(r) \in Seq(Queries)
  <2>1. ReleasedBy[r] \in Seq(Ids)
    OBVIOUS
  <2>2. DOMAIN ReleasedBy[r] = 1 .. Len(ReleasedBy[r]) /\ Len(ReleasedBy[r]) \in Nat
    BY <2>1
  <2>3. \A k \in DOMAIN ReleasedBy[r] : [query |-> "artist", of |-> ReleasedBy[r][k]] \in Queries
    BY <2>1, <2>2 DEF Queries
  <2>. QED
    BY <2>2, <2>3, IsASeq DEF MergeArtists
<1>2. <<[query |-> "shelve", of |-> r]>> \in Seq(Queries)
  BY DEF Queries
<1>3. MergeCredits(r) \in Seq(Queries)
  <2> DEFINE cs == Extraartists[r]
  <2>1. cs \in Seq(Credits) /\ Len(cs) \in Nat /\ DOMAIN cs = 1 .. Len(cs)
    OBVIOUS
  <2> HIDE DEF cs
  <2>2. ASSUME NEW k \in 1 .. 2 * Len(cs)
        PROVE  (k + 1) \div 2 \in 1 .. Len(cs)
    BY <2>1
  <2>3. ASSUME NEW c \in Credits
        PROVE  [query |-> "credit", of |-> c] \in Queries /\ [query |-> "same", of |-> c.id] \in Queries
    BY DEF Queries, Credits
  <2>4. \A k \in 1 .. 2 * Len(cs) : cs[(k + 1) \div 2] \in Credits
    BY <2>1, <2>2
  <2>5. 2 * Len(cs) \in Nat
    BY <2>1
  <2>. QED
    BY <2>3, <2>4, <2>5, IsASeq DEF MergeCredits, cs
<1>. QED
  BY <1>1, <1>2, <1>3, ConcatProperties DEF MergeReleaseGraph

(* The query under way touches the persons by its kind.                    *)
LEMMA RunQueryEvolves ==
    ASSUME TypeOK, RunQuery
    PROVE  Evolution /\ artists' \in [Ids -> ArtistNodes] /\ shelf' \subseteq Releases
<1> DEFINE q == Head(queries)
<1>1. q \in Queries
  BY HeadTailProperties DEF RunQuery, TypeOK
<1>2. CASE q.query = "artist"
  <2>1. IngestArtist(q.of) /\ q.of \in Ids
    BY <1>1, <1>2 DEF RunQuery, Queries
  <2>. QED
    BY <2>1, SameMusicians DEF IngestArtist, TypeOK, ArtistNodes
<1>3. CASE q.query = "shelve"
  <2>1. Shelve(q.of) /\ q.of \in Releases
    BY <1>1, <1>3 DEF RunQuery, Queries
  <2>. QED
    BY <2>1, SameMusicians DEF Shelve, TypeOK
<1>4. CASE q.query = "credit"
  <2>1. IngestCredit(q.of) /\ q.of \in Credits
    BY <1>1, <1>4 DEF RunQuery, Queries
  <2>. QED
    BY <2>1, CreditEvolves DEF IngestCredit, TypeOK
<1>5. CASE q.query = "same"
  <2>1. MergeSamePersonAs(q.of) /\ q.of \in Ids \cup {None}
    BY <1>1, <1>5 DEF RunQuery, Queries
  <2>. QED
    BY <2>1, SameEvolves DEF MergeSamePersonAs, TypeOK
<1>. QED
  BY <1>1, <1>2, <1>3, <1>4, <1>5 DEF Queries

(* A lookup, when it is answered.                                          *)
LEMMA ResolveMbidEvolves ==
    ASSUME TypeOK, ResolveMbid
    PROVE  Evolution /\ AddsNoPerson /\ SameArtists /\ artists' \in [Ids -> ArtistNodes]
<1>0. PICK i \in todo["mb-artist-id"] : \E mbid \in MbidAnswers(i) :
         IF mbid = None THEN UNCHANGED <<artists, musicians>> ELSE SetMbid(i, mbid)
  BY DEF ResolveMbid
<1>1. PICK mbid \in MbidAnswers(i) :
         IF mbid = None THEN UNCHANGED <<artists, musicians>> ELSE SetMbid(i, mbid)
  BY <1>0
<1>2. i \in Ids /\ mbid \in Mbids \cup {None}
  BY PersonIdentityAssumption DEF TypeOK, MbidAnswers, PersonIdentityAssumption
<1>3. CASE mbid = None
  BY <1>1, <1>3, SameMusicians DEF SameArtists, TypeOK
<1>4. CASE mbid # None
  <2>1. SetMbid(i, mbid)
    BY <1>1, <1>4
  <2>2. Evolution /\ AddsNoPerson
    BY <1>2, <1>4, <2>1, MbidEvolves
  <2>3. SameArtists /\ artists' \in [Ids -> ArtistNodes]
    BY <1>2, <2>1 DEF SetMbid, SameArtists, TypeOK, ArtistNodes
  <2>. QED
    BY <2>2, <2>3
<1>. QED
  BY <1>3, <1>4

(* The same of a country.                                                  *)
LEMMA ResolveCountryEvolves ==
    ASSUME TypeOK, ResolveCountry
    PROVE  Evolution /\ AddsNoPerson /\ SameArtists /\ artists' \in [Ids -> ArtistNodes]
<1>0. PICK item \in todo["nationality"] : \E country \in CountryAnswers(LookedUp(item)) :
         IF country = None THEN UNCHANGED <<artists, musicians>> ELSE SetNationality(item, country)
  BY DEF ResolveCountry
<1>1. PICK country \in CountryAnswers(LookedUp(item)) :
         IF country = None THEN UNCHANGED <<artists, musicians>> ELSE SetNationality(item, country)
  BY <1>0
<1>2. item \in Rows
  BY DEF TypeOK
<1>3. CASE country = None
  BY <1>1, <1>3, SameMusicians DEF SameArtists, TypeOK
<1>4. CASE country # None
  <2>1. SetNationality(item, LookedUp(item))
    BY <1>1, <1>4 DEF CountryAnswers
  <2>2. Evolution /\ AddsNoPerson
    BY <1>2, <2>1, CountryEvolves
  <2>3. LookedUp(item) \in Rows
    BY <1>2 DEF LookedUp, Rows
  <2> DEFINE c == LookedUp(item)
  <2>4. \A i \in Ids : /\ [artists[i] EXCEPT !.country = c] \in ArtistNodes
                        /\ [artists[i] EXCEPT !.country = c].here = artists[i].here
    BY <2>3 DEF TypeOK, ArtistNodes
  <2>5. artists' = artists \/ artists' = [artists EXCEPT ![item.id].country = c]
    BY <2>1 DEF SetNationality
  <2> HIDE DEF c
  <2>6. artists' \in [Ids -> ArtistNodes]
    BY <2>4, <2>5 DEF TypeOK
  <2>7. SameArtists
    BY <2>4, <2>5 DEF SameArtists, TypeOK
  <2>. QED
    BY <2>2, <2>6, <2>7
<1>. QED
  BY <1>3, <1>4

(* And of the artists of a recording.                                      *)
LEMMA CreditRecordingEvolves ==
    ASSUME TypeOK, CreditRecording
    PROVE  Evolution /\ AddsNoPerson
<1>0. PICK t \in todo["track-recording-artists"] : \E performers \in RecordingAnswers(t) :
         MergeRecordingArtists(t, performers)
  BY DEF CreditRecording
<1>1. PICK performers \in RecordingAnswers(t) : MergeRecordingArtists(t, performers)
  BY <1>0
<1>2. t \in Recorded /\ performers \in SUBSET Mbids
  BY PersonIdentityAssumption DEF TypeOK, RecordingAnswers, PersonIdentityAssumption
<1>. QED
  BY <1>1, <1>2, RecordingEvolves

(* The steps that write no Musician.                                       *)
KeepsMusicians ==
    \/ StartIngest \/ NextRelease \/ QueryFails \/ StartMbids \/ MbidsOfMusicians
    \/ StartRecordingArtists \/ StartNationality \/ CountriesOfMusicians
    \/ \E p \in Pipelines : ItemFails(p) \/ EndRun(p)
    \/ Restart

(* They leave the whole graph as it was.                                   *)
LEMMA KeepsAll ==
    ASSUME KeepsMusicians \/ UNCHANGED vars
    PROVE  UNCHANGED graph
  BY DEF KeepsMusicians, StartIngest, NextRelease, QueryFails, StartMbids, MbidsOfMusicians,
         StartRecordingArtists, StartNationality, CountriesOfMusicians, ItemFails, EndRun, Restart,
         vars, graph

(* Every step changes the Musicians as it may.                             *)
LEMMA EveryStepEvolves ==
    ASSUME TypeOK, [Next]_vars
    PROVE  Evolution
<1>1. CASE RunQuery
  BY <1>1, RunQueryEvolves
<1>2. CASE ResolveMbid
  BY <1>2, ResolveMbidEvolves
<1>3. CASE ResolveCountry
  BY <1>3, ResolveCountryEvolves
<1>4. CASE CreditRecording
  BY <1>4, CreditRecordingEvolves
<1>5. CASE ResetMbids \/ ResetRecordingArtists \/ ReconcileSamePersonLinks
  BY <1>5, ResetMbidsEvolves, ResetCreditsEvolves, ReconcileEvolves
<1>6. CASE KeepsMusicians \/ UNCHANGED vars
  BY <1>6, KeepsAll, SameMusicians DEF graph
<1>. QED
  BY <1>1, <1>2, <1>3, <1>4, <1>5, <1>6 DEF Next, KeepsMusicians

-----------------------------------------------------------------------------
(* The candidates a pipeline works on, by kind.                            *)
ItemsOf(p) ==
    CASE p = "mb-artist-id"            -> Ids
      [] p = "track-recording-artists" -> Recorded
      [] p = "nationality"             -> Rows

(* What the runs hold is of these kinds.                                   *)
RunsTyped ==
    /\ stage \in [Pipelines -> Stages]
    /\ todo \in [Pipelines -> SUBSET (Ids \cup Recorded \cup Rows)]
    /\ todo["mb-artist-id"] \subseteq Ids
    /\ todo["track-recording-artists"] \subseteq Recorded
    /\ todo["nationality"] \subseteq Rows

(* The candidates of each list, of that kind.                              *)
LEMMA CandidatesTyped ==
    ASSUME TypeOK
    PROVE  /\ ArtistsForMbid \subseteq Ids /\ MusiciansForMbid \subseteq Ids
           /\ RecordingsToCredit \subseteq Recorded
           /\ ArtistsForCountry \subseteq Rows /\ MusiciansForCountry \subseteq Rows
<1>1. ArtistsForMbid \subseteq Ids /\ RecordingsToCredit \subseteq Recorded
  BY DEF ArtistsForMbid, RecordingsToCredit
<1>2. \A n \in Here : musicians[n] \in MusicianNodes
  BY NodeKinds DEF Here
<1>3. MusiciansForMbid \subseteq Ids
  BY <1>2 DEF MusiciansForMbid, MusicianNodes
<1>4. ArtistsForCountry \subseteq Rows
  <2>1. \A i \in Ids : artists[i].mbid \in Mbids \cup {None}
    BY DEF TypeOK, ArtistNodes
  <2>. QED
    BY <2>1 DEF ArtistsForCountry, Rows
<1>5. \A n \in Here : Row(n) \in Rows
  BY <1>2 DEF Row, Rows, MusicianNodes
<1>6. MusiciansForCountry \subseteq Rows
  BY <1>5 DEF MusiciansForCountry
<1>. QED
  BY <1>1, <1>3, <1>4, <1>6

(* A run that takes up a list.                                             *)
LEMMA TakesTyped ==
    ASSUME TypeOK, NEW p \in Pipelines, NEW on \in Stages, NEW C, C \subseteq ItemsOf(p),
           Takes(p, on, C)
    PROVE  RunsTyped'
<1>1. PICK items \in SUBSET C : todo' = [todo EXCEPT ![p] = items]
  BY DEF Takes
<1>2. items \subseteq ItemsOf(p)
  BY <1>1
<1>3. stage' = [stage EXCEPT ![p] = on]
  BY DEF Takes
<1>4. CASE p = "mb-artist-id"
  BY <1>1, <1>2, <1>3, <1>4 DEF TypeOK, RunsTyped, ItemsOf
<1>5. CASE p = "track-recording-artists"
  BY <1>1, <1>2, <1>3, <1>5 DEF TypeOK, RunsTyped, ItemsOf
<1>6. CASE p = "nationality"
  BY <1>1, <1>2, <1>3, <1>6 DEF TypeOK, RunsTyped, ItemsOf
<1>. QED
  BY <1>4, <1>5, <1>6 DEF Pipelines

(* A run that settles an item, or ends.                                    *)
LEMMA SettlesTyped ==
    ASSUME TypeOK, NEW p \in Pipelines, NEW item, todo' = [todo EXCEPT ![p] = @ \ {item}],
           UNCHANGED stage
    PROVE  RunsTyped'
  BY DEF TypeOK, RunsTyped, Pipelines

(* Every step keeps the types.                                             *)
LEMMA TypeNext == TypeOK /\ [Next]_vars => TypeOK'
<1> SUFFICES ASSUME TypeOK, [Next]_vars PROVE TypeOK'
  OBVIOUS
<1>0. /\ musicians' \in [Nodes -> {NoNode} \cup MusicianNodes]
      /\ "mb-artist-id" \in Pipelines /\ "track-recording-artists" \in Pipelines
      /\ "nationality" \in Pipelines
      /\ "artists" \in Stages /\ "musicians" \in Stages /\ "idle" \in Stages
  BY EveryStepEvolves DEF Evolution, Pipelines, Stages
<1>a. ItemsOf("mb-artist-id") = Ids /\ ItemsOf("track-recording-artists") = Recorded
        /\ ItemsOf("nationality") = Rows
  BY DEF ItemsOf
<1>b. SUFFICES /\ artists' \in [Ids -> ArtistNodes] /\ shelf' \subseteq Releases
               /\ queries' \in Seq(Queries) /\ left' \subseteq Releases /\ RunsTyped'
               /\ reconciled' \in BOOLEAN
  BY <1>0 DEF TypeOK, RunsTyped
<1>c. RunsTyped
  BY DEF TypeOK, RunsTyped
<1>d. UNCHANGED runs => RunsTyped'
  BY <1>c DEF runs, RunsTyped
<1>1. CASE StartIngest \/ QueryFails \/ UNCHANGED vars
  <2>1. UNCHANGED <<graph, runs>> /\ queries' \in {queries, <<>>} /\ left' \in {left, Releases}
        /\ reconciled' \in {reconciled, FALSE}
    BY <1>1 DEF StartIngest, QueryFails, vars, graph, ingest
  <2>2. <<>> \in Seq(Queries) /\ queries \in Seq(Queries)
    BY DEF TypeOK
  <2>3. queries' \in Seq(Queries)
    BY <2>1, <2>2
  <2>. QED
    BY <1>d, <2>1, <2>3 DEF graph, TypeOK
<1>2. CASE NextRelease
  <2>1. \A r \in left : MergeReleaseGraph(r) \in Seq(Queries)
    BY QueriesTyped DEF TypeOK
  <2>2. queries' \in Seq(Queries) /\ left' \subseteq Releases
    BY <1>2, <2>1 DEF NextRelease, TypeOK
  <2>. QED
    BY <1>2, <1>d, <2>2 DEF NextRelease, graph, TypeOK
<1>3. CASE RunQuery
  <2>1. queries' \in Seq(Queries)
    BY <1>3, HeadTailProperties DEF RunQuery, TypeOK
  <2>. QED
    BY <1>3, <1>d, <2>1, RunQueryEvolves DEF RunQuery, TypeOK
<1>4. CASE StartMbids \/ MbidsOfMusicians
  <2>1. RunsTyped'
    BY <1>0, <1>a, <1>4, CandidatesTyped, TakesTyped DEF StartMbids, MbidsOfMusicians
  <2>. QED
    BY <1>4, <2>1 DEF StartMbids, MbidsOfMusicians, Works, ingest, graph, TypeOK
<1>5. CASE StartRecordingArtists
  <2>1. RunsTyped'
    BY <1>0, <1>a, <1>5, CandidatesTyped, TakesTyped DEF StartRecordingArtists
  <2>. QED
    BY <1>5, <2>1 DEF StartRecordingArtists, Works, ingest, graph, TypeOK
<1>6. CASE StartNationality \/ CountriesOfMusicians
  <2>1. RunsTyped'
    BY <1>0, <1>a, <1>6, CandidatesTyped, TakesTyped DEF StartNationality, CountriesOfMusicians
  <2>. QED
    BY <1>6, <2>1 DEF StartNationality, CountriesOfMusicians, Works, ingest, graph, TypeOK
<1>7. CASE ResolveMbid
  <2>1. RunsTyped'
    BY <1>0, <1>7, SettlesTyped DEF ResolveMbid
  <2>. QED
    BY <1>7, <2>1, ResolveMbidEvolves DEF ResolveMbid, Works, ingest, TypeOK
<1>8. CASE ResolveCountry
  <2>1. RunsTyped'
    BY <1>0, <1>8, SettlesTyped DEF ResolveCountry
  <2>. QED
    BY <1>8, <2>1, ResolveCountryEvolves DEF ResolveCountry, Works, ingest, TypeOK
<1>9. CASE CreditRecording
  <2>1. RunsTyped'
    BY <1>0, <1>9, SettlesTyped DEF CreditRecording
  <2>. QED
    BY <1>9, <2>1 DEF CreditRecording, Works, ingest, TypeOK
<1>10. CASE ResetMbids
  <2>1. \A i \in Ids : [artists[i] EXCEPT !.mbid = None] \in ArtistNodes
    BY DEF TypeOK, ArtistNodes
  <2>2. artists' \in [Ids -> ArtistNodes]
    BY <1>10, <2>1 DEF ResetMbids
  <2>. QED
    BY <1>10, <1>d, <2>2 DEF ResetMbids, Works, ingest, TypeOK
<1>11. CASE ResetRecordingArtists \/ ReconcileSamePersonLinks
  BY <1>11, <1>d DEF ResetRecordingArtists, ReconcileSamePersonLinks, Works, ingest, TypeOK
<1>12. CASE \E p \in Pipelines : ItemFails(p) \/ EndRun(p)
  <2>1. PICK p \in Pipelines : ItemFails(p) \/ EndRun(p)
    BY <1>12
  <2>2. CASE ItemFails(p)
    BY <2>2, SettlesTyped DEF ItemFails, Works, ingest, graph, TypeOK
  <2>3. CASE EndRun(p)
    BY <1>0, <2>3 DEF EndRun, Works, ingest, graph, TypeOK, RunsTyped
  <2>. QED
    BY <2>1, <2>2, <2>3
<1>13. CASE Restart
  BY <1>0, <1>13 DEF Restart, graph, TypeOK, RunsTyped
<1>. QED
  BY <1>1, <1>2, <1>3, <1>4, <1>5, <1>6, <1>7, <1>8, <1>9, <1>10, <1>11, <1>12, <1>13 DEF Next

(* And they hold at the start.                                             *)
LEMMA TypeInit == Init => TypeOK
<1> SUFFICES ASSUME Init PROVE TypeOK
  OBVIOUS
<1>1. NoArtist \in ArtistNodes
  BY DEF NoArtist, ArtistNodes
<1>2. artists \in [Ids -> ArtistNodes] /\ musicians \in [Nodes -> {NoNode} \cup MusicianNodes]
  BY <1>1 DEF Init
<1>3. queries \in Seq(Queries)
  BY DEF Init
<1>4. /\ stage \in [Pipelines -> Stages]
      /\ todo \in [Pipelines -> SUBSET (Ids \cup Recorded \cup Rows)]
      /\ \A p \in Pipelines : todo[p] = {}
  BY DEF Init, Stages
<1>. QED
  BY <1>2, <1>3, <1>4 DEF Init, TypeOK, Pipelines

-----------------------------------------------------------------------------
(* Every state the persons are in keeps its types.                         *)
THEOREM TypeCorrect == Spec => []TypeOK
  BY TypeInit, TypeNext, PTL DEF Spec

-----------------------------------------------------------------------------
(* A step that evolves the Musicians gives no MBID a second fallback.      *)
LEMMA FallbackStep ==
    ASSUME TypeOK, Evolution, FallbackUnique
    PROVE  FallbackUnique'
<1> SUFFICES ASSUME NEW n \in Fallbacks', NEW k \in Fallbacks',
                    musicians'[n].mbid = musicians'[k].mbid
             PROVE  n = k
  BY DEF FallbackUnique
<1>1. ASSUME NEW x \in Fallbacks'
      PROVE  /\ x \in Nodes /\ musicians'[x].here /\ musicians'[x].mbid # None
             /\ x \in Here => /\ x \in Fallbacks /\ musicians[x].mbid = musicians'[x].mbid
                             /\ x \in WithMbid(musicians'[x].mbid)
             /\ x \notin Here => x \in Unused /\ WithMbid(musicians'[x].mbid) = {}
  <2>1. /\ x \in Nodes /\ musicians'[x].here /\ musicians'[x].mbid # None
        /\ musicians'[x].id = None
    BY DEF Fallbacks, Here
  <2>2. Evolves(x) /\ musicians'[x] # NoNode
    BY <2>1 DEF Evolution, NoNode
  <2>3. CASE x \in Here
    <3>1. musicians[x].id = None /\ musicians[x].mbid = musicians'[x].mbid
      BY <2>1, <2>2, <2>3 DEF Evolves, Grows
    <3>. QED
      BY <2>1, <2>3, <3>1 DEF Fallbacks, WithMbid
  <2>4. CASE x \notin Here
    <3>1. musicians'[x] # musicians[x] /\ x \notin Fallbacks
      BY <2>1, <2>4, NodeKinds DEF Fallbacks
    <3>2. Fresh(musicians'[x])
      BY <2>2, <2>4, <3>1 DEF Evolves
    <3>. QED
      BY <2>1, <2>4, <3>2 DEF Fresh, Unused
  <2>. QED
    BY <2>1, <2>3, <2>4
<1>2. CASE n \in Here /\ k \in Here
  BY <1>1, <1>2 DEF FallbackUnique
<1>3. CASE n \notin Here /\ k \notin Here
  BY <1>1, <1>3 DEF Evolution, FreshApart
<1>4. CASE (n \in Here) # (k \in Here)
  BY <1>1, <1>4
<1>. QED
  BY <1>2, <1>3, <1>4

(* FallbackUnique for every instance: an MBID never has two fallback       *)
(* nodes.                                                                  *)
THEOREM OneFallbackEach == Spec => []FallbackUnique
<1>1. Init => FallbackUnique
  BY DEF Init, FallbackUnique, Fallbacks, Here, NoNode
<1>2. TypeOK /\ FallbackUnique /\ [Next]_vars => FallbackUnique'
  BY FallbackStep, EveryStepEvolves
<1>. QED
  BY <1>1, <1>2, TypeCorrect, PTL DEF Spec

(* A step that evolves the Musicians leaves each country with its key.     *)
LEMMA CountryStep ==
    ASSUME TypeOK, Evolution, CountryOfOwnKey
    PROVE  CountryOfOwnKey'
<1> SUFFICES ASSUME NEW n \in Nodes, musicians'[n].here, musicians'[n].country # None
             PROVE  OwnKey(musicians'[n])
  BY DEF CountryOfOwnKey, OwnKey, Here
<1>1. Evolves(n) /\ musicians'[n] # NoNode
  BY DEF Evolution, NoNode
<1>2. n \in Here /\ musicians[n].country # None => OwnKey(musicians[n])
  BY DEF CountryOfOwnKey, OwnKey
<1>3. CASE n \notin Here
  BY <1>1, <1>3, NodeKinds DEF Evolves, Fresh, Fallbacks
<1>4. CASE n \in Here /\ musicians'[n] = musicians[n]
  BY <1>2, <1>4
<1>5. CASE n \in Here /\ Grows(musicians[n], musicians'[n])
  BY <1>2, <1>5 DEF Grows, OwnKey
<1>. QED
  BY <1>1, <1>3, <1>4, <1>5 DEF Evolves

(* CountryOfOwnKey for every instance: however late a country is written,  *)
(* and whatever happened to the nodes since it was asked for, it is on     *)
(* nodes of the key it was asked for: never on one with another Discogs id *)
(* or, if it was asked for by MBID, with another MBID.  One asked for by   *)
(* name is on every node of the name without a Discogs id, the MBID        *)
(* fallback of another person included.                                    *)
THEOREM CountriesOfOwnKey == Spec => []CountryOfOwnKey
<1>1. Init => CountryOfOwnKey
  BY DEF Init, CountryOfOwnKey, Here, NoNode
<1>2. TypeOK /\ CountryOfOwnKey /\ [Next]_vars => CountryOfOwnKey'
  BY CountryStep, EveryStepEvolves
<1>. QED
  BY <1>1, <1>2, TypeCorrect, PTL DEF Spec

-----------------------------------------------------------------------------
(* Between a reconciliation and the next ingestion nothing is ingested.    *)
LinksInv == ReconciledLinksStay /\ (reconciled => ~Ingesting)

(* Outside of an ingestion no step adds an Artist or a person with a       *)
(* Discogs id, and a link stays.                                           *)
LEMMA LinksKept ==
    ASSUME TypeOK, Evolution, AddsNoPerson, SameArtists, reconciled, ReconciledLinksStay
    PROVE  ReconciledLinksStay'
<1> SUFFICES ASSUME NEW n \in SamePersons' PROVE musicians'[n].id \in musicians'[n].same
  BY DEF ReconciledLinksStay
<1>1. /\ n \in Nodes /\ musicians'[n].here /\ musicians'[n].id # None
      /\ artists'[musicians'[n].id].here
  BY DEF SamePersons, Here
<1>2. n \in Here
  BY <1>1 DEF AddsNoPerson, Unused
<1>3. musicians'[n] = musicians[n] \/ Grows(musicians[n], musicians'[n])
  BY <1>1, <1>2 DEF Evolution, Evolves, NoNode
<1>4. musicians'[n].id = musicians[n].id /\ musicians[n].same \subseteq musicians'[n].same
  BY <1>3 DEF Grows
<1>5. musicians[n].id \in Ids
  BY <1>1, <1>2, <1>4, NodeKinds DEF MusicianNodes
<1>6. n \in SamePersons
  BY <1>1, <1>2, <1>4, <1>5 DEF SamePersons, SameArtists
<1>. QED
  BY <1>4, <1>6 DEF ReconciledLinksStay

(* Every step keeps the links.                                             *)
LEMMA LinksNext == TypeOK /\ LinksInv /\ [Next]_vars => LinksInv'
<1> SUFFICES ASSUME TypeOK, LinksInv, [Next]_vars PROVE LinksInv'
  OBVIOUS
<1>0. Evolution
  BY EveryStepEvolves
<1>1. CASE StartIngest
  BY <1>1 DEF StartIngest, LinksInv, ReconciledLinksStay
<1>2. CASE NextRelease \/ RunQuery \/ QueryFails
  <2>1. ~reconciled /\ UNCHANGED reconciled
    BY <1>2 DEF NextRelease, RunQuery, QueryFails, LinksInv, Ingesting
  <2>. QED
    BY <2>1 DEF LinksInv, ReconciledLinksStay
<1>3. CASE ReconcileSamePersonLinks
  <2>1. ~Ingesting'
    BY <1>3 DEF ReconcileSamePersonLinks, ingest, Ingesting
  <2>2. ASSUME NEW n \in SamePersons' PROVE musicians'[n].id \in musicians'[n].same
    <3>1. /\ n \in Nodes /\ musicians'[n].here /\ musicians'[n].id # None
          /\ artists[musicians'[n].id].here
      BY <1>3 DEF SamePersons, Here, ReconcileSamePersonLinks
    <3>2. n \in SamePersons
      BY <1>3, <3>1, ReconcileEvolves DEF SamePersons, Here
    <3>. QED
      BY <1>3, <3>2, ReconcileEvolves
  <2>. QED
    BY <2>1, <2>2 DEF LinksInv, ReconciledLinksStay
<1>4. ASSUME AddsNoPerson, SameArtists, UNCHANGED reconciled, Ingesting' => Ingesting
      PROVE  LinksInv'
  <2>1. CASE reconciled
    BY <1>0, <1>4, <2>1, LinksKept DEF LinksInv
  <2>2. CASE ~reconciled
    BY <1>4, <2>2 DEF LinksInv, ReconciledLinksStay
  <2>. QED
    BY <2>1, <2>2
<1>5. CASE ResolveMbid
  BY <1>4, <1>5, ResolveMbidEvolves DEF ResolveMbid, Works, ingest, Ingesting
<1>6. CASE ResolveCountry
  BY <1>4, <1>6, ResolveCountryEvolves DEF ResolveCountry, Works, ingest, Ingesting
<1>7. CASE CreditRecording
  BY <1>4, <1>7, CreditRecordingEvolves DEF CreditRecording, SameArtists, Works, ingest, Ingesting
<1>8. CASE ResetMbids
  <2>1. SameArtists
    BY <1>8 DEF ResetMbids, SameArtists, TypeOK, ArtistNodes
  <2>. QED
    BY <1>4, <1>8, <2>1, ResetMbidsEvolves DEF ResetMbids, Works, ingest, Ingesting
<1>9. CASE ResetRecordingArtists
  BY <1>4, <1>9, ResetCreditsEvolves
     DEF ResetRecordingArtists, SameArtists, Works, ingest, Ingesting
<1>10. CASE \/ StartMbids \/ MbidsOfMusicians \/ StartRecordingArtists
            \/ StartNationality \/ CountriesOfMusicians
            \/ \E p \in Pipelines : ItemFails(p) \/ EndRun(p)
            \/ Restart \/ UNCHANGED vars
  <2>1. UNCHANGED graph
    BY <1>10, KeepsAll DEF KeepsMusicians
  <2>2. UNCHANGED reconciled /\ (Ingesting' => Ingesting)
    BY <1>10 DEF StartMbids, MbidsOfMusicians, StartRecordingArtists, StartNationality,
                 CountriesOfMusicians, ItemFails, EndRun, Restart, Works, ingest, vars, Ingesting
  <2>. QED
    BY <1>4, <2>1, <2>2, SameMusicians DEF graph, SameArtists
<1>. QED
  BY <1>1, <1>2, <1>3, <1>5, <1>6, <1>7, <1>8, <1>9, <1>10 DEF Next

(* ReconciledLinksStay for every instance.                                 *)
THEOREM LinksStay == Spec => []ReconciledLinksStay
<1>1. Init => LinksInv
  BY DEF Init, LinksInv, ReconciledLinksStay, Ingesting
<1>2. LinksInv => ReconciledLinksStay
  BY DEF LinksInv
<1>. QED
  BY <1>1, <1>2, LinksNext, TypeCorrect, PTL DEF Spec

(* DiscogsCreditsKept for every instance: no step of any pipeline takes a  *)
(* credit Discogs gave.                                                    *)
THEOREM DiscogsKept == Spec => DiscogsCreditsKept
<1> DEFINE Kept == \A n \in Here \ Fallbacks :
                     /\ musicians'[n].here /\ musicians'[n].id = musicians[n].id
                     /\ \A t \in Targets : musicians[n].credit[t] = "discogs"
                                             => musicians'[n].credit[t] = "discogs"
<1>1. TypeOK /\ [Next]_vars => [Kept]_vars
  <2> SUFFICES ASSUME TypeOK, [Next]_vars, NEW n \in Here \ Fallbacks
               PROVE  /\ musicians'[n].here /\ musicians'[n].id = musicians[n].id
                      /\ \A t \in Targets : musicians[n].credit[t] = "discogs"
                                              => musicians'[n].credit[t] = "discogs"
    OBVIOUS
  <2>1. n \in Nodes /\ musicians[n].here /\ Evolves(n)
    BY EveryStepEvolves DEF Evolution, Here
  <2>2. musicians'[n] = musicians[n] \/ Grows(musicians[n], musicians'[n])
    BY <2>1 DEF Evolves
  <2>. QED
    BY <2>1, <2>2 DEF Grows, MusicianNodes
<1>. QED
  BY <1>1, TypeCorrect, PTL DEF Spec, DiscogsCreditsKept

=============================================================================
