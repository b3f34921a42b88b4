--------------------------- MODULE CatalogueProofs ---------------------------
(***************************************************************************)
(* Proofs about the stages that write labels, masters, groups and the      *)
(* Wikidata facts, for every collection, every set of answers, any number  *)
(* of runs and resets at any parallelism, and any number of failing        *)
(* queries and deaths: what a marker says of the graph is so.  The runs    *)
(* take one group of pipelines at a time; here all of them work together.  *)
(***************************************************************************)
EXTENDS Catalogue, SequenceTheorems, TLAPS

MasterItems == [master : Masters, releases : SUBSET Releases]
Items == Labels \cup MasterItems \cup Masters \cup Musicians \cup Artists
ItemsOf(s) ==
    CASE s = "label-hierarchy"   -> Labels
      [] s = "master-data"       -> MasterItems
      [] s = "mb-release-events" -> Masters
      [] s = "group-members"     -> Musicians
      [] s = "artist-wikidata"   -> Artists
Nodes == Labels \cup Releases \cup Masters \cup Musicians \cup Artists
AllPlaces == Countries \cup Regions
QueryNames == {"master", "countries", "regions", "year", "crosswalk", "stamp", "unmark", "unlink"}
Queries ==
    {q \in [item : Items \cup {None}, query : QueryNames, rows : SUBSET (Releases \cup AllPlaces)] :
        /\ q.item = None => q.query \in {"unmark", "unlink"}
        /\ q.query \in {"countries", "regions"} => q.rows \subseteq AllPlaces
        /\ q.query = "year" => q.rows \subseteq Releases}
Lists == [qid : Qids \cup {None}, influencedBy : SUBSET Qids, memberOf : SUBSET Qids]
Facts == [kind : {"influence", "membership"}, from : Artists, to : Artists]

(* The queries of the list under way, numbered; and the next to run.       *)
Sent(s) == 1 .. Len(writing[s])
First(s) == writing[s][1]

TypeOK ==
    /\ owned \in SUBSET Releases
    /\ stamp \in [Stages -> SUBSET Nodes]
    /\ parents \in SUBSET (Labels \X Labels)
    /\ years \in SUBSET Releases
    /\ masters \in SUBSET Masters
    /\ releasedIn \in [Masters -> SUBSET AllPlaces]
    /\ crosswalk \in SUBSET Masters
    /\ mbEvents \in [Masters -> SUBSET AllPlaces]
    /\ memberOf \in SUBSET (Musicians \X Musicians)
    /\ notAGroup \in SUBSET Musicians
    /\ wikidata \in [Artists -> Lists]
    /\ facts \in SUBSET Facts
    /\ scope \in SUBSET Stages
    /\ running \in SUBSET Stages
    /\ todo \in [Stages -> SUBSET Items]
    /\ writing \in [Stages -> Seq(Queries)]
    /\ \A s \in Stages :
        /\ todo[s] \subseteq ItemsOf(s)
        /\ \A i \in Sent(s) : writing[s][i].item \in ItemsOf(s) \cup {None}
    /\ answered \in [Releases \cup Masters -> SUBSET AllPlaces]
    /\ linkable \in [Musicians -> SUBSET Musicians]
    /\ torn \in [write : SUBSET Masters, reset : SUBSET Nodes]
    /\ stale \in SUBSET Facts
    /\ starts \in Nat
    /\ faults \in Nat

-----------------------------------------------------------------------------
(* The inductive invariant, a part for every pipeline.                     *)

(* The places the queries left of a list will add. *)
Coming(s) ==
    UNION {writing[s][i].rows : i \in {j \in Sent(s) : writing[s][j].query \in {"countries", "regions"}}}

(* Every query of a list is about one item, and the list ends with last    *)
(* and with nothing else.                                                  *)
List(s, names, last) ==
    \A i \in Sent(s) :
        /\ writing[s][i].item = First(s).item
        /\ writing[s][i].query \in names
        /\ writing[s][i].query = last <=> i = Len(writing[s])

(* A pipeline that does not run has nothing to do and nothing under way;   *)
(* a reset works on no item; labels and Wikidata are written by one query. *)
Quiet ==
    /\ \A s \in Stages \ running : todo[s] = {} /\ writing[s] = <<>>
    /\ \A s \in Stages : writing[s] # <<>> /\ First(s).item = None => todo[s] = {}
    /\ writing["label-hierarchy"] = <<>> /\ writing["artist-wikidata"] = <<>>

(* master-data.  What is to be taken up has no year yet, and a master is   *)
(* taken up once.  The queries left of a write bring all that is missing   *)
(* of the master before they bring the year.                               *)
Undated(item) ==
    \A r \in item.releases : r \notin years /\ MasterOf[r] = item.master

MasterInv ==
    LET s == "master-data" IN
    /\ DatedIsComplete
    /\ \A item \in todo[s] : Undated(item)
    /\ \A i, j \in todo[s] : i.master = j.master => i = j
    /\ writing[s] # <<>> =>
        LET item == First(s).item IN
        /\ item \in MasterItems /\ Undated(item)
        /\ \A i \in todo[s] : i.master # item.master
        /\ List(s, {"master", "countries", "regions", "year"}, "year")
        /\ writing[s][Len(writing[s])].rows = item.releases
        /\ item.master \in masters \/ First(s).query = "master"
        /\ \A r \in item.releases : answered[r] \subseteq releasedIn[item.master] \cup Coming(s)

(* mb-release-events.  A master with events is complete, unless a write or *)
(* a reset is under way or was cut off there.                              *)
Resetting(s) == writing[s] # <<>> /\ First(s).item = None

CompleteEvents(m) ==
    mbEvents[m] # {} /\ m \notin torn.reset =>
        /\ m \in crosswalk
        /\ m \notin torn.write =>
            m \in stamp["mb-release-events"] /\ answered[m] \subseteq mbEvents[m]

EventInv ==
    LET s == "mb-release-events" IN
    /\ \A m \in todo[s] : mbEvents[m] = {} \/ m \in torn.write
    /\ Resetting(s) => List(s, {"unmark", "unlink"}, "unlink") /\ Len(writing[s]) <= 2
    /\ \A m \in Masters :
        \/ CompleteEvents(m)
        \/ writing[s] # <<>> /\ First(s).item = m
        \/ Resetting(s) /\ First(s).query = "unlink"
    /\ writing[s] # <<>> /\ ~Resetting(s) =>
        LET m == First(s).item IN
        /\ m \in Masters \ todo[s]
        /\ List(s, {"crosswalk", "countries", "regions", "stamp"}, "stamp")
        /\ m \in crosswalk \/ First(s).query = "crosswalk"
        /\ mbEvents[m] # {} /\ m \notin torn.reset => m \in crosswalk
        /\ answered[m] \subseteq mbEvents[m] \cup Coming(s)

(* group-members.  Only the reset has a list of queries; when it has       *)
(* deleted the edges the markers are still there.                          *)
GroupInv ==
    LET s == "group-members" IN
    /\ \A g \in notAGroup : Roster[g] = {}
    /\ stamp[s] \subseteq Musicians /\ \A g \in Musicians : linkable[g] \subseteq Roster[g]
    /\ writing[s] # <<>> =>
        First(s).item = None /\ List(s, {"unlink", "unmark"}, "unmark") /\ Len(writing[s]) <= 2
    /\ \/ writing[s] # <<>> /\ First(s).query = "unmark"
       \/ \A g \in stamp[s] \ torn.reset : linkable[g] \X {g} \subseteq memberOf

(* label-hierarchy.                                                        *)
LabelInv ==
    \A e \in parents :
        e[1] \in stamp["label-hierarchy"] /\ \A f \in parents : f[1] = e[1] => f = e

(* artist-wikidata.  An artist that is to be looked up has no lists, so no *)
(* edge was drawn from them, nor to the item it has not got.               *)
WikidataInv ==
    /\ \A x \in Artists : wikidata[x].qid = None => wikidata[x] = NoData
    /\ \A x \in todo["artist-wikidata"] : wikidata[x].qid = None
    /\ FactsAreBacked

Inv == Quiet /\ MasterInv /\ EventInv /\ GroupInv /\ LabelInv /\ WikidataInv

-----------------------------------------------------------------------------
(* Lists of queries.                                                       *)

(* A query runs: the list loses its first, and no other list changes.      *)
LEMMA QueryPops ==
    ASSUME TypeOK, NEW s \in Stages, NEW name, Query(s, name)
    PROVE  /\ writing[s] # <<>> /\ Len(writing[s]) \in Nat \ {0}
           /\ First(s).query = name /\ Item(s) = First(s).item /\ Rows(s) = First(s).rows
           /\ 1 \in Sent(s)
           /\ Len(writing'[s]) = Len(writing[s]) - 1
           /\ \A i \in 1 .. Len(writing'[s]) :
                 i + 1 \in Sent(s) /\ writing'[s][i] = writing[s][i + 1]
           /\ writing'[s] = <<>> <=> Len(writing[s]) = 1
           /\ \A t \in Stages \ {s} : writing'[t] = writing[t]
           /\ writing' \in [Stages -> Seq(Queries)]
<1>1. /\ writing[s] \in Seq(Queries) /\ writing[s] # <<>>
      /\ writing' = [writing EXCEPT ![s] = Tail(writing[s])]
  BY DEF TypeOK, Query
<1>2. /\ Len(writing[s]) \in Nat \ {0}
      /\ Tail(writing[s]) \in Seq(Queries)
      /\ Len(Tail(writing[s])) = Len(writing[s]) - 1
      /\ \A i \in 1 .. Len(Tail(writing[s])) : Tail(writing[s])[i] = writing[s][i + 1]
      /\ Head(writing[s]) = writing[s][1]
  BY <1>1
<1>3. writing'[s] = Tail(writing[s]) /\ \A t \in Stages \ {s} : writing'[t] = writing[t]
  BY <1>1 DEF TypeOK
<1>4. writing' \in [Stages -> Seq(Queries)]
  BY <1>1, <1>2 DEF TypeOK
<1>5. writing'[s] = <<>> <=> Len(writing[s]) = 1
  <2>1. writing'[s] # <<>> => Len(writing'[s]) # 0
    BY <1>2, <1>3, EmptySeq
  <2>2. writing'[s] = <<>> => Len(writing'[s]) = 0
    OBVIOUS
  <2>3. Len(writing'[s]) = Len(writing[s]) - 1 /\ Len(writing[s]) \in Nat
    BY <1>2, <1>3
  <2>. QED
    BY <2>1, <2>2, <2>3
<1>. QED
  BY <1>1, <1>2, <1>3, <1>4, <1>5 DEF First, Item, Rows, Sent, Query

(* The queries left are about items of their stage, as they were.          *)
LEMMA QueryKeepsItems ==
    ASSUME TypeOK, NEW s \in Stages, NEW name, Query(s, name), NEW t \in Stages
    PROVE  \A i \in Sent(t)' : writing'[t][i].item \in ItemsOf(t) \cup {None}
<1>1. CASE t = s
  <2>1. ASSUME NEW i \in 1 .. Len(writing'[s])
        PROVE  writing'[s][i].item \in ItemsOf(s) \cup {None}
    <3>1. i + 1 \in Sent(s) /\ writing'[s][i] = writing[s][i + 1]
      BY QueryPops
    <3>. QED
      BY <3>1 DEF TypeOK
  <2>. QED
    BY <1>1, <2>1 DEF Sent
<1>2. CASE t # s
  BY <1>2, QueryPops DEF TypeOK, Sent
<1>. QED
  BY <1>1, <1>2

(* A list that is begun.                                                   *)
LEMMA BeginTyped ==
    ASSUME TypeOK, NEW s \in Stages, NEW queries \in Seq(Queries), Begin(s, queries),
           \A i \in 1 .. Len(queries) : queries[i].item \in ItemsOf(s) \cup {None}
    PROVE  /\ writing' \in [Stages -> Seq(Queries)]
           /\ writing'[s] = queries
           /\ \A t \in Stages \ {s} : writing'[t] = writing[t]
           /\ \A t \in Stages : \A i \in Sent(t)' : writing'[t][i].item \in ItemsOf(t) \cup {None}
<1>1. /\ writing' \in [Stages -> Seq(Queries)]
      /\ writing'[s] = queries
      /\ \A t \in Stages \ {s} : writing'[t] = writing[t]
  BY DEF TypeOK, Begin
<1>2. ASSUME NEW t \in Stages, t # s
      PROVE  \A i \in Sent(t)' : writing'[t][i].item \in ItemsOf(t) \cup {None}
  BY <1>1, <1>2 DEF TypeOK, Sent
<1>3. \A i \in Sent(s)' : writing'[s][i].item \in ItemsOf(s) \cup {None}
  BY <1>1 DEF Sent
<1>. QED
  BY <1>1, <1>2, <1>3

(* The queries for the places of an item.                                  *)
LEMMA PlacesList ==
    ASSUME NEW item \in Items \ {None}, NEW places \in SUBSET AllPlaces
    PROVE  LET w == SendPlaces(item, places) IN
           /\ w \in Seq(Queries)
           /\ \A i \in 1 .. Len(w) : w[i].item = item /\ w[i].query \in {"countries", "regions"}
           /\ \A p \in places : \E i \in 1 .. Len(w) : p \in w[i].rows
<1> DEFINE c == places \cap Countries
           r == places \cap Regions
<1>1. /\ c \in SUBSET AllPlaces /\ r \in SUBSET AllPlaces /\ places = c \cup r
  BY DEF AllPlaces
<1>2. /\ [item |-> item, query |-> "countries", rows |-> c] \in Queries
      /\ [item |-> item, query |-> "regions", rows |-> r] \in Queries
  BY <1>1 DEF Queries, QueryNames
<1>0. SendPlaces(item, places) = SendRows(item, "countries", c) \o SendRows(item, "regions", r)
  BY DEF SendPlaces
<1> HIDE DEF c, r
<1>3. CASE c = {} /\ r = {}
  BY <1>0, <1>1, <1>2, <1>3 DEF Send, SendRows
<1>4. CASE c # {} /\ r = {}
  BY <1>0, <1>1, <1>2, <1>4 DEF Send, SendRows
<1>5. CASE c = {} /\ r # {}
  BY <1>0, <1>1, <1>2, <1>5 DEF Send, SendRows
<1>6. CASE c # {} /\ r # {}
  BY <1>0, <1>1, <1>2, <1>6 DEF Send, SendRows
<1>. QED
  BY <1>3, <1>4, <1>5, <1>6

(* A list between a first and a last query.                                *)
LEMMA Bracketed ==
    ASSUME NEW w \in Seq(Queries), NEW x \in Queries, NEW y \in Queries
    PROVE  LET u == <<x>> \o w \o <<y>> IN
           /\ u \in Seq(Queries) /\ Len(u) = Len(w) + 2 /\ Len(w) \in Nat
           /\ u[1] = x /\ u[Len(u)] = y
           /\ \A i \in 1 .. Len(u) : i = 1 \/ i = Len(u) \/ (i - 1 \in 1 .. Len(w) /\ u[i] = w[i - 1])
           /\ \A i \in 1 .. Len(w) : i + 1 \in 1 .. Len(u) /\ u[i + 1] = w[i]
<1> DEFINE v == <<x>> \o w
           u == v \o <<y>>
<1>1. /\ v \in Seq(Queries) /\ Len(v) = Len(w) + 1 /\ Len(w) \in Nat
      /\ v[1] = x /\ \A i \in 1 .. Len(w) : v[i + 1] = w[i]
      /\ \A i \in 2 .. Len(v) : v[i] = w[i - 1]
  OBVIOUS
<1> HIDE DEF v
<1>2. /\ u \in Seq(Queries) /\ Len(u) = Len(v) + 1 /\ u[Len(u)] = y
      /\ \A i \in 1 .. Len(v) : u[i] = v[i]
  BY <1>1
<1> HIDE DEF u
<1>3. u[1] = x /\ Len(u) = Len(w) + 2
  BY <1>1, <1>2
<1>4. \A i \in 1 .. Len(u) : i = 1 \/ i = Len(u) \/ (i - 1 \in 1 .. Len(w) /\ u[i] = w[i - 1])
  BY <1>1, <1>2, <1>3
<1>5. \A i \in 1 .. Len(w) : i + 1 \in 1 .. Len(u) /\ u[i + 1] = w[i]
  BY <1>1, <1>2, <1>3
<1>. QED
  BY <1>1, <1>2, <1>3, <1>4, <1>5 DEF u, v

(* The list of a write: the places between a first query and a last one.   *)
Brackets(w, item, first, last, rows) ==
    /\ w \in Seq(Queries) /\ w # <<>> /\ Len(w) \in Nat \ {0, 1}
    /\ w[1].query = first /\ w[Len(w)].rows = rows
    /\ \A i \in 1 .. Len(w) :
        /\ w[i].item = item
        /\ w[i].query \in {first, "countries", "regions", last}
        /\ w[i].query = last <=> i = Len(w)

(* Between a first and a last query, the list of a write has all its       *)
(* places.                                                                 *)
LEMMA WriteList ==
    ASSUME NEW item \in Items \ {None}, NEW places \in SUBSET AllPlaces,
           NEW first \in {"master", "crosswalk"}, NEW last \in {"year", "stamp"},
           NEW rows \in SUBSET Releases
    PROVE  LET w == Send(item, first, {}) \o SendPlaces(item, places) \o Send(item, last, rows) IN
           /\ Brackets(w, item, first, last, rows)
           /\ \A p \in places : \E i \in 1 .. Len(w) :
                w[i].query \in {"countries", "regions"} /\ p \in w[i].rows
<1> DEFINE x == [item |-> item, query |-> first, rows |-> {}]
           y == [item |-> item, query |-> last, rows |-> rows]
           v == SendPlaces(item, places)
           w == <<x>> \o v \o <<y>>
<1>1. /\ x \in Queries /\ y \in Queries
      /\ x.item = item /\ x.query = first /\ y.item = item /\ y.query = last /\ y.rows = rows
  BY DEF Queries, QueryNames
<1>2. /\ v \in Seq(Queries)
      /\ \A i \in 1 .. Len(v) : v[i].item = item /\ v[i].query \in {"countries", "regions"}
      /\ \A p \in places : \E i \in 1 .. Len(v) : p \in v[i].rows
  BY PlacesList
<1> HIDE DEF x, y, v
<1>3. /\ w \in Seq(Queries) /\ Len(w) = Len(v) + 2 /\ Len(v) \in Nat
      /\ w[1] = x /\ w[Len(w)] = y
      /\ \A i \in 1 .. Len(w) : i = 1 \/ i = Len(w) \/ (i - 1 \in 1 .. Len(v) /\ w[i] = v[i - 1])
      /\ \A i \in 1 .. Len(v) : i + 1 \in 1 .. Len(w) /\ w[i + 1] = v[i]
  BY <1>1, <1>2, Bracketed
<1> HIDE DEF w
<1>4. w # <<>>
  BY <1>3, EmptySeq
<1>5. Brackets(w, item, first, last, rows)
  BY <1>1, <1>2, <1>3, <1>4 DEF Brackets
<1>6. ASSUME NEW p \in places
      PROVE  \E i \in 1 .. Len(w) : w[i].query \in {"countries", "regions"} /\ p \in w[i].rows
  <2>1. PICK i \in 1 .. Len(v) : p \in v[i].rows
    BY <1>2
  <2>. QED
    BY <1>2, <1>3, <2>1
<1>. QED
  BY <1>5, <1>6 DEF w, x, y, v, Send

(* The list that writes a master.                                          *)
LEMMA MasterList ==
    ASSUME NEW item \in MasterItems, NEW places \in SUBSET AllPlaces
    PROVE  LET w == MergeMasterData(item, places) IN
           /\ Brackets(w, item, "master", "year", item.releases)
           /\ \A p \in places : \E i \in 1 .. Len(w) :
                w[i].query \in {"countries", "regions"} /\ p \in w[i].rows
<1>1. item \in Items \ {None} /\ item.releases \in SUBSET Releases
  BY CatalogueAssumption DEF CatalogueAssumption, Items, MasterItems
<1>. QED
  BY <1>1, WriteList DEF MergeMasterData

(* The list that writes the release events of a master.                    *)
LEMMA EventList ==
    ASSUME NEW m \in Masters, NEW places \in SUBSET AllPlaces
    PROVE  LET w == WriteEvents(m, places) IN
           /\ Brackets(w, m, "crosswalk", "stamp", {})
           /\ \A p \in places : \E i \in 1 .. Len(w) :
                w[i].query \in {"countries", "regions"} /\ p \in w[i].rows
<1>1. m \in Items \ {None} /\ {} \in SUBSET Releases
  BY CatalogueAssumption DEF CatalogueAssumption, Items
<1>. QED
  BY <1>1, WriteList DEF WriteEvents

(* The list of a reset.                                                    *)
LEMMA ResetList ==
    ASSUME NEW first \in {"unmark", "unlink"}, NEW last \in {"unmark", "unlink"}, first # last
    PROVE  LET w == Send(None, first, {}) \o Send(None, last, {}) IN
           /\ w \in Seq(Queries) /\ w # <<>> /\ Len(w) = 2
           /\ w[1].query = first
           /\ \A i \in 1 .. Len(w) :
                /\ w[i].item = None /\ w[i].query \in {first, last}
                /\ w[i].query = last <=> i = Len(w)
<1> DEFINE x == [item |-> None, query |-> first, rows |-> {}]
           y == [item |-> None, query |-> last, rows |-> {}]
<1>1. /\ x \in Queries /\ y \in Queries
      /\ x.item = None /\ x.query = first /\ y.item = None /\ y.query = last
  BY DEF Queries, QueryNames
<1> HIDE DEF x, y
<1>2. /\ <<x>> \o <<y>> \in Seq(Queries) /\ Len(<<x>> \o <<y>>) = 2 /\ <<x>> \o <<y>> # <<>>
      /\ (<<x>> \o <<y>>)[1] = x /\ (<<x>> \o <<y>>)[2] = y
  BY <1>1, EmptySeq
<1>. QED
  BY <1>1, <1>2 DEF Send, x, y

-----------------------------------------------------------------------------
(* The types.                                                              *)

(* A change of what one pipeline has to do.                                *)
LEMMA TodoTyped ==
    ASSUME TypeOK, NEW s \in Stages, NEW items \in SUBSET ItemsOf(s),
           todo' = [todo EXCEPT ![s] = items]
    PROVE  /\ todo' \in [Stages -> SUBSET Items] /\ todo'[s] = items
           /\ \A t \in Stages \ {s} : todo'[t] = todo[t]
           /\ \A t \in Stages : todo'[t] \subseteq ItemsOf(t)
<1>1. ItemsOf(s) \subseteq Items
  BY DEF ItemsOf, Items, Stages
<1>. QED
  BY <1>1 DEF TypeOK

(* What stays of the lists of queries when none changes. *)
LEMMA SameLists ==
    ASSUME TypeOK, writing' = writing
    PROVE  /\ writing' \in [Stages -> Seq(Queries)]
           /\ \A t \in Stages : \A i \in Sent(t)' : writing'[t][i].item \in ItemsOf(t) \cup {None}
  BY DEF TypeOK, Sent

(* A candidate settles.                                                    *)
LEMMA SettleTyped ==
    ASSUME TypeOK, NEW s \in Stages, NEW item, Settle(s, item)
    PROVE  /\ todo' \in [Stages -> SUBSET Items] /\ todo'[s] = todo[s] \ {item}
           /\ item \in ItemsOf(s) /\ item \in todo[s] /\ writing[s] = <<>>
           /\ \A t \in Stages \ {s} : todo'[t] = todo[t]
           /\ \A t \in Stages : todo'[t] \subseteq ItemsOf(t)
<1>1. /\ todo[s] \ {item} \in SUBSET ItemsOf(s) /\ item \in todo[s] /\ writing[s] = <<>>
      /\ item \in ItemsOf(s) /\ todo' = [todo EXCEPT ![s] = todo[s] \ {item}]
  BY DEF TypeOK, Settle
<1>. QED
  BY <1>1, TodoTyped

(* A stage stamps nodes; no other stamp changes.                           *)
LEMMA StampTyped ==
    ASSUME TypeOK, NEW s \in Stages, NEW nodes \in SUBSET Nodes, Stamp(s, nodes)
    PROVE  /\ stamp' \in [Stages -> SUBSET Nodes] /\ stamp'[s] = stamp[s] \cup nodes
           /\ \A t \in Stages \ {s} : stamp'[t] = stamp[t]
  BY DEF TypeOK, Stamp

(* What every action leaves to be shown of the types, in four parts. *)
PipesTyped ==
    /\ running \in SUBSET Stages
    /\ todo \in [Stages -> SUBSET Items]
    /\ writing \in [Stages -> Seq(Queries)]
    /\ \A s \in Stages :
        /\ todo[s] \subseteq ItemsOf(s)
        /\ \A i \in Sent(s) : writing[s][i].item \in ItemsOf(s) \cup {None}

GraphTyped ==
    /\ stamp \in [Stages -> SUBSET Nodes]
    /\ parents \in SUBSET (Labels \X Labels)
    /\ years \in SUBSET Releases
    /\ masters \in SUBSET Masters
    /\ releasedIn \in [Masters -> SUBSET AllPlaces]
    /\ crosswalk \in SUBSET Masters
    /\ mbEvents \in [Masters -> SUBSET AllPlaces]
    /\ memberOf \in SUBSET (Musicians \X Musicians)
    /\ notAGroup \in SUBSET Musicians
    /\ wikidata \in [Artists -> Lists]
    /\ facts \in SUBSET Facts

HistoryTyped ==
    /\ answered \in [Releases \cup Masters -> SUBSET AllPlaces]
    /\ linkable \in [Musicians -> SUBSET Musicians]
    /\ torn \in [write : SUBSET Masters, reset : SUBSET Nodes]
    /\ stale \in SUBSET Facts

BoundsTyped ==
    owned \in SUBSET Releases /\ scope \in SUBSET Stages /\ starts \in Nat /\ faults \in Nat

(* The types are these four parts,                                         *)
LEMMA TypeParts == TypeOK <=> PipesTyped /\ GraphTyped /\ HistoryTyped /\ BoundsTyped
  BY DEF TypeOK, PipesTyped, GraphTyped, HistoryTyped, BoundsTyped, Sent

(* and are kept when the parts are.                                        *)
LEMMA TypePartsNext ==
    ASSUME PipesTyped', GraphTyped', HistoryTyped', BoundsTyped'
    PROVE  TypeOK'
  BY DEF TypeOK, PipesTyped, GraphTyped, HistoryTyped, BoundsTyped, Sent

(* A part is kept by a step that changes nothing it speaks of.             *)
LEMMA TypeSame ==
    /\ PipesTyped /\ UNCHANGED pipelines => PipesTyped'
    /\ GraphTyped /\ UNCHANGED graph => GraphTyped'
    /\ HistoryTyped /\ UNCHANGED history => HistoryTyped'
<1>1. PipesTyped /\ UNCHANGED pipelines => PipesTyped'
  BY DEF PipesTyped, pipelines, Sent
<1>2. GraphTyped /\ UNCHANGED graph => GraphTyped'
  BY DEF GraphTyped, graph
<1>3. HistoryTyped /\ UNCHANGED history => HistoryTyped'
  BY DEF HistoryTyped, history
<1>. QED
  BY <1>1, <1>2, <1>3

(* The candidates of every stage are its items.                            *)
LEMMA CandidatesTyped ==
    ASSUME TypeOK, NEW s \in Stages, NEW aged \in SUBSET stamp[s]
    PROVE  Candidates(s, aged) \subseteq ItemsOf(s)
<1> USE CatalogueAssumption DEF CatalogueAssumption
<1>1. CASE s = "label-hierarchy"
  <2>1. Collected(LabelsOf) \subseteq Labels
    BY DEF Collected, TypeOK
  <2>. QED
    BY <1>1, <2>1 DEF Candidates, ItemsOf, GetUnenrichedLabels, Due
<1>2. CASE s = "master-data"
  BY <1>2 DEF Candidates, ItemsOf, GetUnenrichedMasters, Due, TypeOK, MasterItems
<1>3. CASE s = "mb-release-events"
  BY <1>3 DEF Candidates, ItemsOf, GetMastersForReleaseEvents, Due, TypeOK
<1>4. CASE s = "group-members"
  <2>1. Collected(CreditsOf) \subseteq Musicians
    BY DEF Collected, TypeOK
  <2>. QED
    BY <1>4, <2>1 DEF Candidates, ItemsOf, GetGroupCandidates, Due
<1>5. CASE s = "artist-wikidata"
  <2>1. Collected(ArtistsOf) \subseteq Artists
    BY DEF Collected, TypeOK, Artists
  <2>. QED
    BY <1>5, <2>1 DEF Candidates, ItemsOf, GetUnenrichedArtistsForWikidata, Due
<1>. QED
  BY <1>1, <1>2, <1>3, <1>4, <1>5 DEF Stages

(* The steps every pipeline takes.                                         *)
LEMMA RunStepTyped ==
    ASSUME TypeOK, NEW s \in Stages, StartRun(s) \/ ItemFails(s) \/ RunEnds(s)
    PROVE  TypeOK'
<1>0. GraphTyped' /\ HistoryTyped' /\ owned' \in SUBSET Releases /\ scope' \in SUBSET Stages
      /\ faults' \in Nat
  BY TypeParts, TypeSame DEF StartRun, ItemFails, RunEnds, bounds, BoundsTyped
<1>1. \E items \in SUBSET ItemsOf(s) : todo' = [todo EXCEPT ![s] = items]
  <2>1. CASE StartRun(s)
    BY <2>1, CandidatesTyped DEF StartRun
  <2>2. CASE ItemFails(s)
    BY <2>2 DEF ItemFails, TypeOK
  <2>3. CASE RunEnds(s)
    BY <2>3 DEF RunEnds
  <2>. QED
    BY <2>1, <2>2, <2>3
<1>2. writing' = writing /\ running' \in SUBSET Stages /\ starts' \in Nat
  BY DEF StartRun, ItemFails, RunEnds, TypeOK
<1>3. PipesTyped'
  BY <1>1, <1>2, TodoTyped, SameLists DEF PipesTyped
<1>4. BoundsTyped'
  BY <1>0, <1>2 DEF BoundsTyped
<1>. QED
  BY <1>0, <1>3, <1>4, TypePartsNext

(* What is cut off are nodes.                                              *)
LEMMA TearTyped ==
    ASSUME TypeOK, NEW stages, Tear(stages)
    PROVE  torn' \in [write : SUBSET Masters, reset : SUBSET Nodes]
<1>1. stamp["group-members"] \subseteq Nodes
  BY DEF TypeOK, Stages
<1>2. /\ torn.write \in SUBSET Masters /\ torn.reset \in SUBSET Nodes /\ Masters \subseteq Nodes
  BY DEF TypeOK, Nodes
<1>. QED
  BY <1>1, <1>2 DEF Tear

(* A query fails, or the service dies: nothing but what was under way is   *)
(* touched.                                                                *)
LEMMA QueryFailsTyped ==
    ASSUME TypeOK, NEW s \in Stages, QueryFails(s)
    PROVE  TypeOK'
<1>0. /\ GraphTyped' /\ UNCHANGED <<owned, answered, linkable, stale, scope, starts>>
      /\ faults' \in Nat
  BY TypeParts, TypeSame DEF QueryFails, TypeOK
<1>1. /\ writing' \in [Stages -> Seq(Queries)]
      /\ \A t \in Stages : \A i \in Sent(t)' : writing'[t][i].item \in ItemsOf(t) \cup {None}
  <2>1. <<>> \in Seq(Queries) /\ \A i \in 1 .. Len(<<>>) : <<>>[i].item \in ItemsOf(s) \cup {None}
    BY EmptySeq
  <2>. QED
    BY <2>1, BeginTyped DEF QueryFails
<1>2. todo' \in [Stages -> SUBSET Items] /\ \A t \in Stages : todo'[t] \subseteq ItemsOf(t)
  <2>1. CASE Item(s) = None
    BY <2>1 DEF QueryFails, TypeOK
  <2>2. CASE Item(s) # None
    <3>1. writing[s] # <<>> /\ writing[s] \in Seq(Queries)
      BY DEF QueryFails, TypeOK
    <3>2. Item(s) = First(s).item /\ 1 \in Sent(s)
      BY <3>1, EmptySeq DEF Item, First, Sent
    <3>3. Item(s) \in ItemsOf(s)
      BY <2>2, <3>2 DEF TypeOK, First
    <3>4. PICK again \in SUBSET {Item(s)} : todo' = [todo EXCEPT ![s] = @ \cup again]
      BY <2>2 DEF QueryFails
    <3>5. todo[s] \cup again \in SUBSET ItemsOf(s)
      BY <3>3 DEF TypeOK
    <3>. QED
      BY <3>4, <3>5, TodoTyped
  <2>. QED
    BY <2>1, <2>2
<1>3. running' \in SUBSET Stages
  BY DEF QueryFails, TypeOK
<1>4. torn' \in [write : SUBSET Masters, reset : SUBSET Nodes]
  BY TearTyped DEF QueryFails
<1>5. PipesTyped'
  BY <1>1, <1>2, <1>3 DEF PipesTyped
<1>6. HistoryTyped'
  BY <1>0, <1>4, TypeParts DEF HistoryTyped
<1>7. BoundsTyped'
  BY <1>0, TypeParts DEF BoundsTyped
<1>. QED
  BY <1>0, <1>5, <1>6, <1>7, TypePartsNext

(* The service dies, with all that is under way.                           *)
LEMMA DiesTyped ==
    ASSUME TypeOK, Dies
    PROVE  TypeOK'
<1>0. /\ GraphTyped' /\ UNCHANGED <<owned, answered, linkable, stale, scope, starts>>
      /\ faults' \in Nat
  BY TypeParts, TypeSame DEF Dies, TypeOK
<1>1. /\ running' = {} /\ \A s \in Stages : todo'[s] = {} /\ writing'[s] = <<>>
      /\ todo' \in [Stages -> SUBSET Items]
      /\ writing' \in [Stages -> Seq(Queries)]
  BY EmptySeq DEF Dies
<1>2. \A s \in Stages : Sent(s)' = {}
  BY <1>1, EmptySeq DEF Sent
<1>3. PipesTyped'
  BY <1>1, <1>2 DEF PipesTyped
<1>4. torn' \in [write : SUBSET Masters, reset : SUBSET Nodes]
  BY TearTyped DEF Dies
<1>6. HistoryTyped'
  BY <1>0, <1>4, TypeParts DEF HistoryTyped
<1>7. BoundsTyped'
  BY <1>0, TypeParts DEF BoundsTyped
<1>. QED
  BY <1>0, <1>3, <1>6, <1>7, TypePartsNext

(* The stages.                                                             *)
LEMMA LabelStepTyped ==
    ASSUME TypeOK, EnrichLabel \/ ResetLabelHierarchy
    PROVE  TypeOK'
<1> DEFINE L == "label-hierarchy"
<1>0. L \in Stages /\ ItemsOf(L) = Labels /\ Labels \subseteq Nodes
  BY DEF Stages, ItemsOf, Nodes
<1>1. CASE EnrichLabel
  <2>0. /\ UNCHANGED <<owned, years, masters, releasedIn, crosswalk, mbEvents, memberOf,
                       notAGroup, wikidata, facts, running, writing, history, starts, bounds>>
    BY <1>1 DEF EnrichLabel
  <2>1. PICK l \in todo[L] : /\ Settle(L, l) /\ Stamp(L, {l})
                             /\ \/ \E p \in Labels \ {l} : SetLabelParent(l, p)
                                \/ SetLabelHierarchyFetched(l)
    BY <1>1 DEF EnrichLabel
  <2>2. l \in Labels
    BY <1>0, <2>1 DEF TypeOK
  <2>3. stamp' \in [Stages -> SUBSET Nodes]
    <3>1. {l} \in SUBSET Nodes
      BY <1>0, <2>2
    <3>. QED
      BY <1>0, <2>1, <3>1, StampTyped
  <2>4. parents' \in SUBSET (Labels \X Labels)
    BY <2>1, <2>2 DEF TypeOK, SetLabelParent, SetLabelHierarchyFetched
  <2>5. PipesTyped'
    BY <1>0, <2>0, <2>1, SettleTyped, SameLists DEF PipesTyped, TypeOK
  <2>6. GraphTyped'
    BY <2>0, <2>3, <2>4 DEF GraphTyped, TypeOK
  <2>7. HistoryTyped' /\ BoundsTyped'
    BY <2>0, TypeParts, TypeSame DEF bounds, BoundsTyped
  <2>. QED
    BY <2>5, <2>6, <2>7, TypePartsNext
<1>2. CASE ResetLabelHierarchy
  <2>1. /\ stamp' \in [Stages -> SUBSET Nodes] /\ parents' \in SUBSET (Labels \X Labels)
        /\ starts' \in Nat
        /\ UNCHANGED <<owned, years, masters, releasedIn, crosswalk, mbEvents, memberOf,
                       notAGroup, wikidata, facts, pipelines, history, bounds>>
    BY <1>0, <1>2 DEF ResetLabelHierarchy, Resets, TypeOK
  <2>2. PipesTyped' /\ HistoryTyped'
    BY <2>1, TypeParts, TypeSame
  <2>3. GraphTyped' /\ BoundsTyped'
    BY <2>1 DEF TypeOK, GraphTyped, BoundsTyped, bounds
  <2>. QED
    BY <2>2, <2>3, TypePartsNext
<1>. QED
  BY <1>1, <1>2

(* The places of an answer.                                                *)
LEMMA PlacesTyped ==
    ASSUME NEW answer \in SUBSET Markets
    PROVE  Places(answer) \in SUBSET AllPlaces
  BY CatalogueAssumption DEF CatalogueAssumption, Places, AllPlaces

(* A list that is begun or popped, with all else of the pipelines.         *)
LEMMA QueryPipesTyped ==
    ASSUME TypeOK, NEW s \in Stages, NEW name, Query(s, name), todo' = todo,
           running' \in SUBSET Stages
    PROVE  PipesTyped'
<1>1. writing' \in [Stages -> Seq(Queries)]
  BY QueryPops
<1>2. \A t \in Stages : \A i \in Sent(t)' : writing'[t][i].item \in ItemsOf(t) \cup {None}
  BY QueryKeepsItems
<1>. QED
  BY <1>1, <1>2 DEF PipesTyped, TypeOK

(* What an answer about a master begins. *)
AnswerMaster(item, versions) ==
    /\ Begin("master-data", MergeMasterData(item, Places(versions)))
    /\ answered' = [k \in DOMAIN answered |->
                      IF k \in item.releases THEN Places(versions) ELSE answered[k]]
    /\ UNCHANGED stamp

(* EnrichMaster either stamps, or begins a list.                           *)
LEMMA EnrichMasterCases ==
    ASSUME EnrichMaster
    PROVE  \E item \in todo["master-data"] :
             /\ Settle("master-data", item)
             /\ \/ Stamp("master-data", item.releases) /\ UNCHANGED <<writing, answered>>
                \/ \E versions \in SUBSET Markets : AnswerMaster(item, versions)
  BY Zenon DEF EnrichMaster, AnswerMaster

(* Steps of master-data.                                                   *)
LEMMA MasterStepTyped ==
    ASSUME TypeOK, EnrichMaster \/ WriteMaster
    PROVE  TypeOK'
<1> DEFINE M == "master-data"
<1>0. M \in Stages /\ ItemsOf(M) = MasterItems /\ Releases \subseteq Nodes /\ MasterItems \subseteq Items
  BY DEF Stages, ItemsOf, Nodes, Items
<1>1. CASE EnrichMaster
  <2>0. UNCHANGED <<owned, parents, years, masters, releasedIn, crosswalk, mbEvents, memberOf,
                    notAGroup, wikidata, facts, running, linkable, torn, stale, starts, bounds>>
    BY <1>1 DEF EnrichMaster
  <2>1. PICK item \in todo[M] :
          /\ Settle(M, item)
          /\ \/ Stamp(M, item.releases) /\ UNCHANGED <<writing, answered>>
             \/ \E versions \in SUBSET Markets : AnswerMaster(item, versions)
    BY <1>1, EnrichMasterCases
  <2>2. item \in MasterItems /\ item.releases \in SUBSET Nodes
    <3>1. item \in MasterItems
      BY <1>0, <2>1, SettleTyped
    <3>. QED
      BY <1>0, <3>1 DEF MasterItems
  <2>3. /\ stamp' \in [Stages -> SUBSET Nodes]
        /\ answered' \in [Releases \cup Masters -> SUBSET AllPlaces]
        /\ writing' \in [Stages -> Seq(Queries)]
        /\ \A t \in Stages : \A i \in Sent(t)' : writing'[t][i].item \in ItemsOf(t) \cup {None}
    <3>1. CASE Stamp(M, item.releases) /\ UNCHANGED <<writing, answered>>
      BY <1>0, <2>2, <3>1, StampTyped, SameLists DEF TypeOK
    <3>2. CASE \E versions \in SUBSET Markets : AnswerMaster(item, versions)
      <4>1. PICK versions \in SUBSET Markets : AnswerMaster(item, versions)
        BY <3>2
      <4> DEFINE w == MergeMasterData(item, Places(versions))
      <4>2. w \in Seq(Queries) /\ \A i \in 1 .. Len(w) : w[i].item = item
        BY <1>0, <2>2, PlacesTyped, MasterList DEF Brackets
      <4>3. \A i \in 1 .. Len(w) : w[i].item \in ItemsOf(M) \cup {None}
        BY <1>0, <2>2, <4>2
      <4> HIDE DEF w
      <4>4. /\ writing' \in [Stages -> Seq(Queries)]
            /\ \A t \in Stages : \A i \in Sent(t)' : writing'[t][i].item \in ItemsOf(t) \cup {None}
        BY <1>0, <4>1, <4>2, <4>3, BeginTyped DEF w, AnswerMaster
      <4>5. answered' \in [Releases \cup Masters -> SUBSET AllPlaces]
        BY <4>1, PlacesTyped DEF TypeOK, AnswerMaster
      <4>. QED
        BY <4>1, <4>4, <4>5 DEF TypeOK, AnswerMaster
    <3>. QED
      BY <2>1, <3>1, <3>2
  <2>4. PipesTyped'
    BY <1>0, <2>0, <2>1, <2>3, SettleTyped DEF PipesTyped, TypeOK
  <2>5. GraphTyped' /\ HistoryTyped' /\ BoundsTyped'
    BY <2>0, <2>3 DEF GraphTyped, HistoryTyped, BoundsTyped, TypeOK, bounds
  <2>. QED
    BY <2>4, <2>5, TypePartsNext
<1>2. CASE WriteMaster
  <2>0. UNCHANGED <<owned, parents, crosswalk, mbEvents, memberOf, notAGroup, wikidata, facts,
                    running, todo, history, starts, bounds>>
    BY <1>2 DEF WriteMaster
  <2>1. PICK name \in {"master", "countries", "regions", "year"} : Query(M, name)
    BY <1>2 DEF WriteMaster
  <2>2. PipesTyped'
    BY <1>0, <2>0, <2>1, QueryPipesTyped DEF TypeOK
  <2>3. /\ First(M).item \in MasterItems
        /\ name \in {"countries", "regions"} => First(M).rows \subseteq AllPlaces
        /\ name = "year" => First(M).rows \subseteq Releases
    <3>1. First(M) \in Queries /\ First(M).item \in MasterItems \cup {None} /\ First(M).query = name
      BY <1>0, <2>1, QueryPops DEF TypeOK, First, Sent
    <3>. QED
      BY <3>1 DEF Queries
  <2>4. Item(M) = First(M).item /\ Rows(M) = First(M).rows
    BY <1>0, <2>1, QueryPops
  <2>5. GraphTyped'
    <3>1. \/ masters' = masters \cup {Item(M).master} /\ UNCHANGED <<releasedIn, years, stamp>>
          \/ /\ Query(M, "countries") \/ Query(M, "regions")
             /\ releasedIn' = [releasedIn EXCEPT ![Item(M).master] = @ \cup Rows(M)]
             /\ UNCHANGED <<masters, years, stamp>>
          \/ /\ Query(M, "year")
             /\ years' = years \cup Rows(M) /\ Stamp(M, Rows(M))
             /\ UNCHANGED <<masters, releasedIn>>
      BY <1>2, Zenon DEF WriteMaster
    <3>2. CASE masters' = masters \cup {Item(M).master} /\ UNCHANGED <<releasedIn, years, stamp>>
      BY <2>0, <2>3, <2>4, <3>2 DEF GraphTyped, TypeOK, MasterItems
    <3>3. CASE /\ Query(M, "countries") \/ Query(M, "regions")
               /\ releasedIn' = [releasedIn EXCEPT ![Item(M).master] = @ \cup Rows(M)]
               /\ UNCHANGED <<masters, years, stamp>>
      <4>1. Rows(M) \subseteq AllPlaces
        BY <2>1, <2>3, <2>4, <3>3 DEF Query
      <4>. QED
        BY <2>0, <3>3, <4>1 DEF GraphTyped, TypeOK
    <3>4. CASE /\ Query(M, "year")
               /\ years' = years \cup Rows(M) /\ Stamp(M, Rows(M))
               /\ UNCHANGED <<masters, releasedIn>>
      <4>1. Rows(M) \subseteq Releases
        BY <2>1, <2>3, <2>4, <3>4 DEF Query
      <4>2. stamp' \in [Stages -> SUBSET Nodes]
        BY <1>0, <3>4, <4>1, StampTyped
      <4>. QED
        BY <2>0, <3>4, <4>1, <4>2 DEF GraphTyped, TypeOK
    <3>. QED
      BY <3>1, <3>2, <3>3, <3>4
  <2>6. HistoryTyped' /\ BoundsTyped'
    BY <2>0, TypeParts, TypeSame DEF BoundsTyped, bounds
  <2>. QED
    BY <2>2, <2>5, <2>6, TypePartsNext
<1>. QED
  BY <1>1, <1>2

AnswerEvents(m, events) ==
    /\ Begin("mb-release-events", WriteEvents(m, Places(events)))
    /\ answered' = [answered EXCEPT ![m] = Places(events)]
    /\ UNCHANGED stamp

(* EnrichEvents either stamps, or begins a list.                           *)
LEMMA EnrichEventsCases ==
    ASSUME EnrichEvents
    PROVE  \E m \in todo["mb-release-events"] :
             /\ Settle("mb-release-events", m)
             /\ \/ Stamp("mb-release-events", {m}) /\ UNCHANGED <<writing, answered>>
                \/ \E events \in SUBSET Markets : AnswerEvents(m, events)
<1>1. PICK m \in todo["mb-release-events"], events \in EventAnswers :
        /\ Settle("mb-release-events", m)
        /\ IF events = None
           THEN Stamp("mb-release-events", {m}) /\ UNCHANGED <<writing, answered>>
           ELSE AnswerEvents(m, events)
  BY Zenon DEF EnrichEvents, AnswerEvents
<1>2. events = None \/ events \in SUBSET Markets
  BY DEF EventAnswers
<1>. QED
  BY <1>1, <1>2

(* The queries of WriteReleaseEvents, one by one.                          *)
LEMMA WriteEventsCases ==
    ASSUME WriteReleaseEvents
    PROVE  LET s == "mb-release-events" IN
           \/ /\ Query(s, "crosswalk")
              /\ crosswalk' = crosswalk \cup {Item(s)}
              /\ UNCHANGED <<mbEvents, stamp, torn>>
           \/ /\ Query(s, "countries") \/ Query(s, "regions")
              /\ mbEvents' = [mbEvents EXCEPT ![Item(s)] = @ \cup Rows(s)]
              /\ UNCHANGED <<crosswalk, stamp, torn>>
           \/ /\ Query(s, "stamp")
              /\ Stamp(s, {Item(s)})
              /\ torn' = [torn EXCEPT !.write = @ \ {Item(s)}]
              /\ UNCHANGED <<crosswalk, mbEvents>>
  BY Zenon DEF WriteReleaseEvents

(* Steps of mb-release-events.                                             *)
LEMMA EventStepTyped ==
    ASSUME TypeOK, EnrichEvents \/ WriteReleaseEvents
    PROVE  TypeOK'
<1> DEFINE E == "mb-release-events"
<1>0. E \in Stages /\ ItemsOf(E) = Masters /\ Masters \subseteq Nodes /\ Masters \subseteq Items
  BY DEF Stages, ItemsOf, Nodes, Items
<1>1. CASE EnrichEvents
  <2>0. UNCHANGED <<owned, parents, years, masters, releasedIn, crosswalk, mbEvents, memberOf,
                    notAGroup, wikidata, facts, running, linkable, torn, stale, starts, bounds>>
    BY <1>1 DEF EnrichEvents
  <2>1. PICK m \in todo[E] :
          /\ Settle(E, m)
          /\ \/ Stamp(E, {m}) /\ UNCHANGED <<writing, answered>>
             \/ \E events \in SUBSET Markets : AnswerEvents(m, events)
    BY <1>1, EnrichEventsCases
  <2>2. m \in Masters /\ {m} \in SUBSET Nodes
    <3>1. m \in Masters
      BY <1>0, <2>1, SettleTyped
    <3>. QED
      BY <1>0, <3>1
  <2>3. /\ stamp' \in [Stages -> SUBSET Nodes]
        /\ answered' \in [Releases \cup Masters -> SUBSET AllPlaces]
        /\ writing' \in [Stages -> Seq(Queries)]
        /\ \A t \in Stages : \A i \in Sent(t)' : writing'[t][i].item \in ItemsOf(t) \cup {None}
    <3>1. CASE Stamp(E, {m}) /\ UNCHANGED <<writing, answered>>
      BY <1>0, <2>2, <3>1, StampTyped, SameLists DEF TypeOK
    <3>2. CASE \E events \in SUBSET Markets : AnswerEvents(m, events)
      <4>1. PICK events \in SUBSET Markets : AnswerEvents(m, events)
        BY <3>2
      <4> DEFINE w == WriteEvents(m, Places(events))
      <4>2. w \in Seq(Queries) /\ \A i \in 1 .. Len(w) : w[i].item = m
        BY <1>0, <2>2, PlacesTyped, EventList DEF Brackets
      <4>3. \A i \in 1 .. Len(w) : w[i].item \in ItemsOf(E) \cup {None}
        BY <1>0, <2>2, <4>2
      <4> HIDE DEF w
      <4>4. /\ writing' \in [Stages -> Seq(Queries)]
            /\ \A t \in Stages : \A i \in Sent(t)' : writing'[t][i].item \in ItemsOf(t) \cup {None}
        BY <1>0, <4>1, <4>2, <4>3, BeginTyped DEF w, AnswerEvents
      <4>5. answered' \in [Releases \cup Masters -> SUBSET AllPlaces]
        BY <4>1, PlacesTyped DEF TypeOK, AnswerEvents
      <4>. QED
        BY <4>1, <4>4, <4>5 DEF TypeOK, AnswerEvents
    <3>. QED
      BY <2>1, <3>1, <3>2
  <2>4. PipesTyped'
    BY <1>0, <2>0, <2>1, <2>3, SettleTyped DEF PipesTyped, TypeOK
  <2>5. GraphTyped' /\ HistoryTyped' /\ BoundsTyped'
    BY <2>0, <2>3 DEF GraphTyped, HistoryTyped, BoundsTyped, TypeOK, bounds
  <2>. QED
    BY <2>4, <2>5, TypePartsNext
<1>2. CASE WriteReleaseEvents
  <2>0. UNCHANGED <<owned, parents, years, masters, releasedIn, memberOf, notAGroup, wikidata,
                    facts, running, todo, answered, linkable, stale, starts, bounds>>
    BY <1>2 DEF WriteReleaseEvents
  <2>1. PICK name \in {"crosswalk", "countries", "regions", "stamp"} : Query(E, name)
    BY <1>2 DEF WriteReleaseEvents
  <2>2. PipesTyped'
    BY <1>0, <2>0, <2>1, QueryPipesTyped DEF TypeOK
  <2>3. /\ First(E).item \in Masters
        /\ name \in {"countries", "regions"} => First(E).rows \subseteq AllPlaces
    <3>1. First(E) \in Queries /\ First(E).item \in Masters \cup {None} /\ First(E).query = name
      BY <1>0, <2>1, QueryPops DEF TypeOK, First, Sent
    <3>. QED
      BY <3>1 DEF Queries
  <2>4. Item(E) = First(E).item /\ Rows(E) = First(E).rows
    BY <1>0, <2>1, QueryPops
  <2>5. GraphTyped' /\ torn' \in [write : SUBSET Masters, reset : SUBSET Nodes]
    <3>2. CASE crosswalk' = crosswalk \cup {Item(E)} /\ UNCHANGED <<mbEvents, stamp, torn>>
      BY <2>0, <2>3, <2>4, <3>2 DEF GraphTyped, TypeOK
    <3>3. CASE /\ Query(E, "countries") \/ Query(E, "regions")
               /\ mbEvents' = [mbEvents EXCEPT ![Item(E)] = @ \cup Rows(E)]
               /\ UNCHANGED <<crosswalk, stamp, torn>>
      <4>1. Rows(E) \subseteq AllPlaces
        BY <2>1, <2>3, <2>4, <3>3 DEF Query
      <4>. QED
        BY <2>0, <3>3, <4>1 DEF GraphTyped, TypeOK
    <3>4. CASE /\ Stamp(E, {Item(E)})
               /\ torn' = [torn EXCEPT !.write = @ \ {Item(E)}]
               /\ UNCHANGED <<crosswalk, mbEvents>>
      <4>1. {Item(E)} \in SUBSET Nodes
        BY <1>0, <2>3, <2>4
      <4>2. stamp' \in [Stages -> SUBSET Nodes]
        BY <1>0, <3>4, <4>1, StampTyped
      <4>. QED
        BY <2>0, <3>4, <4>2 DEF GraphTyped, TypeOK
    <3>. QED
      BY <1>2, WriteEventsCases, <3>2, <3>3, <3>4
  <2>6. HistoryTyped' /\ BoundsTyped'
    BY <2>0, <2>5 DEF HistoryTyped, BoundsTyped, TypeOK, bounds
  <2>. QED
    BY <2>2, <2>5, <2>6, TypePartsNext
<1>. QED
  BY <1>1, <1>2

(* The resets by two queries.                                              *)
LEMMA ResetEventsCases ==
    ASSUME ResetReleaseEvents
    PROVE  LET s == "mb-release-events" IN
           \/ /\ Resets(s) /\ running' = running \cup {s}
              /\ Begin(s, Send(None, "unmark", {}) \o Send(None, "unlink", {}))
              /\ UNCHANGED <<stamp, crosswalk, mbEvents>>
           \/ /\ Query(s, "unmark")
              /\ crosswalk' = crosswalk \ stamp[s] /\ stamp' = [stamp EXCEPT ![s] = {}]
              /\ UNCHANGED <<mbEvents, running, starts>>
           \/ /\ Query(s, "unlink")
              /\ mbEvents' = [m \in Masters |-> {}] /\ running' = running \ {s}
              /\ UNCHANGED <<stamp, crosswalk, starts>>
  BY Zenon DEF ResetReleaseEvents

(* The same for group-members.                                             *)
LEMMA ResetGroupsCases ==
    ASSUME ResetGroupMembers
    PROVE  LET s == "group-members" IN
           \/ /\ Resets(s) /\ running' = running \cup {s}
              /\ Begin(s, Send(None, "unlink", {}) \o Send(None, "unmark", {}))
              /\ UNCHANGED <<stamp, memberOf, notAGroup>>
           \/ /\ Query(s, "unlink")
              /\ memberOf' = {} /\ UNCHANGED <<stamp, notAGroup, running, starts>>
           \/ /\ Query(s, "unmark")
              /\ stamp' = [stamp EXCEPT ![s] = {}] /\ notAGroup' = {}
              /\ running' = running \ {s} /\ UNCHANGED <<memberOf, starts>>
  BY Zenon DEF ResetGroupMembers

(* A reset begins.                                                         *)
LEMMA ResetBeginTyped ==
    ASSUME TypeOK, NEW s \in Stages, todo' = todo, running' \in SUBSET Stages,
           NEW first \in {"unmark", "unlink"}, NEW last \in {"unmark", "unlink"}, first # last,
           Begin(s, Send(None, first, {}) \o Send(None, last, {}))
    PROVE  PipesTyped'
<1> DEFINE w == Send(None, first, {}) \o Send(None, last, {})
<1>1. w \in Seq(Queries) /\ \A i \in 1 .. Len(w) : w[i].item \in ItemsOf(s) \cup {None}
  BY ResetList
<1> HIDE DEF w
<1>2. /\ writing' \in [Stages -> Seq(Queries)]
      /\ \A t \in Stages : \A i \in Sent(t)' : writing'[t][i].item \in ItemsOf(t) \cup {None}
  BY <1>1, BeginTyped DEF w
<1>. QED
  BY <1>2 DEF PipesTyped, TypeOK

(* The resets of mb-release-events and group-members.                      *)
LEMMA ResetTyped ==
    ASSUME TypeOK, ResetReleaseEvents \/ ResetGroupMembers
    PROVE  TypeOK'
<1>1. CASE ResetReleaseEvents
  <2> DEFINE s == "mb-release-events"
  <2>0. /\ UNCHANGED <<owned, parents, years, masters, releasedIn, memberOf, notAGroup, wikidata,
                       facts, todo, history, bounds>>
        /\ s \in Stages
    BY <1>1 DEF ResetReleaseEvents, Stages
  <2>1. running' \in SUBSET Stages /\ starts' \in Nat
    BY <1>1, <2>0, ResetEventsCases DEF TypeOK, Resets
  <2>2. PipesTyped'
    BY <1>1, <2>0, <2>1, ResetEventsCases, ResetBeginTyped, QueryPipesTyped
  <2>3. GraphTyped'
    BY <1>1, <2>0, ResetEventsCases DEF GraphTyped, TypeOK
  <2>4. HistoryTyped' /\ BoundsTyped'
    BY <2>0, <2>1, TypeParts, TypeSame DEF BoundsTyped, bounds
  <2>. QED
    BY <2>2, <2>3, <2>4, TypePartsNext
<1>2. CASE ResetGroupMembers
  <2> DEFINE s == "group-members"
  <2>0. /\ UNCHANGED <<owned, parents, years, masters, releasedIn, crosswalk, mbEvents, wikidata,
                       facts, todo, history, bounds>>
        /\ s \in Stages
    BY <1>2 DEF ResetGroupMembers, Stages
  <2>1. running' \in SUBSET Stages /\ starts' \in Nat
    BY <1>2, <2>0, ResetGroupsCases DEF TypeOK, Resets
  <2>2. PipesTyped'
    BY <1>2, <2>0, <2>1, ResetGroupsCases, ResetBeginTyped, QueryPipesTyped
  <2>3. GraphTyped'
    BY <1>2, <2>0, ResetGroupsCases DEF GraphTyped, TypeOK
  <2>4. HistoryTyped' /\ BoundsTyped'
    BY <2>0, <2>1, TypeParts, TypeSame DEF BoundsTyped, bounds
  <2>. QED
    BY <2>2, <2>3, <2>4, TypePartsNext
<1>. QED
  BY <1>1, <1>2

(* Steps of group-members.                                                 *)
LEMMA GroupStepTyped ==
    ASSUME TypeOK, EnrichGroup
    PROVE  TypeOK'
<1> DEFINE G == "group-members"
<1>0. /\ G \in Stages /\ ItemsOf(G) = Musicians /\ Musicians \subseteq Nodes
      /\ UNCHANGED <<owned, parents, years, masters, releasedIn, crosswalk, mbEvents, wikidata,
                     facts, running, writing, answered, stale, starts, bounds>>
  BY DEF Stages, ItemsOf, Nodes, EnrichGroup
<1>1. PICK g \in todo[G] : /\ Settle(G, g) /\ Stamp(G, {g})
                           /\ IF IsGroup(g) THEN SetGroupMembers(g) ELSE MarkNotAGroup(g)
  BY DEF EnrichGroup
<1>2. g \in Musicians /\ {g} \in SUBSET Nodes
  <2>1. g \in Musicians
    BY <1>0, <1>1, SettleTyped
  <2>. QED
    BY <1>0, <2>1
<1>3. stamp' \in [Stages -> SUBSET Nodes]
  BY <1>0, <1>1, <1>2, StampTyped
<1>4. Linkable(g) \subseteq Musicians
  BY <1>2, CatalogueAssumption DEF CatalogueAssumption, Linkable
<1>5. /\ memberOf' \in SUBSET (Musicians \X Musicians) /\ notAGroup' \in SUBSET Musicians
      /\ linkable' \in [Musicians -> SUBSET Musicians]
      /\ torn' \in [write : SUBSET Masters, reset : SUBSET Nodes]
  <2>1. CASE IsGroup(g)
    <3>1. /\ memberOf' = memberOf \cup (Linkable(g) \X {g}) /\ notAGroup' = notAGroup
          /\ linkable' = [linkable EXCEPT ![g] = Linkable(g)]
          /\ torn' = [torn EXCEPT !.reset = @ \ {g}]
      BY <1>1, <2>1 DEF SetGroupMembers
    <3>2. Linkable(g) \X {g} \subseteq Musicians \X Musicians
      BY <1>2, <1>4
    <3>3. memberOf' \in SUBSET (Musicians \X Musicians) /\ notAGroup' \in SUBSET Musicians
      BY <3>1, <3>2 DEF TypeOK
    <3>. QED
      BY <1>4, <3>1, <3>3 DEF TypeOK
  <2>2. CASE ~IsGroup(g)
    BY <1>1, <1>2, <2>2 DEF MarkNotAGroup, TypeOK
  <2>. QED
    BY <2>1, <2>2
<1>6. PipesTyped'
  BY <1>0, <1>1, SettleTyped, SameLists DEF PipesTyped, TypeOK
<1>7. GraphTyped' /\ HistoryTyped' /\ BoundsTyped'
  BY <1>0, <1>3, <1>5 DEF GraphTyped, HistoryTyped, BoundsTyped, TypeOK, bounds
<1>. QED
  BY <1>6, <1>7, TypePartsNext

(* What a reset leaves of an artist, and what Wikidata answers, are lists. *)
LEMMA NoDataTyped == NoData \in Lists
  BY DEF NoData, Lists

(* An answer has an item: an artist that has lists is found by its item.   *)
LEMMA DataTyped ==
    ASSUME NEW x \in Artists, NEW data \in Data(x)
    PROVE  data \in Lists /\ data.qid # None
  BY CatalogueAssumption DEF CatalogueAssumption, Data, Lists

(* What the projection draws are edges between artists.                    *)
LEMMA ProjectionTyped ==
    ASSUME NEW kind \in {"influence", "membership"}
    PROVE  Projection(kind) \subseteq Facts
  BY DEF Projection, Facts

(* Steps of artist-wikidata, and of the stages that draw its edges.        *)
LEMMA WikidataStepTyped ==
    ASSUME TypeOK,
           \/ EnrichWikidata \/ ResetWikidata
           \/ \E kind \in {"influence", "membership"} : LinkFacts(kind)
    PROVE  TypeOK'
<1> DEFINE W == "artist-wikidata"
<1>0. W \in Stages /\ ItemsOf(W) = Artists /\ Artists \subseteq Nodes
  BY DEF Stages, ItemsOf, Nodes
<1>1. CASE EnrichWikidata
  <2>0. UNCHANGED <<owned, parents, years, masters, releasedIn, crosswalk, mbEvents, memberOf,
                    notAGroup, facts, running, writing, history, starts, bounds>>
    BY <1>1 DEF EnrichWikidata
  <2>1. PICK x \in todo[W] : \E data \in Data(x) \cup {None} :
          Settle(W, x) /\ SetArtistWikidata(x, data)
    BY <1>1 DEF EnrichWikidata
  <2>2. PICK data \in Data(x) \cup {None} : Settle(W, x) /\ SetArtistWikidata(x, data)
    BY <2>1
  <2>3. x \in Artists
    BY <1>0, <2>2, SettleTyped
  <2>4. {x} \in SUBSET Nodes
    BY <1>0, <2>3
  <2>5. stamp' \in [Stages -> SUBSET Nodes]
    BY <1>0, <2>2, <2>4, StampTyped DEF SetArtistWikidata
  <2>6. wikidata' \in [Artists -> Lists]
    <3>1. CASE data = None
      BY <2>2, <3>1 DEF SetArtistWikidata, TypeOK
    <3>2. CASE data # None
      <4>1. data \in Lists
        BY <2>2, <2>3, <3>2, DataTyped
      <4>. QED
        BY <2>2, <3>2, <4>1 DEF SetArtistWikidata, TypeOK
    <3>. QED
      BY <3>1, <3>2
  <2>7. PipesTyped'
    BY <1>0, <2>0, <2>2, SettleTyped, SameLists DEF PipesTyped, TypeOK
  <2>8. GraphTyped'
    BY <2>0, <2>5, <2>6 DEF GraphTyped, TypeOK
  <2>9. HistoryTyped' /\ BoundsTyped'
    BY <2>0, TypeParts, TypeSame DEF BoundsTyped, bounds
  <2>. QED
    BY <2>7, <2>8, <2>9, TypePartsNext
<1>2. CASE ResetWikidata
  <2>1. /\ UNCHANGED <<owned, parents, years, masters, releasedIn, crosswalk, mbEvents, memberOf,
                       notAGroup, facts, pipelines, answered, linkable, torn, bounds>>
        /\ starts' \in Nat /\ stale' = facts
        /\ wikidata' \in [Artists -> Lists]
        /\ stamp' \in [Stages -> SUBSET Nodes]
    BY <1>0, <1>2, NoDataTyped DEF ResetWikidata, Resets, TypeOK
  <2>2. PipesTyped'
    BY <2>1, TypeParts, TypeSame
  <2>3. GraphTyped' /\ HistoryTyped' /\ BoundsTyped'
    BY <2>1 DEF GraphTyped, HistoryTyped, BoundsTyped, TypeOK, bounds
  <2>. QED
    BY <2>2, <2>3, TypePartsNext
<1>3. ASSUME NEW kind \in {"influence", "membership"}, LinkFacts(kind) PROVE TypeOK'
  <2>1. /\ UNCHANGED <<owned, stamp, parents, years, masters, releasedIn, crosswalk, mbEvents,
                       memberOf, notAGroup, wikidata, pipelines, answered, linkable, torn, bounds>>
        /\ starts' \in Nat /\ facts' \in SUBSET Facts /\ stale' \in SUBSET Facts
    BY <1>3, ProjectionTyped DEF LinkFacts, TypeOK
  <2>2. PipesTyped'
    BY <2>1, TypeParts, TypeSame
  <2>3. GraphTyped' /\ HistoryTyped' /\ BoundsTyped'
    BY <2>1 DEF GraphTyped, HistoryTyped, BoundsTyped, TypeOK, bounds
  <2>. QED
    BY <2>2, <2>3, TypePartsNext
<1>. QED
  BY <1>1, <1>2, <1>3

(* A release comes in.                                                     *)
LEMMA IngestTyped ==
    ASSUME TypeOK, Ingest
    PROVE  TypeOK'
<1>1. /\ UNCHANGED <<graph, pipelines, history, starts, bounds>>
      /\ owned' \in SUBSET Releases
  BY DEF Ingest, TypeOK
<1>2. PipesTyped' /\ GraphTyped' /\ HistoryTyped'
  BY <1>1, TypeParts, TypeSame
<1>3. BoundsTyped'
  BY <1>1, TypeParts DEF BoundsTyped, bounds
<1>. QED
  BY <1>2, <1>3, TypePartsNext

(* The first state, and every step.                                        *)
LEMMA TypeInit == Init => TypeOK
<1> SUFFICES ASSUME Init PROVE TypeOK
  OBVIOUS
<1>1. <<>> \in Seq(Queries) /\ \A s \in Stages : Sent(s) = {}
  BY EmptySeq DEF Init, Sent
<1>2. PipesTyped
  BY <1>1 DEF Init, PipesTyped
<1>3. GraphTyped
  BY NoDataTyped DEF Init, GraphTyped
<1>4. HistoryTyped /\ BoundsTyped
  BY CatalogueAssumption DEF CatalogueAssumption, Init, HistoryTyped, BoundsTyped
<1>. QED
  BY <1>2, <1>3, <1>4, TypeParts

(* Every step keeps the types.                                             *)
LEMMA TypeNext == TypeOK /\ [Next]_vars => TypeOK'
<1> SUFFICES ASSUME TypeOK, [Next]_vars PROVE TypeOK'
  OBVIOUS
<1>1. CASE UNCHANGED vars
  <2>1. UNCHANGED <<pipelines, graph, history>>
        /\ UNCHANGED <<owned, scope, starts, faults>>
    BY <1>1 DEF vars, bounds
  <2>2. PipesTyped' /\ GraphTyped' /\ HistoryTyped' /\ BoundsTyped'
    BY <2>1, TypeParts, TypeSame DEF BoundsTyped
  <2>. QED
    BY <2>2, TypePartsNext
<1>. QED
  BY <1>1, IngestTyped, DiesTyped, RunStepTyped, QueryFailsTyped, LabelStepTyped,
     MasterStepTyped, EventStepTyped, ResetTyped, GroupStepTyped, WikidataStepTyped DEF Next

(* The graph, the pipelines and the books keep their types, and no query   *)
(* that writes is without an item.                                         *)
THEOREM TypeCorrect == Spec => []TypeOK
  BY TypeInit, TypeNext, PTL DEF Spec

-----------------------------------------------------------------------------
(* What leaves a part of the invariant alone: nothing that it reads has    *)
(* changed, but for candidates that are gone.                              *)
SameList(s) == writing'[s] = writing[s] /\ todo'[s] \subseteq todo[s]

(* master-data: years, masters and places are as they were.                *)
LEMMA MasterSame ==
    ASSUME TypeOK, MasterInv, SameList("master-data"), UNCHANGED <<years, masters, releasedIn>>,
           \A r \in Releases : answered'[r] = answered[r]
    PROVE  MasterInv'
<1> DEFINE s == "master-data"
<1>1. writing'[s] = writing[s] /\ todo'[s] \subseteq todo[s]
  BY DEF SameList
<1>2. DatedIsComplete'
  BY DEF MasterInv, DatedIsComplete, TypeOK
<1>3. \A item : Undated(item)' = Undated(item)
  BY DEF Undated
<1>4. Coming(s)' = Coming(s) /\ First(s)' = First(s)
  BY <1>1 DEF Coming, First, Sent
<1>5. \A names, last : List(s, names, last)' = List(s, names, last)
  BY <1>1 DEF List, First, Sent
<1>6. \A item \in MasterItems : item.releases \subseteq Releases
  BY DEF MasterItems
<1>7. /\ \A item \in todo'[s] : Undated(item)'
      /\ \A i, j \in todo'[s] : i.master = j.master => i = j
  BY <1>1, <1>3 DEF MasterInv
<1>8. ASSUME writing'[s] # <<>>
      PROVE  /\ First(s) \in {First(s)}' /\ First(s).item \in MasterItems /\ Undated(First(s).item)'
             /\ \A i \in todo'[s] : i.master # First(s).item.master
             /\ List(s, {"master", "countries", "regions", "year"}, "year")'
             /\ writing'[s][Len(writing'[s])].rows = First(s).item.releases
             /\ First(s).item.master \in masters \/ First(s).query = "master"
             /\ \A r \in First(s).item.releases :
                   answered'[r] \subseteq releasedIn[First(s).item.master] \cup Coming(s)
  <2>1. MasterInv /\ writing[s] # <<>>
    BY <1>1, <1>8
  <2>. QED
    BY <1>1, <1>3, <1>4, <1>5, <1>6, <2>1 DEF MasterInv
<1>. QED
  BY <1>1, <1>2, <1>4, <1>7, <1>8 DEF MasterInv

(* mb-release-events: more may be booked as cut off, nothing else changes. *)
LEMMA EventSame ==
    ASSUME TypeOK, EventInv, SameList("mb-release-events"), UNCHANGED <<mbEvents, crosswalk>>,
           stamp'["mb-release-events"] = stamp["mb-release-events"],
           \A m \in Masters : answered'[m] = answered[m],
           \A m \in Masters : m \in torn.write => m \in torn'.write,
           \A m \in Masters : m \in torn.reset => m \in torn'.reset
    PROVE  EventInv'
<1> DEFINE s == "mb-release-events"
<1>1. writing'[s] = writing[s] /\ todo'[s] \subseteq todo[s]
  BY DEF SameList
<1>2. Coming(s)' = Coming(s) /\ First(s)' = First(s) /\ Resetting(s)' = Resetting(s)
  BY <1>1 DEF Coming, First, Sent, Resetting
<1>3. \A names, last : List(s, names, last)' = List(s, names, last)
  BY <1>1 DEF List, First, Sent
<1>4. \A m \in Masters : CompleteEvents(m) => CompleteEvents(m)'
  BY DEF CompleteEvents
<1>5. todo[s] \subseteq Masters
  BY DEF TypeOK, Stages, ItemsOf
<1>6. /\ \A m \in todo'[s] : mbEvents'[m] = {} \/ m \in torn'.write
      /\ Resetting(s)' => List(s, {"unmark", "unlink"}, "unlink")' /\ Len(writing'[s]) <= 2
      /\ \A m \in Masters :
          \/ CompleteEvents(m)'
          \/ writing'[s] # <<>> /\ First(s)'.item = m
          \/ Resetting(s)' /\ First(s)'.query = "unlink"
  BY <1>1, <1>2, <1>3, <1>4, <1>5 DEF EventInv
<1>7. ASSUME writing'[s] # <<>>, ~Resetting(s)'
      PROVE  LET m == First(s).item IN
             /\ m \in Masters \ todo'[s]
             /\ List(s, {"crosswalk", "countries", "regions", "stamp"}, "stamp")'
             /\ m \in crosswalk \/ First(s).query = "crosswalk"
             /\ mbEvents[m] # {} /\ m \notin torn'.reset => m \in crosswalk
             /\ answered'[m] \subseteq mbEvents[m] \cup Coming(s)
  BY <1>1, <1>2, <1>3, <1>7 DEF EventInv
<1>. QED
  BY <1>2, <1>6, <1>7 DEF EventInv

(* group-members: likewise.                                                *)
LEMMA GroupSame ==
    ASSUME TypeOK, GroupInv, UNCHANGED <<notAGroup, linkable, memberOf>>,
           writing'["group-members"] = writing["group-members"],
           stamp'["group-members"] = stamp["group-members"],
           \A g \in stamp["group-members"] : g \in torn.reset => g \in torn'.reset
    PROVE  GroupInv'
<1> DEFINE s == "group-members"
<1>1. First(s)' = First(s) /\ \A names, last : List(s, names, last)' = List(s, names, last)
  BY DEF List, First, Sent
<1>. QED
  BY <1>1 DEF GroupInv

(* label-hierarchy: neither edges nor stamps change.                       *)
LEMMA LabelSame ==
    ASSUME LabelInv, parents' = parents, stamp'["label-hierarchy"] = stamp["label-hierarchy"]
    PROVE  LabelInv'
  BY DEF LabelInv

(* artist-wikidata: neither the lists nor the edges change.                *)
LEMMA WikidataSame ==
    ASSUME WikidataInv, UNCHANGED <<wikidata, facts, stale>>,
           todo'["artist-wikidata"] \subseteq todo["artist-wikidata"]
    PROVE  WikidataInv'
  BY DEF WikidataInv, FactsAreBacked, Projection

(* A step of one pipeline leaves the lists of the others alone.            *)
QuietAt(s) ==
    /\ s \notin running => todo[s] = {} /\ writing[s] = <<>>
    /\ writing[s] # <<>> /\ First(s).item = None => todo[s] = {}
    /\ s \in {"label-hierarchy", "artist-wikidata"} => writing[s] = <<>>

(* Quiet, pipeline by pipeline,                                            *)
LEMMA QuietParts == Quiet <=> \A s \in Stages : QuietAt(s)
  BY DEF Quiet, QuietAt, Stages

(* and after a step.                                                       *)
LEMMA QuietPartsNext == (\A s \in Stages : QuietAt(s)') => Quiet'
  BY DEF Quiet, QuietAt, Stages

Elsewhere(s) ==
    \A t \in Stages \ {s} :
        /\ todo'[t] = todo[t] /\ writing'[t] = writing[t]
        /\ t \in running' <=> t \in running

(* A step of one pipeline keeps Quiet if it does so for this pipeline.     *)
LEMMA QuietElsewhere ==
    ASSUME Quiet, NEW s \in Stages, Elsewhere(s), QuietAt(s)'
    PROVE  Quiet'
<1>1. ASSUME NEW t \in Stages, t # s PROVE QuietAt(t)'
  <2>1. QuietAt(t) /\ First(t)' = First(t)
    BY <1>1, QuietParts DEF First, Elsewhere
  <2>. QED
    BY <1>1, <2>1 DEF QuietAt, Elsewhere
<1>. QED
  BY <1>1, QuietPartsNext

-----------------------------------------------------------------------------
(* The candidates of master-data: releases without a year, a master once.  *)
LEMMA MastersTakenOnce ==
    ASSUME TypeOK, NEW aged
    PROVE  LET items == GetUnenrichedMasters(aged) IN
           /\ \A item \in items : Undated(item)
           /\ \A i, j \in items : i.master = j.master => i = j
<1> DEFINE rs == Due("master-data", owned \ years, aged)
           Of(r) == [master |-> MasterOf[r], releases |-> {q \in rs : MasterOf[q] = MasterOf[r]}]
<1>1. GetUnenrichedMasters(aged) = {Of(r) : r \in rs}
  BY DEF GetUnenrichedMasters
<1>2. \A r \in rs : r \notin years
  BY DEF Due
<1> HIDE DEF rs
<1>3. ASSUME NEW r \in rs PROVE Undated(Of(r))
  BY <1>2 DEF Undated
<1>4. ASSUME NEW r \in rs, NEW q \in rs, Of(r).master = Of(q).master
      PROVE  Of(r) = Of(q)
  <2>1. MasterOf[r] = MasterOf[q]
    BY <1>4
  <2>. QED
    BY <2>1
<1> HIDE DEF Of
<1>. QED
  BY <1>1, <1>3, <1>4

(* The steps every pipeline takes keep the invariant.                      *)
RunStep(s) == StartRun(s) \/ ItemFails(s) \/ RunEnds(s)

(* The graph and the other pipelines are not touched;                      *)
LEMMA RunStepFrame ==
    ASSUME TypeOK, NEW s \in Stages, RunStep(s)
    PROVE  /\ UNCHANGED <<owned, graph, writing, history>>
           /\ Elsewhere(s)
           /\ ~StartRun(s) => todo'[s] \subseteq todo[s]
<1>1. UNCHANGED <<owned, graph, writing, history>>
  BY DEF RunStep, StartRun, ItemFails, RunEnds
<1>2. \A t \in Stages \ {s} : todo'[t] = todo[t] /\ (t \in running' <=> t \in running)
  BY DEF RunStep, StartRun, ItemFails, RunEnds, TypeOK
<1>3. ~StartRun(s) => todo'[s] \subseteq todo[s]
  BY DEF RunStep, ItemFails, RunEnds, TypeOK
<1>. QED
  BY <1>1, <1>2, <1>3 DEF Elsewhere

(* a run that ends leaves nothing to do;                                   *)
LEMMA RunStepQuiet ==
    ASSUME TypeOK, Quiet, NEW s \in Stages, RunStep(s)
    PROVE  Quiet'
<1>0. QuietAt(s) /\ writing' = writing /\ First(s)' = First(s)
  BY QuietParts, RunStepFrame DEF First
<1>1. CASE StartRun(s)
  <2>1. writing[s] = <<>> /\ s \in running'
    BY <1>0, <1>1 DEF StartRun, QuietAt
  <2>. QED
    BY <1>0, <2>1, RunStepFrame, QuietElsewhere DEF QuietAt
<1>2. CASE ItemFails(s)
  <2>1. /\ writing[s] = <<>> /\ running' = running
        /\ todo'[s] \subseteq todo[s]
    BY <1>2, RunStepFrame DEF ItemFails, StartRun, TypeOK
  <2>. QED
    BY <1>0, <2>1, RunStepFrame, QuietElsewhere DEF QuietAt
<1>3. CASE RunEnds(s)
  <2>1. writing[s] = <<>> /\ todo'[s] = {}
    BY <1>3 DEF RunEnds, TypeOK
  <2>. QED
    BY <1>0, <2>1, RunStepFrame, QuietElsewhere DEF QuietAt
<1>. QED
  BY <1>1, <1>2, <1>3 DEF RunStep

(* and what a run takes up is what the invariant says of candidates.       *)
LEMMA RunStepKeeps ==
    ASSUME TypeOK, Inv, NEW s \in Stages, RunStep(s)
    PROVE  Inv'
<1> DEFINE M == "master-data"
           E == "mb-release-events"
           W == "artist-wikidata"
<1>0. /\ UNCHANGED <<owned, stamp, parents, years, masters, releasedIn, crosswalk, mbEvents,
                     memberOf, notAGroup, wikidata, facts, writing, answered, linkable, torn, stale>>
      /\ Elsewhere(s) /\ (~StartRun(s) => todo'[s] \subseteq todo[s])
      /\ M \in Stages /\ E \in Stages /\ W \in Stages
  BY RunStepFrame DEF graph, history, Stages
<1>1. \A t \in Stages : t # s \/ ~StartRun(s) => SameList(t)
  BY <1>0 DEF SameList, Elsewhere
<1>2. StartRun(s) => writing[s] = <<>> /\ \E aged : todo'[s] = Candidates(s, aged)
  BY DEF StartRun, TypeOK, Inv, Quiet
<1>3. MasterInv'
  <2>1. CASE SameList(M)
    BY <1>0, <2>1, MasterSame DEF Inv
  <2>2. CASE s = M /\ StartRun(s)
    <3>1. writing'[M] = <<>> /\ \E aged : todo'[M] = GetUnenrichedMasters(aged)
      BY <1>0, <1>2, <2>2 DEF Candidates
    <3>2. \A item : Undated(item)' = Undated(item)
      BY <1>0 DEF Undated
    <3>3. /\ \A item \in todo'[M] : Undated(item)'
          /\ \A i, j \in todo'[M] : i.master = j.master => i = j
      BY <3>1, <3>2, MastersTakenOnce
    <3>4. DatedIsComplete'
      BY <1>0 DEF Inv, MasterInv, DatedIsComplete
    <3>. QED
      BY <3>1, <3>3, <3>4 DEF MasterInv
  <2>. QED
    BY <1>0, <1>1, <2>1, <2>2
<1>4. EventInv'
  <2>1. CASE SameList(E)
    BY <1>0, <2>1, EventSame DEF Inv
  <2>2. CASE s = E /\ StartRun(s)
    <3>1. writing'[E] = <<>> /\ writing[E] = <<>>
          /\ \E aged : todo'[E] = GetMastersForReleaseEvents(aged)
      BY <1>0, <1>2, <2>2 DEF Candidates
    <3>2. \A m \in todo'[E] : mbEvents'[m] = {}
      BY <1>0, <3>1 DEF GetMastersForReleaseEvents, Due
    <3>3. \A m \in Masters : CompleteEvents(m)'
      BY <1>0, <3>1 DEF Inv, EventInv, Resetting, CompleteEvents
    <3>. QED
      BY <3>1, <3>2, <3>3 DEF EventInv, Resetting
  <2>. QED
    BY <1>0, <1>1, <2>1, <2>2
<1>5. WikidataInv'
  <2>1. CASE SameList(W)
    BY <1>0, <2>1, WikidataSame DEF Inv, SameList
  <2>2. CASE s = W /\ StartRun(s)
    <3>1. \E aged : todo'[W] = GetUnenrichedArtistsForWikidata(aged)
      BY <1>0, <1>2, <2>2 DEF Candidates
    <3>2. \A x \in todo'[W] : wikidata'[x].qid = None
      BY <1>0, <3>1 DEF GetUnenrichedArtistsForWikidata, Due
    <3>3. FactsAreBacked'
      BY <1>0 DEF Inv, WikidataInv, FactsAreBacked, Projection
    <3>. QED
      BY <1>0, <3>2, <3>3 DEF Inv, WikidataInv
  <2>. QED
    BY <1>0, <1>1, <2>1, <2>2
<1>6. GroupInv' /\ LabelInv'
  BY <1>0, GroupSame, LabelSame DEF Inv
<1>7. Quiet'
  BY RunStepQuiet DEF Inv
<1>. QED
  BY <1>3, <1>4, <1>5, <1>6, <1>7 DEF Inv

(* A list that loses its first query is still about its item, and empty    *)
(* after the last; what it has yet to add it still has, but for the rows   *)
(* of that query.                                                          *)
LEMMA PoppedList ==
    ASSUME TypeOK, NEW s \in Stages, NEW name, Query(s, name),
           NEW names, NEW last, List(s, names, last)
    PROVE  /\ List(s, names, last)' /\ name \in names
           /\ writing'[s] = <<>> <=> name = last
           /\ writing'[s] # <<>> =>
                /\ First(s)'.item = First(s).item
                /\ writing'[s][Len(writing'[s])] = writing[s][Len(writing[s])]
           /\ name = last => First(s) = writing[s][Len(writing[s])]
<1>1. /\ Len(writing[s]) \in Nat \ {0} /\ 1 \in Sent(s) /\ First(s).query = name
      /\ Len(writing'[s]) = Len(writing[s]) - 1
      /\ \A i \in 1 .. Len(writing'[s]) : i + 1 \in Sent(s) /\ writing'[s][i] = writing[s][i + 1]
      /\ writing'[s] = <<>> <=> Len(writing[s]) = 1
  BY QueryPops
<1>2. /\ name \in names
      /\ name = last <=> 1 = Len(writing[s])
  BY <1>1 DEF List, First
<1>3. ASSUME NEW i \in 1 .. Len(writing'[s])
      PROVE  /\ writing'[s][i].item = First(s).item /\ writing'[s][i].query \in names
             /\ writing'[s][i].query = last <=> i = Len(writing'[s])
  BY <1>1 DEF List
<1>4. writing'[s] # <<>> => 1 \in 1 .. Len(writing'[s]) /\ Len(writing'[s]) \in 1 .. Len(writing'[s])
  BY <1>1
<1>5. writing'[s] # <<>> => First(s)'.item = First(s).item
  BY <1>3, <1>4 DEF First
<1>6. List(s, names, last)'
  BY <1>1, <1>3 DEF List, First, Sent
<1>7. writing'[s] # <<>> => writing'[s][Len(writing'[s])] = writing[s][Len(writing[s])]
  BY <1>1, <1>4
<1>. QED
  BY <1>1, <1>2, <1>5, <1>6, <1>7 DEF First

(* Only the rows of the query that ran no longer come.                     *)
LEMMA PoppedComing ==
    ASSUME TypeOK, NEW s \in Stages, NEW name, Query(s, name)
    PROVE  /\ Coming(s) \subseteq Coming(s)' \cup Rows(s)
           /\ name \notin {"countries", "regions"} => Coming(s) \subseteq Coming(s)'
<1>1. /\ Len(writing[s]) \in Nat \ {0}
      /\ First(s).query = name /\ Rows(s) = First(s).rows
      /\ Len(writing'[s]) = Len(writing[s]) - 1
      /\ \A i \in 1 .. Len(writing'[s]) : writing'[s][i] = writing[s][i + 1]
  BY QueryPops
<1>2. ASSUME NEW p \in Coming(s)
      PROVE  p \in Coming(s)' \/ (p \in Rows(s) /\ name \in {"countries", "regions"})
  <2>1. PICK i \in Sent(s) : writing[s][i].query \in {"countries", "regions"} /\ p \in writing[s][i].rows
    BY DEF Coming
  <2>2. CASE i = 1
    BY <1>1, <2>1, <2>2 DEF First
  <2>3. CASE i # 1
    <3>1. i - 1 \in 1 .. Len(writing'[s]) /\ writing'[s][i - 1] = writing[s][i]
      BY <1>1, <2>3 DEF Sent
    <3>. QED
      BY <2>1, <3>1 DEF Coming, Sent
  <2>. QED
    BY <2>2, <2>3
<1>. QED
  BY <1>2

-----------------------------------------------------------------------------
(* Every other step keeps the invariant.                                   *)

(* A query runs, and its pipeline goes on.                                 *)
LEMMA QuietPopped ==
    ASSUME TypeOK, Quiet, NEW s \in Stages, NEW name, Query(s, name),
           NEW names, NEW last, List(s, names, last), UNCHANGED <<todo, running>>
    PROVE  Quiet'
<1>1. QuietAt(s) /\ writing[s] # <<>> /\ \A t \in Stages \ {s} : writing'[t] = writing[t]
  BY QuietParts, QueryPops
<1>2. writing'[s] # <<>> => First(s)'.item = First(s).item
  BY PoppedList
<1>3. QuietAt(s)' /\ Elsewhere(s)
  BY <1>1, <1>2 DEF QuietAt, Elsewhere
<1>. QED
  BY <1>3, QuietElsewhere

(* An item is settled without a query, or the first of a list is begun.    *)
LEMMA QuietSettled ==
    ASSUME TypeOK, Quiet, NEW s \in Stages, NEW item, Settle(s, item), running' = running,
           \A t \in Stages \ {s} : writing'[t] = writing[t],
           \/ writing'[s] = writing[s]
           \/ First(s)'.item # None /\ s \notin {"label-hierarchy", "artist-wikidata"}
    PROVE  Quiet'
<1>1. /\ QuietAt(s) /\ writing[s] = <<>> /\ item \in todo[s]
      /\ \A t \in Stages \ {s} : todo'[t] = todo[t]
  BY QuietParts, SettleTyped
<1>2. QuietAt(s)' /\ Elsewhere(s)
  BY <1>1 DEF QuietAt, Elsewhere
<1>. QED
  BY <1>2, QuietElsewhere

(* What an ingestion brings in, the invariant does not speak of.           *)
LEMMA IngestKeeps ==
    ASSUME TypeOK, Inv, UNCHANGED <<graph, pipelines, history>>
    PROVE  Inv'
<1>1. UNCHANGED <<stamp, parents, years, masters, releasedIn, crosswalk, mbEvents, memberOf,
                  notAGroup, wikidata, facts, running, todo, writing, answered, linkable,
                  torn, stale>>
  BY DEF graph, pipelines, history
<1>2. MasterInv' /\ EventInv' /\ GroupInv' /\ LabelInv' /\ WikidataInv'
  BY <1>1, MasterSame, EventSame, GroupSame, LabelSame, WikidataSame DEF Inv, SameList
<1>3. Quiet'
  BY <1>1 DEF Inv, Quiet, First
<1>. QED
  BY <1>2, <1>3 DEF Inv

(* label-hierarchy: a label has the one parent its last lookup named.      *)
LEMMA LabelStepKeeps ==
    ASSUME TypeOK, Inv, EnrichLabel \/ ResetLabelHierarchy
    PROVE  Inv'
<1> DEFINE L == "label-hierarchy"
<1>0. L \in Stages
  BY DEF Stages
<1>1. /\ UNCHANGED <<owned, years, masters, releasedIn, crosswalk, mbEvents, memberOf, notAGroup,
                     wikidata, facts, running, writing, answered, linkable, torn, stale>>
      /\ \A t \in Stages \ {L} : stamp'[t] = stamp[t]
      /\ \A t \in Stages : SameList(t)
  <2>1. CASE EnrichLabel
    BY <1>0, <2>1, SettleTyped DEF EnrichLabel, Stamp, history, SameList, TypeOK
  <2>2. CASE ResetLabelHierarchy
    BY <1>0, <2>2 DEF ResetLabelHierarchy, pipelines, history, SameList, TypeOK
  <2>. QED
    BY <2>1, <2>2
<1>2. MasterInv' /\ EventInv' /\ GroupInv' /\ WikidataInv'
  BY <1>0, <1>1, MasterSame, EventSame, GroupSame, WikidataSame DEF Inv, SameList, Stages
<1>3. LabelInv' /\ Quiet'
  <2>1. CASE EnrichLabel
    <3>1. PICK l \in todo[L] : /\ Settle(L, l) /\ Stamp(L, {l})
                               /\ \/ \E p \in Labels \ {l} : SetLabelParent(l, p)
                                  \/ SetLabelHierarchyFetched(l)
      BY <2>1 DEF EnrichLabel
    <3>2. stamp'[L] = stamp[L] \cup {l}
      BY <1>0, <3>1 DEF Stamp, TypeOK
    <3>3. \/ \E p \in Labels : parents' = {e \in parents : e[1] # l} \cup {<<l, p>>}
          \/ parents' = {e \in parents : e[1] # l}
      BY <3>1 DEF SetLabelParent, SetLabelHierarchyFetched
    <3>4. LabelInv'
      BY <3>2, <3>3 DEF Inv, LabelInv
    <3>5. Quiet'
      BY <1>0, <1>1, <3>1, QuietSettled DEF Inv
    <3>. QED
      BY <3>4, <3>5
  <2>2. CASE ResetLabelHierarchy
    <3>1. parents' = {e \in parents : e[1] \notin stamp[L]}
      BY <2>2 DEF ResetLabelHierarchy
    <3>2. \A e \in parents : e[1] \in stamp[L]
      BY DEF Inv, LabelInv
    <3>3. LabelInv'
      BY <3>1, <3>2 DEF LabelInv
    <3>4. Quiet'
      BY <2>2 DEF Inv, Quiet, First, ResetLabelHierarchy, pipelines
    <3>. QED
      BY <3>3, <3>4
  <2>. QED
    BY <2>1, <2>2
<1>. QED
  BY <1>2, <1>3 DEF Inv

(* master-data: the year comes with the master and all its places.         *)
LEMMA EnrichMasterKeeps ==
    ASSUME TypeOK, Inv, EnrichMaster
    PROVE  Inv'
<1> DEFINE M == "master-data"
<1>0. /\ M \in Stages /\ ItemsOf(M) = MasterItems
      /\ UNCHANGED <<owned, parents, years, masters, releasedIn, crosswalk, mbEvents, memberOf,
                     notAGroup, wikidata, facts, running, linkable, torn, stale>>
  BY DEF Stages, ItemsOf, EnrichMaster
<1>1. PICK item \in todo[M] :
        /\ Settle(M, item)
        /\ \/ Stamp(M, item.releases) /\ UNCHANGED <<writing, answered>>
           \/ \E versions \in SUBSET Markets : AnswerMaster(item, versions)
  BY EnrichMasterCases
<1>2. /\ item \in MasterItems /\ writing[M] = <<>> /\ todo'[M] = todo[M] \ {item}
      /\ \A t \in Stages \ {M} : todo'[t] = todo[t]
      /\ item.releases \subseteq Releases /\ item \in todo[M] /\ item # None
  <2>1. item \in MasterItems /\ writing[M] = <<>> /\ todo'[M] = todo[M] \ {item} /\ item \in todo[M]
        /\ \A t \in Stages \ {M} : todo'[t] = todo[t]
    BY <1>0, <1>1, SettleTyped
  <2>. QED
    BY <2>1, CatalogueAssumption DEF CatalogueAssumption, MasterItems
<1>3. /\ \A t \in Stages \ {M} : writing'[t] = writing[t] /\ stamp'[t] = stamp[t]
      /\ \A k \in (Releases \cup Masters) \ item.releases : answered'[k] = answered[k]
  BY <1>0, <1>1 DEF TypeOK, Stamp, AnswerMaster, Begin
<1>4. \A m \in Masters : answered'[m] = answered[m]
  BY <1>2, <1>3, CatalogueAssumption DEF CatalogueAssumption
<1>5. EventInv' /\ GroupInv' /\ LabelInv' /\ WikidataInv'
  BY <1>0, <1>2, <1>3, <1>4, EventSame, GroupSame, LabelSame, WikidataSame DEF Inv, SameList, Stages
<1>6. CASE Stamp(M, item.releases) /\ UNCHANGED <<writing, answered>>
  <2>1. MasterInv'
    BY <1>0, <1>2, <1>6, MasterSame DEF Inv, SameList
  <2>2. Quiet'
    BY <1>0, <1>1, <1>6, QuietSettled DEF Inv
  <2>. QED
    BY <1>5, <2>1, <2>2 DEF Inv
<1>7. CASE \E versions \in SUBSET Markets : AnswerMaster(item, versions)
  <2>1. PICK versions \in SUBSET Markets : AnswerMaster(item, versions)
    BY <1>7
  <2> DEFINE w == MergeMasterData(item, Places(versions))
  <2>2. /\ Brackets(w, item, "master", "year", item.releases)
        /\ \A p \in Places(versions) : \E i \in 1 .. Len(w) :
              w[i].query \in {"countries", "regions"} /\ p \in w[i].rows
    BY <1>2, PlacesTyped, MasterList
  <2> HIDE DEF w
  <2>3. writing'[M] = w /\ \A r \in item.releases : answered'[r] = Places(versions)
    BY <1>0, <1>2, <2>1 DEF AnswerMaster, Begin, TypeOK, w
  <2>4. First(M)'.item = item /\ First(M)'.query = "master" /\ 1 \in Sent(M)' /\ writing'[M] # <<>>
    BY <2>2, <2>3 DEF First, Sent, Brackets
  <2>5. /\ List(M, {"master", "countries", "regions", "year"}, "year")'
        /\ writing'[M][Len(writing'[M])].rows = item.releases
    BY <2>2, <2>3, <2>4 DEF Brackets, List, Sent
  <2>6. Places(versions) \subseteq Coming(M)'
    BY <2>2, <2>3 DEF Coming, Sent
  <2>7. DatedIsComplete'
    <3>1. \A r \in years : r \in Releases /\ r \notin item.releases
      BY <1>2 DEF Inv, MasterInv, Undated, TypeOK
    <3>. QED
      BY <1>0, <1>3, <3>1 DEF Inv, MasterInv, DatedIsComplete
  <2>8. \A i : Undated(i)' = Undated(i)
    BY <1>0 DEF Undated
  <2>9. /\ \A i \in todo'[M] : Undated(i)' /\ i.master # item.master
        /\ \A i, j \in todo'[M] : i.master = j.master => i = j
        /\ Undated(item)'
    BY <1>2, <2>8 DEF Inv, MasterInv
  <2>10. MasterInv'
    BY <1>2, <2>3, <2>4, <2>5, <2>6, <2>7, <2>9 DEF MasterInv
  <2>11. Quiet'
    BY <1>0, <1>1, <1>2, <1>3, <2>4, QuietSettled DEF Inv
  <2>. QED
    BY <1>5, <2>10, <2>11 DEF Inv
<1>. QED
  BY <1>1, <1>6, <1>7

(* The year is the last query, when all places are there.                  *)
LEMMA WriteMasterKeeps ==
    ASSUME TypeOK, Inv, WriteMaster
    PROVE  Inv'
<1> DEFINE M == "master-data"
           names == {"master", "countries", "regions", "year"}
           item == First(M).item
<1>0. /\ M \in Stages
      /\ UNCHANGED <<owned, parents, crosswalk, mbEvents, memberOf, notAGroup, wikidata, facts,
                     running, todo, answered, linkable, torn, stale>>
  BY DEF Stages, WriteMaster, history
<1>1. PICK name \in names :
        /\ Query(M, name)
        /\ name = "master" => masters' = masters \cup {Item(M).master} /\ UNCHANGED <<releasedIn, years, stamp>>
        /\ name \in {"countries", "regions"} =>
             /\ releasedIn' = [releasedIn EXCEPT ![Item(M).master] = @ \cup Rows(M)]
             /\ UNCHANGED <<masters, years, stamp>>
        /\ name = "year" => /\ years' = years \cup Rows(M) /\ Stamp(M, Rows(M))
                            /\ UNCHANGED <<masters, releasedIn>>
  BY DEF WriteMaster
<1>2. /\ writing[M] # <<>> /\ First(M).query = name /\ Item(M) = item /\ Rows(M) = First(M).rows
      /\ \A t \in Stages \ {M} : writing'[t] = writing[t]
  BY <1>0, <1>1, QueryPops
<1>3. /\ item \in MasterItems /\ Undated(item)
      /\ \A i \in todo[M] : i.master # item.master
      /\ List(M, names, "year")
      /\ writing[M][Len(writing[M])].rows = item.releases
      /\ item.master \in masters \/ name = "master"
      /\ \A r \in item.releases : answered[r] \subseteq releasedIn[item.master] \cup Coming(M)
      /\ DatedIsComplete /\ \A i \in todo[M] : Undated(i)
      /\ \A i, j \in todo[M] : i.master = j.master => i = j
  BY <1>2 DEF Inv, MasterInv
<1>4. /\ List(M, names, "year")'
      /\ writing'[M] = <<>> <=> name = "year"
      /\ writing'[M] # <<>> =>
           First(M)'.item = item /\ writing'[M][Len(writing'[M])].rows = item.releases
      /\ name = "year" => Rows(M) = item.releases
      /\ Coming(M) \subseteq Coming(M)' \cup Rows(M)
      /\ name \notin {"countries", "regions"} => Coming(M) \subseteq Coming(M)'
  BY <1>0, <1>1, <1>2, <1>3, PoppedList, PoppedComing
<1>5. \A t \in Stages \ {M} : stamp'[t] = stamp[t]
  BY <1>0, <1>1 DEF Stamp, TypeOK
<1>6. EventInv' /\ GroupInv' /\ LabelInv' /\ WikidataInv'
  BY <1>0, <1>2, <1>5, EventSame, GroupSame, LabelSame, WikidataSame DEF Inv, SameList, Stages
<1>7. Quiet'
  BY <1>0, <1>1, <1>3, QuietPopped DEF Inv
<1>8. item.master \in Masters
  BY <1>3 DEF MasterItems
<1>9. CASE name = "master"
  <2>1. masters' = masters \cup {item.master} /\ UNCHANGED <<releasedIn, years>>
    BY <1>1, <1>2, <1>9
  <2>2. DatedIsComplete'
    BY <1>0, <1>3, <2>1 DEF DatedIsComplete
  <2>3. \A i : Undated(i)' = Undated(i)
    BY <2>1 DEF Undated
  <2>4. MasterInv'
    BY <1>0, <1>3, <1>4, <1>9, <2>1, <2>2, <2>3 DEF MasterInv
  <2>. QED
    BY <1>6, <1>7, <2>4 DEF Inv
<1>10. CASE name \in {"countries", "regions"}
  <2>1. /\ releasedIn' = [releasedIn EXCEPT ![item.master] = @ \cup Rows(M)]
        /\ UNCHANGED <<masters, years>>
    BY <1>1, <1>2, <1>10
  <2>2. /\ releasedIn'[item.master] = releasedIn[item.master] \cup Rows(M)
        /\ \A m \in Masters : releasedIn[m] \subseteq releasedIn'[m]
    BY <1>8, <2>1 DEF TypeOK
  <2>3. DatedIsComplete'
    BY <1>0, <1>3, <2>1, <2>2 DEF DatedIsComplete, TypeOK
  <2>4. \A i : Undated(i)' = Undated(i)
    BY <2>1 DEF Undated
  <2>5. item.master \in masters /\ \A r \in item.releases :
          answered[r] \subseteq releasedIn'[item.master] \cup Coming(M)'
    BY <1>3, <1>4, <1>10, <2>2
  <2>6. MasterInv'
    BY <1>0, <1>3, <1>4, <1>10, <2>1, <2>3, <2>4, <2>5 DEF MasterInv
  <2>. QED
    BY <1>6, <1>7, <2>6 DEF Inv
<1>11. CASE name = "year"
  <2>1. /\ years' = years \cup item.releases /\ UNCHANGED <<masters, releasedIn>>
        /\ writing'[M] = <<>>
    BY <1>1, <1>4, <1>11
  <2>2. Coming(M)' = {}
    BY <2>1, EmptySeq DEF Coming, Sent
  <2>3. /\ item.master \in masters
        /\ \A r \in item.releases :
              MasterOf[r] = item.master /\ answered[r] \subseteq releasedIn[item.master]
    BY <1>3, <1>4, <1>11, <2>2 DEF Undated
  <2>4. DatedIsComplete'
    BY <1>0, <1>3, <2>1, <2>3 DEF DatedIsComplete
  <2>5. \A i \in todo[M] : Undated(i)'
    BY <1>3, <2>1, <2>3 DEF Undated
  <2>6. MasterInv'
    BY <1>0, <1>3, <2>1, <2>4, <2>5 DEF MasterInv
  <2>. QED
    BY <1>6, <1>7, <2>6 DEF Inv
<1>. QED
  BY <1>1, <1>9, <1>10, <1>11

(* A reset is two queries: when one is left, it is the last.               *)
LEMMA SecondOfTwo ==
    ASSUME TypeOK, NEW s \in Stages, NEW name, Query(s, name), NEW names, NEW last,
           List(s, names, last), Len(writing[s]) <= 2, writing'[s] # <<>>
    PROVE  First(s)'.query = last
<1>1. /\ Len(writing[s]) \in Nat \ {0} /\ Len(writing'[s]) = Len(writing[s]) - 1
      /\ Len(writing[s]) # 1
  BY QueryPops
<1>2. Len(writing'[s]) = 1
  <2>1. \A n \in Nat \ {0} : n <= 2 /\ n # 1 => n - 1 = 1
    OBVIOUS
  <2>. QED
    BY <1>1, <2>1
<1>3. List(s, names, last)'
  BY PoppedList
<1>. QED
  BY <1>2, <1>3 DEF List, First, Sent

(* mb-release-events: the stamp comes with the release group and all the   *)
(* places, or says that there are none.                                    *)
LEMMA EnrichEventsKeeps ==
    ASSUME TypeOK, Inv, EnrichEvents
    PROVE  Inv'
<1> DEFINE E == "mb-release-events"
<1>0. /\ E \in Stages /\ ItemsOf(E) = Masters
      /\ UNCHANGED <<owned, parents, years, masters, releasedIn, crosswalk, mbEvents, memberOf,
                     notAGroup, wikidata, facts, running, linkable, torn, stale>>
  BY DEF Stages, ItemsOf, EnrichEvents
<1>1. PICK m \in todo[E] :
        /\ Settle(E, m)
        /\ \/ Stamp(E, {m}) /\ UNCHANGED <<writing, answered>>
           \/ \E events \in SUBSET Markets : AnswerEvents(m, events)
  BY EnrichEventsCases
<1>2. /\ m \in Masters /\ writing[E] = <<>> /\ todo'[E] = todo[E] \ {m}
      /\ \A t \in Stages \ {E} : todo'[t] = todo[t]
      /\ m # None
  <2>1. /\ m \in Masters /\ writing[E] = <<>> /\ todo'[E] = todo[E] \ {m}
        /\ \A t \in Stages \ {E} : todo'[t] = todo[t]
    BY <1>0, <1>1, SettleTyped
  <2>. QED
    BY <2>1, CatalogueAssumption DEF CatalogueAssumption
<1>3. /\ \A t \in Stages \ {E} : writing'[t] = writing[t] /\ stamp'[t] = stamp[t]
      /\ stamp[E] \subseteq stamp'[E]
      /\ \A k \in (Releases \cup Masters) \ {m} : answered'[k] = answered[k]
  BY <1>0, <1>1 DEF TypeOK, Stamp, AnswerEvents, Begin
<1>4. \A r \in Releases : answered'[r] = answered[r]
  BY <1>2, <1>3, CatalogueAssumption DEF CatalogueAssumption
<1>5. MasterInv' /\ GroupInv' /\ LabelInv' /\ WikidataInv'
  BY <1>0, <1>2, <1>3, <1>4, MasterSame, GroupSame, LabelSame, WikidataSame DEF Inv, SameList, Stages
<1>6. /\ \A n \in Masters : CompleteEvents(n)
      /\ \A n \in todo'[E] : mbEvents'[n] = {} \/ n \in torn'.write
  BY <1>0, <1>2 DEF Inv, EventInv, Resetting
<1>7. \A n \in Masters \ {m} : CompleteEvents(n)'
  BY <1>0, <1>3, <1>6 DEF CompleteEvents
<1>8. CASE Stamp(E, {m}) /\ UNCHANGED <<writing, answered>>
  <2>1. CompleteEvents(m)'
    BY <1>0, <1>2, <1>3, <1>6, <1>8 DEF CompleteEvents
  <2>2. EventInv'
    BY <1>2, <1>6, <1>7, <1>8, <2>1 DEF EventInv, Resetting
  <2>3. Quiet'
    BY <1>0, <1>1, <1>8, QuietSettled DEF Inv
  <2>. QED
    BY <1>5, <2>2, <2>3 DEF Inv
<1>9. CASE \E events \in SUBSET Markets : AnswerEvents(m, events)
  <2>1. PICK events \in SUBSET Markets : AnswerEvents(m, events)
    BY <1>9
  <2> DEFINE w == WriteEvents(m, Places(events))
  <2>2. /\ Brackets(w, m, "crosswalk", "stamp", {})
        /\ \A p \in Places(events) : \E i \in 1 .. Len(w) :
              w[i].query \in {"countries", "regions"} /\ p \in w[i].rows
    BY <1>2, PlacesTyped, EventList
  <2> HIDE DEF w
  <2>3. writing'[E] = w /\ answered'[m] = Places(events)
    BY <1>0, <1>2, <2>1 DEF AnswerEvents, Begin, TypeOK, w
  <2>4. First(E)'.item = m /\ First(E)'.query = "crosswalk" /\ 1 \in Sent(E)' /\ writing'[E] # <<>>
    BY <2>2, <2>3 DEF First, Sent, Brackets
  <2>5. List(E, {"crosswalk", "countries", "regions", "stamp"}, "stamp")'
    BY <2>2, <2>3, <2>4 DEF Brackets, List, Sent
  <2>6. answered'[m] \subseteq mbEvents'[m] \cup Coming(E)'
    BY <2>2, <2>3 DEF Coming, Sent
  <2>7. ~Resetting(E)'
    BY <1>2, <2>4 DEF Resetting
  <2>8. mbEvents'[m] # {} /\ m \notin torn'.reset => m \in crosswalk'
    BY <1>0, <1>2, <1>6 DEF CompleteEvents
  <2>9. EventInv'
    BY <1>2, <1>6, <1>7, <2>4, <2>5, <2>6, <2>7, <2>8 DEF EventInv
  <2>10. Quiet'
    BY <1>0, <1>1, <1>2, <1>3, <2>4, QuietSettled DEF Inv
  <2>. QED
    BY <1>5, <2>9, <2>10 DEF Inv
<1>. QED
  BY <1>1, <1>8, <1>9

(* The stamp is the last query, when all places are there.                 *)
LEMMA WriteEventsKeeps ==
    ASSUME TypeOK, Inv, WriteReleaseEvents
    PROVE  Inv'
<1> DEFINE E == "mb-release-events"
           names == {"crosswalk", "countries", "regions", "stamp"}
           m == First(E).item
<1>0. /\ E \in Stages
      /\ UNCHANGED <<owned, parents, years, masters, releasedIn, memberOf, notAGroup, wikidata,
                     facts, running, todo, answered, linkable, stale>>
  BY DEF Stages, WriteReleaseEvents
<1>1. PICK name \in names :
        /\ Query(E, name)
        /\ name = "crosswalk" =>
             crosswalk' = crosswalk \cup {Item(E)} /\ UNCHANGED <<mbEvents, stamp, torn>>
        /\ name \in {"countries", "regions"} =>
             /\ mbEvents' = [mbEvents EXCEPT ![Item(E)] = @ \cup Rows(E)]
             /\ UNCHANGED <<crosswalk, stamp, torn>>
        /\ name = "stamp" => /\ Stamp(E, {Item(E)})
                             /\ torn' = [torn EXCEPT !.write = @ \ {Item(E)}]
                             /\ UNCHANGED <<crosswalk, mbEvents>>
  BY WriteEventsCases
<1>2. /\ writing[E] # <<>> /\ First(E).query = name /\ Item(E) = m /\ Rows(E) = First(E).rows
      /\ \A t \in Stages \ {E} : writing'[t] = writing[t]
      /\ 1 \in Sent(E)
  BY <1>0, <1>1, QueryPops
<1>3. ~Resetting(E)
  BY <1>1, <1>2 DEF Inv, EventInv, List, First
<1>4. /\ m \in Masters \ todo[E] /\ m # None
      /\ List(E, names, "stamp")
      /\ m \in crosswalk \/ name = "crosswalk"
      /\ mbEvents[m] # {} /\ m \notin torn.reset => m \in crosswalk
      /\ answered[m] \subseteq mbEvents[m] \cup Coming(E)
      /\ \A n \in Masters \ {m} : CompleteEvents(n)
      /\ \A n \in todo[E] : mbEvents[n] = {} \/ n \in torn.write
  BY <1>2, <1>3, CatalogueAssumption DEF CatalogueAssumption, Inv, EventInv
<1>5. /\ List(E, names, "stamp")'
      /\ writing'[E] = <<>> <=> name = "stamp"
      /\ writing'[E] # <<>> => First(E)'.item = m
      /\ Coming(E) \subseteq Coming(E)' \cup Rows(E)
      /\ name \notin {"countries", "regions"} => Coming(E) \subseteq Coming(E)'
  BY <1>0, <1>1, <1>2, <1>4, PoppedList, PoppedComing
<1>6. /\ \A t \in Stages \ {E} : stamp'[t] = stamp[t]
      /\ stamp[E] \subseteq stamp'[E]
      /\ torn'.reset = torn.reset
      /\ \A n \in Masters \ {m} : mbEvents'[n] = mbEvents[n] /\ (n \in torn'.write <=> n \in torn.write)
      /\ crosswalk \subseteq crosswalk'
  BY <1>0, <1>1, <1>2 DEF Stamp, TypeOK
<1>7. MasterInv' /\ GroupInv' /\ LabelInv' /\ WikidataInv'
  BY <1>0, <1>2, <1>6, MasterSame, GroupSame, LabelSame, WikidataSame DEF Inv, SameList, Stages
<1>8. Quiet'
  BY <1>0, <1>1, <1>4, QuietPopped DEF Inv
<1>9. /\ \A n \in Masters \ {m} : CompleteEvents(n)'
      /\ \A n \in todo'[E] : mbEvents'[n] = {} \/ n \in torn'.write
      /\ ~Resetting(E)'
  <2>1. todo[E] \subseteq Masters
    BY <1>0 DEF TypeOK, ItemsOf
  <2>2. \A n \in Masters \ {m} : CompleteEvents(n)'
    BY <1>0, <1>4, <1>6 DEF CompleteEvents
  <2>3. \A n \in todo'[E] : mbEvents'[n] = {} \/ n \in torn'.write
    BY <1>0, <1>4, <1>6, <2>1
  <2>. QED
    BY <1>4, <1>5, <2>2, <2>3 DEF Resetting
<1>10. CASE name # "stamp"
  <2>1. /\ m \in crosswalk'
        /\ answered'[m] \subseteq mbEvents'[m] \cup Coming(E)'
    <3>1. CASE name = "crosswalk"
      BY <1>0, <1>1, <1>2, <1>4, <1>5, <3>1
    <3>2. CASE name \in {"countries", "regions"}
      <4>1. mbEvents'[m] = mbEvents[m] \cup Rows(E) /\ crosswalk' = crosswalk
        BY <1>1, <1>2, <1>4, <3>2 DEF TypeOK
      <4>. QED
        BY <1>0, <1>4, <1>5, <3>2, <4>1
    <3>. QED
      BY <1>1, <1>10, <3>1, <3>2
  <2>2. writing'[E] # <<>> /\ First(E)'.item = m
    BY <1>5, <1>10
  <2>3. EventInv'
    BY <1>0, <1>4, <1>5, <1>9, <2>1, <2>2 DEF EventInv
  <2>. QED
    BY <1>7, <1>8, <2>3 DEF Inv
<1>11. CASE name = "stamp"
  <2>1. /\ stamp'[E] = stamp[E] \cup {m} /\ UNCHANGED <<crosswalk, mbEvents>> /\ writing'[E] = <<>>
    BY <1>0, <1>1, <1>2, <1>5, <1>11 DEF Stamp, TypeOK
  <2>2. Coming(E)' = {}
    BY <2>1, EmptySeq DEF Coming, Sent
  <2>3. m \in crosswalk' /\ m \in stamp'[E] /\ answered'[m] \subseteq mbEvents'[m]
    <3>1. m \in crosswalk /\ answered[m] \subseteq mbEvents[m]
      BY <1>4, <1>5, <1>11, <2>2
    <3>. QED
      BY <1>0, <2>1, <3>1
  <2>4. \A n \in Masters : CompleteEvents(n)'
    BY <1>9, <2>3 DEF CompleteEvents
  <2>5. EventInv'
    BY <1>9, <2>1, <2>4 DEF EventInv
  <2>. QED
    BY <1>7, <1>8, <2>5 DEF Inv
<1>. QED
  BY <1>10, <1>11

(* A reset by two queries begins, where nothing is under way.              *)
LEMMA ResetBegins ==
    ASSUME TypeOK, Quiet, NEW s \in {"mb-release-events", "group-members"}, Resets(s),
           todo' = todo, running' = running \cup {s},
           NEW first \in {"unmark", "unlink"}, NEW last \in {"unmark", "unlink"}, first # last,
           Begin(s, Send(None, first, {}) \o Send(None, last, {})), NEW names, names = {first, last}
    PROVE  /\ Quiet' /\ writing[s] = <<>> /\ todo[s] = {}
           /\ writing'[s] # <<>> /\ First(s)'.item = None
           /\ List(s, names, last)' /\ Len(writing'[s]) <= 2
           /\ \A t \in Stages \ {s} : writing'[t] = writing[t]
<1> DEFINE w == Send(None, first, {}) \o Send(None, last, {})
<1>0. s \in Stages
  BY DEF Stages
<1>1. /\ w # <<>> /\ Len(w) = 2
      /\ \A i \in 1 .. Len(w) :
           /\ w[i].item = None /\ w[i].query \in {first, last}
           /\ w[i].query = last <=> i = Len(w)
  BY ResetList
<1> HIDE DEF w
<1>2. writing'[s] = w /\ \A t \in Stages \ {s} : writing'[t] = writing[t]
  BY <1>0 DEF Begin, TypeOK, w
<1>3. writing[s] = <<>> /\ todo[s] = {}
  BY <1>0, QuietParts DEF QuietAt, Resets
<1>4. First(s)'.item = None
  BY <1>1, <1>2 DEF First
<1>5. List(s, names, last)'
  BY <1>1, <1>2, <1>4 DEF List, Sent
<1>6. QuietAt(s)' /\ Elsewhere(s)
  BY <1>0, <1>2, <1>3 DEF QuietAt, Elsewhere
<1>7. Quiet'
  BY <1>0, <1>6, QuietElsewhere
<1>8. writing'[s] # <<>> /\ Len(writing'[s]) <= 2
  <2>1. Len(w) <= 2
    BY <1>1
  <2>. QED
    BY <1>1, <1>2, <2>1
<1>. QED
  BY <1>2, <1>3, <1>4, <1>5, <1>7, <1>8

(* The reset of mb-release-events: when the release groups are gone, only  *)
(* the query that deletes every edge is left.                              *)
LEMMA ResetEventsKeeps ==
    ASSUME TypeOK, Inv, ResetReleaseEvents
    PROVE  Inv'
<1> DEFINE E == "mb-release-events"
           names == {"unmark", "unlink"}
<1>0. /\ E \in Stages
      /\ UNCHANGED <<owned, parents, years, masters, releasedIn, memberOf, notAGroup, wikidata,
                     facts, todo, answered, linkable, torn, stale>>
  BY DEF Stages, ResetReleaseEvents, history
<1>1. \/ /\ Resets(E) /\ running' = running \cup {E}
         /\ Begin(E, Send(None, "unmark", {}) \o Send(None, "unlink", {}))
         /\ UNCHANGED <<stamp, crosswalk, mbEvents>>
      \/ /\ Query(E, "unmark")
         /\ crosswalk' = crosswalk \ stamp[E] /\ stamp' = [stamp EXCEPT ![E] = {}]
         /\ UNCHANGED <<mbEvents, running, starts>>
      \/ /\ Query(E, "unlink")
         /\ mbEvents' = [m \in Masters |-> {}] /\ running' = running \ {E}
         /\ UNCHANGED <<stamp, crosswalk, starts>>
  BY ResetEventsCases
<1>2. /\ \A t \in Stages \ {E} : stamp'[t] = stamp[t]
      /\ \A t \in Stages \ {E} : writing'[t] = writing[t]
  <2>1. \A t \in Stages \ {E} : stamp'[t] = stamp[t]
    BY <1>0, <1>1 DEF TypeOK
  <2>2. \A t \in Stages \ {E} : writing'[t] = writing[t]
    BY <1>0, <1>1 DEF TypeOK, Begin, Query
  <2>. QED
    BY <2>1, <2>2
<1>3. MasterInv' /\ GroupInv' /\ LabelInv' /\ WikidataInv'
  BY <1>0, <1>2, MasterSame, GroupSame, LabelSame, WikidataSame DEF Inv, SameList, Stages
<1>4. CASE /\ Resets(E) /\ running' = running \cup {E}
           /\ Begin(E, Send(None, "unmark", {}) \o Send(None, "unlink", {}))
           /\ UNCHANGED <<stamp, crosswalk, mbEvents>>
  <2>1. /\ Quiet' /\ writing[E] = <<>> /\ todo[E] = {}
        /\ writing'[E] # <<>> /\ First(E)'.item = None
        /\ List(E, names, "unlink")' /\ Len(writing'[E]) <= 2
    BY <1>0, <1>4, ResetBegins DEF Inv
  <2>2. Resetting(E)' /\ ~Resetting(E)
    BY <2>1 DEF Resetting
  <2>3. \A m \in Masters : CompleteEvents(m)
    BY <2>1, <2>2 DEF Inv, EventInv
  <2>4. \A m \in Masters : CompleteEvents(m)'
    BY <1>0, <1>4, <2>3 DEF CompleteEvents
  <2>5. EventInv'
    BY <1>0, <2>1, <2>2, <2>4 DEF EventInv
  <2>. QED
    BY <1>3, <2>1, <2>5 DEF Inv
<1>5. ASSUME NEW name \in names, Query(E, name)
      PROVE  /\ Resetting(E) /\ List(E, names, "unlink") /\ Len(writing[E]) <= 2
             /\ todo[E] = {} /\ First(E).query = name /\ First(E).item = None
             /\ List(E, names, "unlink")'
             /\ writing'[E] = <<>> <=> name = "unlink"
             /\ writing'[E] # <<>> => First(E)'.item = None /\ First(E)'.query = "unlink"
                                      /\ Len(writing'[E]) <= 2
  <2>1. /\ writing[E] # <<>> /\ First(E).query = name /\ 1 \in Sent(E)
        /\ Len(writing[E]) \in Nat /\ Len(writing'[E]) = Len(writing[E]) - 1
    BY <1>0, <1>5, QueryPops
  <2>2. Resetting(E)
    BY <2>1 DEF Inv, EventInv, List, First
  <2>3. List(E, names, "unlink") /\ Len(writing[E]) <= 2 /\ todo[E] = {} /\ First(E).item = None
    BY <1>0, <2>2 DEF Inv, EventInv, Quiet, Resetting
  <2>4. /\ List(E, names, "unlink")'
        /\ writing'[E] = <<>> <=> name = "unlink"
        /\ writing'[E] # <<>> => First(E)'.item = None
    BY <1>0, <1>5, <2>3, PoppedList
  <2>5. writing'[E] # <<>> => First(E)'.query = "unlink"
    BY <1>0, <1>5, <2>3, SecondOfTwo
  <2>6. Len(writing'[E]) <= 2
    <3>1. \A n \in Nat : n <= 2 => n - 1 <= 2
      OBVIOUS
    <3>. QED
      BY <2>1, <2>3, <3>1
  <2>. QED
    BY <2>1, <2>2, <2>3, <2>4, <2>5, <2>6
<1>6. CASE /\ Query(E, "unmark")
           /\ crosswalk' = crosswalk \ stamp[E] /\ stamp' = [stamp EXCEPT ![E] = {}]
           /\ UNCHANGED <<mbEvents, running, starts>>
  <2>1. /\ todo[E] = {} /\ List(E, names, "unlink") /\ List(E, names, "unlink")'
        /\ writing'[E] # <<>> /\ First(E)'.item = None /\ First(E)'.query = "unlink"
        /\ Len(writing'[E]) <= 2
    BY <1>5, <1>6
  <2>2. Quiet'
    BY <1>0, <1>6, <2>1, QuietPopped DEF Inv
  <2>3. EventInv'
    BY <1>0, <2>1 DEF EventInv, Resetting
  <2>. QED
    BY <1>3, <2>2, <2>3 DEF Inv
<1>7. CASE /\ Query(E, "unlink")
           /\ mbEvents' = [m \in Masters |-> {}] /\ running' = running \ {E}
           /\ UNCHANGED <<stamp, crosswalk, starts>>
  <2>1. todo'[E] = {} /\ writing'[E] = <<>>
    BY <1>0, <1>5, <1>7
  <2>2. Quiet'
    BY <1>0, <1>2, <1>7, <2>1, QuietElsewhere DEF Inv, QuietAt, Elsewhere
  <2>3. EventInv'
    BY <1>7, <2>1 DEF EventInv, Resetting, CompleteEvents
  <2>. QED
    BY <1>3, <2>2, <2>3 DEF Inv
<1>. QED
  BY <1>1, <1>4, <1>6, <1>7

(* group-members: the stamp of a group says that it is linked.             *)
LEMMA EnrichGroupKeeps ==
    ASSUME TypeOK, Inv, EnrichGroup
    PROVE  Inv'
<1> DEFINE G == "group-members"
<1>0. /\ G \in Stages /\ ItemsOf(G) = Musicians
      /\ UNCHANGED <<owned, parents, years, masters, releasedIn, crosswalk, mbEvents, wikidata,
                     facts, running, writing, answered, stale>>
  BY DEF Stages, ItemsOf, EnrichGroup
<1>1. PICK g \in todo[G] : /\ Settle(G, g) /\ Stamp(G, {g})
                           /\ IF IsGroup(g) THEN SetGroupMembers(g) ELSE MarkNotAGroup(g)
  BY DEF EnrichGroup
<1>2. /\ g \in Musicians /\ writing[G] = <<>> /\ \A t \in Stages : SameList(t)
      /\ stamp'[G] = stamp[G] \cup {g} /\ \A t \in Stages \ {G} : stamp'[t] = stamp[t]
  BY <1>0, <1>1, SettleTyped DEF SameList, Stamp, TypeOK
<1>3. /\ \A m \in Masters : m \in torn.write => m \in torn'.write
      /\ \A m \in Masters : m \in torn.reset => m \in torn'.reset
  <2>1. g \notin Masters
    BY <1>2, CatalogueAssumption DEF CatalogueAssumption
  <2>2. torn'.write = torn.write /\ torn.reset \ {g} \subseteq torn'.reset
    BY <1>1 DEF SetGroupMembers, MarkNotAGroup, TypeOK
  <2>. QED
    BY <2>1, <2>2
<1>4. MasterInv' /\ EventInv' /\ LabelInv' /\ WikidataInv'
  BY <1>0, <1>2, <1>3, MasterSame, EventSame, LabelSame, WikidataSame DEF Inv, SameList, Stages
<1>5. Quiet'
  BY <1>0, <1>1, QuietSettled DEF Inv
<1>6. /\ \A h \in notAGroup : Roster[h] = {}
      /\ stamp[G] \subseteq Musicians /\ \A h \in Musicians : linkable[h] \subseteq Roster[h]
      /\ \A h \in stamp[G] \ torn.reset : linkable[h] \X {h} \subseteq memberOf
  BY <1>2 DEF Inv, GroupInv
<1>7. stamp'[G] \subseteq Musicians /\ writing'[G] = <<>>
  BY <1>0, <1>2, <1>6
<1>8. CASE IsGroup(g)
  <2>1. /\ memberOf' = memberOf \cup (Linkable(g) \X {g}) /\ notAGroup' = notAGroup
        /\ linkable'[g] = Linkable(g) /\ \A h \in Musicians \ {g} : linkable'[h] = linkable[h]
        /\ torn'.reset = torn.reset \ {g}
    BY <1>1, <1>2, <1>8 DEF SetGroupMembers, TypeOK
  <2>2. Linkable(g) \subseteq Roster[g]
    BY DEF Linkable
  <2>3. \A h \in stamp'[G] \ torn'.reset : linkable'[h] \X {h} \subseteq memberOf'
    BY <1>2, <1>6, <2>1
  <2>4. GroupInv'
    BY <1>6, <1>7, <2>1, <2>2, <2>3 DEF GroupInv
  <2>. QED
    BY <1>4, <1>5, <2>4 DEF Inv
<1>9. CASE ~IsGroup(g)
  <2>1. /\ notAGroup' = notAGroup \cup {g} /\ UNCHANGED <<memberOf, linkable, torn>>
        /\ Roster[g] = {}
    BY <1>1, <1>9 DEF MarkNotAGroup, IsGroup
  <2>2. linkable[g] = {}
    BY <1>2, <1>6, <2>1
  <2>3. GroupInv'
    BY <1>2, <1>6, <1>7, <2>1, <2>2 DEF GroupInv
  <2>. QED
    BY <1>4, <1>5, <2>3 DEF Inv
<1>. QED
  BY <1>8, <1>9

(* The reset of group-members: when the edges are gone, only the query     *)
(* that clears the markers is left.                                        *)
LEMMA ResetGroupsKeeps ==
    ASSUME TypeOK, Inv, ResetGroupMembers
    PROVE  Inv'
<1> DEFINE G == "group-members"
           names == {"unlink", "unmark"}
<1>0. /\ G \in Stages
      /\ UNCHANGED <<owned, parents, years, masters, releasedIn, crosswalk, mbEvents, wikidata,
                     facts, todo, answered, linkable, torn, stale>>
  BY DEF Stages, ResetGroupMembers, history
<1>1. \/ /\ Resets(G) /\ running' = running \cup {G}
         /\ Begin(G, Send(None, "unlink", {}) \o Send(None, "unmark", {}))
         /\ UNCHANGED <<stamp, memberOf, notAGroup>>
      \/ /\ Query(G, "unlink")
         /\ memberOf' = {} /\ UNCHANGED <<stamp, notAGroup, running, starts>>
      \/ /\ Query(G, "unmark")
         /\ stamp' = [stamp EXCEPT ![G] = {}] /\ notAGroup' = {}
         /\ running' = running \ {G} /\ UNCHANGED <<memberOf, starts>>
  BY ResetGroupsCases
<1>2. /\ \A t \in Stages \ {G} : stamp'[t] = stamp[t]
      /\ \A t \in Stages \ {G} : writing'[t] = writing[t]
  <2>1. \A t \in Stages \ {G} : stamp'[t] = stamp[t]
    BY <1>0, <1>1 DEF TypeOK
  <2>2. \A t \in Stages \ {G} : writing'[t] = writing[t]
    BY <1>0, <1>1 DEF TypeOK, Begin, Query
  <2>. QED
    BY <2>1, <2>2
<1>3. MasterInv' /\ EventInv' /\ LabelInv' /\ WikidataInv'
  BY <1>0, <1>2, MasterSame, EventSame, LabelSame, WikidataSame DEF Inv, SameList, Stages
<1>4. /\ \A h \in notAGroup : Roster[h] = {}
      /\ stamp[G] \subseteq Musicians /\ \A h \in Musicians : linkable[h] \subseteq Roster[h]
  BY DEF Inv, GroupInv
<1>5. CASE /\ Resets(G) /\ running' = running \cup {G}
           /\ Begin(G, Send(None, "unlink", {}) \o Send(None, "unmark", {}))
           /\ UNCHANGED <<stamp, memberOf, notAGroup>>
  <2>1. /\ Quiet' /\ writing[G] = <<>>
        /\ writing'[G] # <<>> /\ First(G)'.item = None
        /\ List(G, names, "unmark")' /\ Len(writing'[G]) <= 2
    BY <1>0, <1>5, ResetBegins DEF Inv
  <2>2. \A h \in stamp[G] \ torn.reset : linkable[h] \X {h} \subseteq memberOf
    BY <2>1 DEF Inv, GroupInv
  <2>3. GroupInv'
    BY <1>0, <1>4, <1>5, <2>1, <2>2 DEF GroupInv
  <2>. QED
    BY <1>3, <2>1, <2>3 DEF Inv
<1>6. ASSUME NEW name \in names, Query(G, name)
      PROVE  /\ List(G, names, "unmark") /\ todo[G] = {}
             /\ List(G, names, "unmark")'
             /\ writing'[G] = <<>> <=> name = "unmark"
             /\ writing'[G] # <<>> => First(G)'.item = None /\ First(G)'.query = "unmark"
             /\ Len(writing'[G]) <= 2
  <2>1. /\ writing[G] # <<>>
        /\ Len(writing[G]) \in Nat /\ Len(writing'[G]) = Len(writing[G]) - 1
    BY <1>0, <1>6, QueryPops
  <2>2. List(G, names, "unmark") /\ Len(writing[G]) <= 2 /\ todo[G] = {} /\ First(G).item = None
    BY <1>0, <2>1 DEF Inv, GroupInv, Quiet
  <2>3. /\ List(G, names, "unmark")'
        /\ writing'[G] = <<>> <=> name = "unmark"
        /\ writing'[G] # <<>> => First(G)'.item = None
    BY <1>0, <1>6, <2>2, PoppedList
  <2>4. writing'[G] # <<>> => First(G)'.query = "unmark"
    BY <1>0, <1>6, <2>2, SecondOfTwo
  <2>5. Len(writing'[G]) <= 2
    <3>1. \A n \in Nat : n <= 2 => n - 1 <= 2
      OBVIOUS
    <3>. QED
      BY <2>1, <2>2, <3>1
  <2>. QED
    BY <2>2, <2>3, <2>4, <2>5
<1>7. CASE /\ Query(G, "unlink")
           /\ memberOf' = {} /\ UNCHANGED <<stamp, notAGroup, running, starts>>
  <2>1. /\ List(G, names, "unmark") /\ List(G, names, "unmark")' /\ Len(writing'[G]) <= 2
        /\ writing'[G] # <<>> /\ First(G)'.item = None /\ First(G)'.query = "unmark"
    BY <1>6, <1>7
  <2>2. Quiet'
    BY <1>0, <1>7, <2>1, QuietPopped DEF Inv
  <2>3. GroupInv'
    BY <1>0, <1>4, <1>7, <2>1 DEF GroupInv
  <2>. QED
    BY <1>3, <2>2, <2>3 DEF Inv
<1>8. CASE /\ Query(G, "unmark")
           /\ stamp' = [stamp EXCEPT ![G] = {}] /\ notAGroup' = {}
           /\ running' = running \ {G} /\ UNCHANGED <<memberOf, starts>>
  <2>1. todo'[G] = {} /\ writing'[G] = <<>> /\ stamp'[G] = {}
    BY <1>0, <1>6, <1>8 DEF TypeOK
  <2>2. Quiet'
    BY <1>0, <1>2, <1>8, <2>1, QuietElsewhere DEF Inv, QuietAt, Elsewhere
  <2>3. GroupInv'
    BY <1>0, <1>4, <1>8, <2>1 DEF GroupInv
  <2>. QED
    BY <1>3, <2>2, <2>3 DEF Inv
<1>. QED
  BY <1>1, <1>5, <1>7, <1>8

(* artist-wikidata: what is looked up has no edge drawn from it, so a new  *)
(* answer takes the ground from none; a reset books every edge as stale.   *)
LEMMA WikidataStepKeeps ==
    ASSUME TypeOK, Inv,
           \/ EnrichWikidata \/ ResetWikidata
           \/ \E kind \in {"influence", "membership"} : LinkFacts(kind)
    PROVE  Inv'
<1> DEFINE W == "artist-wikidata"
<1>0. W \in Stages /\ ItemsOf(W) = Artists
  BY DEF Stages, ItemsOf
<1>1. /\ UNCHANGED <<owned, parents, years, masters, releasedIn, crosswalk, mbEvents, memberOf,
                     notAGroup, running, writing, answered, linkable, torn>>
      /\ \A t \in Stages : SameList(t)
      /\ \A t \in Stages \ {W} : stamp'[t] = stamp[t]
  <2>1. CASE EnrichWikidata
    <3>1. PICK x \in todo[W] : Settle(W, x) /\ \E data : SetArtistWikidata(x, data)
      BY <2>1 DEF EnrichWikidata
    <3>2. Stamp(W, {x}) /\ \A t \in Stages : todo'[t] \subseteq todo[t]
      BY <1>0, <3>1, SettleTyped DEF SetArtistWikidata
    <3>3. \A t \in Stages \ {W} : stamp'[t] = stamp[t]
      BY <1>0, <3>2 DEF Stamp, TypeOK
    <3>. QED
      BY <2>1, <3>2, <3>3 DEF EnrichWikidata, SameList, history
  <2>2. CASE ResetWikidata
    BY <1>0, <2>2 DEF ResetWikidata, pipelines, SameList, TypeOK
  <2>3. CASE \E kind \in {"influence", "membership"} : LinkFacts(kind)
    BY <2>3 DEF LinkFacts, pipelines, SameList
  <2>. QED
    BY <2>1, <2>2, <2>3
<1>2. MasterInv' /\ EventInv' /\ GroupInv' /\ LabelInv'
  BY <1>0, <1>1, MasterSame, EventSame, GroupSame, LabelSame DEF Inv, SameList, Stages
<1>3. CASE EnrichWikidata
  <2>0. PICK x \in todo[W] : \E data \in Data(x) \cup {None} :
          Settle(W, x) /\ SetArtistWikidata(x, data)
    BY <1>3 DEF EnrichWikidata
  <2>1. PICK data \in Data(x) \cup {None} : Settle(W, x) /\ SetArtistWikidata(x, data)
    BY <2>0
  <2>2. /\ x \in Artists /\ todo'[W] = todo[W] \ {x} /\ UNCHANGED <<facts, stale>>
        /\ wikidata[x] = NoData
    <3>1. x \in Artists /\ todo'[W] = todo[W] \ {x} /\ x \in todo[W]
      BY <1>0, <2>1, SettleTyped
    <3>. QED
      BY <1>3, <3>1 DEF EnrichWikidata, history, Inv, WikidataInv
  <2>3. /\ \A y \in Artists \ {x} : wikidata'[y] = wikidata[y]
        /\ wikidata'[x] = NoData \/ wikidata'[x].qid # None
    BY <2>1, <2>2, DataTyped DEF SetArtistWikidata, TypeOK
  <2>4. ASSUME NEW f \in facts \ stale
        PROVE  f \in Projection(f.kind)'
    <3>1. /\ f \in [kind : {f.kind}, from : Artists, to : Artists]
          /\ f.from # f.to /\ wikidata[f.to].qid # None
          /\ wikidata[f.to].qid \in (IF f.kind = "influence" THEN wikidata[f.from].influencedBy
                                                             ELSE wikidata[f.from].memberOf)
      BY DEF Inv, WikidataInv, FactsAreBacked, Projection
    <3>2. f.from \in Artists /\ f.to \in Artists
      BY <3>1
    <3>3. f.from # x /\ f.to # x
      BY <2>2, <3>1 DEF NoData
    <3>4. wikidata'[f.from] = wikidata[f.from] /\ wikidata'[f.to] = wikidata[f.to]
      BY <2>3, <3>2, <3>3
    <3>. QED
      BY <3>1, <3>4 DEF Projection
  <2>5. FactsAreBacked'
    BY <2>2, <2>4 DEF FactsAreBacked
  <2>6. /\ \A y \in Artists : wikidata'[y].qid = None => wikidata'[y] = NoData
        /\ \A y \in todo'[W] : wikidata'[y].qid = None
    <3>1. todo[W] \subseteq Artists
      BY <1>0 DEF TypeOK
    <3>. QED
      BY <2>2, <2>3, <3>1 DEF Inv, WikidataInv
  <2>7. WikidataInv'
    BY <2>5, <2>6 DEF WikidataInv
  <2>8. Quiet'
    BY <1>0, <1>1, <2>1, QuietSettled DEF Inv
  <2>. QED
    BY <1>2, <2>7, <2>8 DEF Inv
<1>4. CASE ResetWikidata
  <2>1. /\ stale' = facts /\ UNCHANGED <<facts, pipelines>> /\ W \notin running
        /\ \A x \in Artists : wikidata'[x] = NoData \/ wikidata'[x] = wikidata[x]
    BY <1>4 DEF ResetWikidata, Resets
  <2>2. todo'[W] = {} /\ UNCHANGED <<running, todo, writing>>
    BY <1>0, <2>1 DEF Inv, Quiet, pipelines
  <2>3. Quiet'
    BY <2>2 DEF Inv, Quiet, First
  <2>4. WikidataInv'
    BY <2>1, <2>2 DEF Inv, WikidataInv, FactsAreBacked
  <2>. QED
    BY <1>2, <2>3, <2>4 DEF Inv
<1>5. ASSUME NEW kind \in {"influence", "membership"}, LinkFacts(kind)
      PROVE  Inv'
  <2>1. /\ facts' = facts \cup Projection(kind) /\ stale' = stale \ Projection(kind)
        /\ UNCHANGED <<wikidata, running, todo, writing>>
    BY <1>5 DEF LinkFacts, pipelines
  <2>2. \A k : Projection(k)' = Projection(k)
    BY <2>1 DEF Projection
  <2>3. \A f \in Projection(kind) : f.kind = kind
    BY DEF Projection
  <2>4. WikidataInv'
    BY <2>1, <2>2, <2>3 DEF Inv, WikidataInv, FactsAreBacked
  <2>5. Quiet'
    BY <2>1 DEF Inv, Quiet, First
  <2>. QED
    BY <1>2, <2>4, <2>5 DEF Inv
<1>. QED
  BY <1>3, <1>4, <1>5

-----------------------------------------------------------------------------
(* What is cut off is booked: a write by its item, a reset by the nodes it *)
(* leaves between its two queries.                                         *)
LEMMA UnderWayAt ==
    ASSUME TypeOK, NEW s \in Stages, NEW query
    PROVE  UnderWay(s, query) <=> \E i \in Sent(s) : writing[s][i].query = query
<1>1. writing[s] \in Seq(Queries)
  BY DEF TypeOK
<1>2. DOMAIN writing[s] = Sent(s)
  BY <1>1 DEF Sent
<1>. QED
  BY <1>2 DEF UnderWay

(* A list that is not empty has a first and a last query.                  *)
LEMMA SentEnds ==
    ASSUME TypeOK, NEW s \in Stages, writing[s] # <<>>
    PROVE  /\ 1 \in Sent(s) /\ Len(writing[s]) \in Sent(s) /\ Len(writing[s]) \in Nat
           /\ Item(s) = First(s).item
<1>1. writing[s] \in Seq(Queries) /\ Len(writing[s]) \in Nat /\ Len(writing[s]) # 0
      /\ Head(writing[s]) = writing[s][1]
  BY EmptySeq DEF TypeOK
<1>. QED
  BY <1>1 DEF Sent, First, Item

(* What is booked as cut off stays so, and these come in addition.         *)
LEMMA TornGrows ==
    ASSUME TypeOK, NEW stages, Tear(stages)
    PROVE  /\ torn.write \subseteq torn'.write /\ torn.reset \subseteq torn'.reset
           /\ "mb-release-events" \in stages /\ UnderWay("mb-release-events", "stamp") =>
                {m \in Masters : m = Item("mb-release-events") /\ mbEvents[m] # {}} \subseteq torn'.write
           /\ "mb-release-events" \in stages /\ UnderWay("mb-release-events", "unlink")
                /\ ~UnderWay("mb-release-events", "unmark") =>
                {m \in Masters : mbEvents[m] # {}} \subseteq torn'.reset
           /\ "group-members" \in stages /\ UnderWay("group-members", "unmark")
                /\ ~UnderWay("group-members", "unlink") => stamp["group-members"] \subseteq torn'.reset
  BY DEF Tear

(* A write or a reset of release events that is cut off is booked.         *)
LEMMA TornEvents ==
    ASSUME TypeOK, EventInv, NEW stages, Tear(stages), "mb-release-events" \in stages,
           UNCHANGED <<mbEvents, crosswalk, stamp, answered>>
    PROVE  /\ \A m \in Masters : CompleteEvents(m)'
           /\ writing["mb-release-events"] # <<>> /\ ~Resetting("mb-release-events") =>
                \/ mbEvents[First("mb-release-events").item] = {}
                \/ First("mb-release-events").item \in torn'.write
<1> DEFINE E == "mb-release-events"
<1>0. /\ E \in Stages /\ torn.write \subseteq torn'.write /\ torn.reset \subseteq torn'.reset
      /\ None \notin Masters
  BY TornGrows, CatalogueAssumption DEF CatalogueAssumption, Stages
<1>1. \A m \in Masters : CompleteEvents(m) => CompleteEvents(m)'
  BY <1>0 DEF CompleteEvents
<1>2. CASE writing[E] = <<>>
  BY <1>1, <1>2 DEF EventInv, Resetting
<1>3. CASE Resetting(E) /\ First(E).query # "unlink"
  BY <1>0, <1>1, <1>3 DEF EventInv, Resetting
<1>4. CASE Resetting(E) /\ First(E).query = "unlink"
  <2>1. 1 \in Sent(E) /\ List(E, {"unmark", "unlink"}, "unlink") /\ Len(writing[E]) \in Nat
    BY <1>0, <1>4, SentEnds DEF EventInv, Resetting
  <2>2. 1 = Len(writing[E])
    BY <1>4, <2>1 DEF List, First
  <2>3. \A i \in Sent(E) : writing[E][i].query = "unlink"
    BY <2>1, <2>2 DEF List, Sent
  <2>4. UnderWay(E, "unlink") /\ ~UnderWay(E, "unmark")
    BY <1>0, <2>1, <2>3, UnderWayAt
  <2>5. {m \in Masters : mbEvents[m] # {}} \subseteq torn'.reset
    BY <2>4, TornGrows
  <2>6. \A m \in Masters : CompleteEvents(m)'
    <3>1. ASSUME NEW m \in Masters, mbEvents'[m] # {} PROVE m \in torn'.reset
      BY <2>5, <3>1
    <3>. QED
      BY <3>1 DEF CompleteEvents
  <2>. QED
    BY <1>4, <2>6
<1>5. CASE writing[E] # <<>> /\ ~Resetting(E)
  <2>0. PICK m : m = First(E).item
    OBVIOUS
  <2>1. /\ m \in Masters /\ Item(E) = m
        /\ List(E, {"crosswalk", "countries", "regions", "stamp"}, "stamp")
        /\ mbEvents[m] # {} /\ m \notin torn.reset => m \in crosswalk
        /\ \A n \in Masters \ {m} : CompleteEvents(n)
    BY <1>0, <1>5, <2>0, SentEnds DEF EventInv
  <2>2. UnderWay(E, "stamp")
    <3>1. Len(writing[E]) \in Sent(E)
      BY <1>0, <1>5, SentEnds
    <3>. QED
      BY <1>0, <2>1, <3>1, UnderWayAt DEF List
  <2>3. mbEvents[m] # {} => m \in torn'.write
    <3>1. {n \in Masters : n = Item(E) /\ mbEvents[n] # {}} \subseteq torn'.write
      BY <2>2, TornGrows
    <3>. QED
      BY <2>1, <3>1
  <2>4. CompleteEvents(m)'
    <3>1. mbEvents'[m] # {} /\ m \notin torn'.reset => m \in crosswalk' /\ m \in torn'.write
      BY <1>0, <2>1, <2>3
    <3>. QED
      BY <3>1 DEF CompleteEvents
  <2>5. \A n \in Masters : CompleteEvents(n)'
    BY <1>1, <2>1, <2>4
  <2>. QED
    BY <2>0, <2>3, <2>5
<1>. QED
  BY <1>2, <1>3, <1>4, <1>5 DEF Resetting

(* A reset of groups that is cut off is booked.                            *)
LEMMA TornGroups ==
    ASSUME TypeOK, GroupInv, NEW stages, Tear(stages), "group-members" \in stages
    PROVE  \A g \in stamp["group-members"] \ torn'.reset : linkable[g] \X {g} \subseteq memberOf
<1> DEFINE G == "group-members"
<1>0. G \in Stages /\ torn.reset \subseteq torn'.reset
  BY TornGrows DEF Stages
<1>1. CASE writing[G] # <<>> /\ First(G).query = "unmark"
  <2>1. 1 \in Sent(G) /\ List(G, {"unlink", "unmark"}, "unmark") /\ Len(writing[G]) \in Nat
    BY <1>0, <1>1, SentEnds DEF GroupInv
  <2>2. 1 = Len(writing[G])
    BY <1>1, <2>1 DEF List, First
  <2>3. \A i \in Sent(G) : writing[G][i].query = "unmark"
    BY <2>1, <2>2 DEF List, Sent
  <2>4. UnderWay(G, "unmark") /\ ~UnderWay(G, "unlink")
    BY <1>0, <2>1, <2>3, UnderWayAt
  <2>. QED
    BY <2>4, TornGrows
<1>2. CASE ~(writing[G] # <<>> /\ First(G).query = "unmark")
  BY <1>0, <1>2 DEF GroupInv
<1>. QED
  BY <1>1, <1>2

(* A query fails, of a reset or of an item that may be taken up again.     *)
LEMMA QueryFailsKeeps ==
    ASSUME TypeOK, Inv, NEW s \in Stages, QueryFails(s)
    PROVE  Inv'
<1> DEFINE M == "master-data"
           E == "mb-release-events"
           G == "group-members"
<1>0. /\ UNCHANGED <<owned, stamp, parents, years, masters, releasedIn, crosswalk, mbEvents,
                     memberOf, notAGroup, wikidata, facts, answered, linkable, stale>>
      /\ writing[s] # <<>> /\ Tear({s})
      /\ M \in Stages /\ E \in Stages /\ G \in Stages
  BY DEF QueryFails, graph, Stages
<1>1. /\ writing'[s] = <<>>
      /\ \A t \in Stages \ {s} : writing'[t] = writing[t] /\ todo'[t] = todo[t]
      /\ \A t \in Stages \ {s} : t \in running' <=> t \in running
      /\ First(s).item = None => todo'[s] = {}
      /\ First(s).item # None => s \in running' /\ todo'[s] \subseteq todo[s] \cup {First(s).item}
  <2>1. Item(s) = First(s).item /\ QuietAt(s) /\ s \in running
    BY <1>0, SentEnds, QuietParts DEF Inv, QuietAt
  <2>2. writing'[s] = <<>> /\ \A t \in Stages \ {s} : writing'[t] = writing[t]
    BY DEF QueryFails, Begin, TypeOK
  <2>3. CASE First(s).item = None
    BY <1>0, <2>1, <2>2, <2>3 DEF QueryFails, QuietAt
  <2>4. CASE First(s).item # None
    <3>1. running' = running /\ \E again \in SUBSET {First(s).item} : todo' = [todo EXCEPT ![s] = @ \cup again]
      BY <2>1, <2>4 DEF QueryFails
    <3>. QED
      BY <2>1, <2>2, <2>4, <3>1 DEF TypeOK
  <2>. QED
    BY <2>3, <2>4
<1>2. Quiet'
  BY <1>1, QuietElsewhere DEF Inv, QuietAt, Elsewhere
<1>3. torn.write \subseteq torn'.write /\ torn.reset \subseteq torn'.reset
  BY <1>0, TornGrows
<1>4. s \in {M, E, G}
  BY <1>0 DEF Inv, Quiet, Stages
<1>5. LabelInv' /\ WikidataInv'
  BY <1>0, <1>1, <1>4, LabelSame, WikidataSame DEF Inv, Stages
<1>6. MasterInv'
  <2>1. CASE s # M
    BY <1>0, <1>1, <2>1, MasterSame DEF Inv, SameList
  <2>2. CASE s = M
    <3>1. PICK item : item = First(M).item
      OBVIOUS
    <3>2. /\ Undated(item) /\ \A i \in todo[M] : i.master # item.master
          /\ \A i \in todo[M] : Undated(i)
          /\ \A i, j \in todo[M] : i.master = j.master => i = j
          /\ DatedIsComplete
      BY <1>0, <2>2, <3>1 DEF Inv, MasterInv
    <3>3. \A i : Undated(i)' = Undated(i)
      BY <1>0 DEF Undated
    <3>4. todo'[M] \subseteq todo[M] \cup {item} /\ writing'[M] = <<>>
      BY <1>1, <2>2, <3>1
    <3>5. /\ \A i \in todo'[M] : Undated(i)'
          /\ \A i, j \in todo'[M] : i.master = j.master => i = j
      BY <3>2, <3>3, <3>4
    <3>6. DatedIsComplete'
      BY <1>0, <3>2 DEF DatedIsComplete
    <3>. QED
      BY <3>4, <3>5, <3>6 DEF MasterInv
  <2>. QED
    BY <2>1, <2>2
<1>7. EventInv'
  <2>1. CASE s # E
    BY <1>0, <1>1, <1>3, <2>1, EventSame DEF Inv, SameList
  <2>2. CASE s = E
    <3>1. PICK m : m = First(E).item
      OBVIOUS
    <3>2. /\ \A n \in Masters : CompleteEvents(n)'
          /\ ~Resetting(E) => mbEvents[m] = {} \/ m \in torn'.write
      BY <1>0, <2>2, <3>1, TornEvents DEF Inv
    <3>3. /\ writing'[E] = <<>> /\ ~Resetting(E)'
          /\ Resetting(E) => todo'[E] = {}
          /\ ~Resetting(E) => todo'[E] \subseteq todo[E] \cup {m}
      BY <1>0, <1>1, <2>2, <3>1 DEF Resetting
    <3>4. \A n \in todo[E] : mbEvents[n] = {} \/ n \in torn.write
      BY DEF Inv, EventInv
    <3>5. \A n \in todo'[E] : mbEvents'[n] = {} \/ n \in torn'.write
      BY <1>0, <1>3, <3>2, <3>3, <3>4
    <3>. QED
      BY <3>2, <3>3, <3>5 DEF EventInv
  <2>. QED
    BY <2>1, <2>2
<1>8. GroupInv'
  <2>1. CASE s # G
    BY <1>0, <1>1, <1>3, <2>1, GroupSame DEF Inv
  <2>2. CASE s = G
    <3>1. \A g \in stamp[G] \ torn'.reset : linkable[g] \X {g} \subseteq memberOf
      BY <1>0, <2>2, TornGroups DEF Inv
    <3>. QED
      BY <1>0, <1>1, <2>2, <3>1 DEF Inv, GroupInv
  <2>. QED
    BY <2>1, <2>2
<1>. QED
  BY <1>2, <1>5, <1>6, <1>7, <1>8 DEF Inv

(* The service dies.                                                       *)
LEMMA DiesKeeps ==
    ASSUME TypeOK, Inv, Dies
    PROVE  Inv'
<1> DEFINE M == "master-data"
           E == "mb-release-events"
           G == "group-members"
<1>0. /\ UNCHANGED <<owned, stamp, parents, years, masters, releasedIn, crosswalk, mbEvents,
                     memberOf, notAGroup, wikidata, facts, answered, linkable, stale>>
      /\ Tear(Stages) /\ running' = {}
      /\ \A s \in Stages : todo'[s] = {} /\ writing'[s] = <<>>
      /\ M \in Stages /\ E \in Stages /\ G \in Stages
      /\ "label-hierarchy" \in Stages /\ "artist-wikidata" \in Stages
  BY DEF Dies, graph, Stages
<1>1. Quiet'
  BY <1>0 DEF Quiet
<1>2. LabelInv' /\ WikidataInv'
  BY <1>0, LabelSame, WikidataSame DEF Inv
<1>3. MasterInv'
  BY <1>0 DEF Inv, MasterInv, DatedIsComplete
<1>4. EventInv'
  <2>1. \A n \in Masters : CompleteEvents(n)'
    BY <1>0, TornEvents DEF Inv
  <2>. QED
    BY <1>0, <2>1 DEF EventInv, Resetting
<1>5. GroupInv'
  <2>1. \A g \in stamp[G] \ torn'.reset : linkable[g] \X {g} \subseteq memberOf
    BY <1>0, TornGroups DEF Inv
  <2>. QED
    BY <1>0, <2>1 DEF Inv, GroupInv
<1>. QED
  BY <1>1, <1>2, <1>3, <1>4, <1>5 DEF Inv

-----------------------------------------------------------------------------
(* The invariant is inductive, and says what the properties say.           *)
LEMMA InvInit == Init => Inv
<1> SUFFICES ASSUME Init PROVE Inv
  OBVIOUS
<1>1. /\ \A s \in Stages : todo[s] = {} /\ writing[s] = <<>> /\ stamp[s] = {}
      /\ "label-hierarchy" \in Stages /\ "master-data" \in Stages /\ "mb-release-events" \in Stages
      /\ "group-members" \in Stages /\ "artist-wikidata" \in Stages
  BY DEF Init, Stages
<1>2. Quiet
  BY <1>1 DEF Quiet
<1>3. MasterInv /\ EventInv
  BY <1>1 DEF Init, MasterInv, DatedIsComplete, EventInv, CompleteEvents, Resetting
<1>4. GroupInv /\ LabelInv
  BY <1>1 DEF Init, GroupInv, LabelInv
<1>5. WikidataInv
  BY <1>1 DEF Init, WikidataInv, FactsAreBacked
<1>. QED
  BY <1>2, <1>3, <1>4, <1>5 DEF Inv

(* Every step keeps the invariant.                                         *)
LEMMA InvNext == TypeOK /\ Inv /\ [Next]_vars => Inv'
<1> SUFFICES ASSUME TypeOK, Inv, [Next]_vars PROVE Inv'
  OBVIOUS
<1>1. CASE UNCHANGED vars
  BY <1>1, IngestKeeps DEF vars
<1>2. CASE Ingest
  BY <1>2, IngestKeeps DEF Ingest
<1>3. CASE Dies
  BY <1>3, DiesKeeps
<1>4. ASSUME NEW s \in Stages, RunStep(s) \/ QueryFails(s) PROVE Inv'
  BY <1>4, RunStepKeeps, QueryFailsKeeps
<1>5. CASE EnrichLabel \/ ResetLabelHierarchy
  BY <1>5, LabelStepKeeps
<1>6. CASE EnrichMaster \/ WriteMaster
  BY <1>6, EnrichMasterKeeps, WriteMasterKeeps
<1>7. CASE EnrichEvents \/ WriteReleaseEvents \/ ResetReleaseEvents
  BY <1>7, EnrichEventsKeeps, WriteEventsKeeps, ResetEventsKeeps
<1>8. CASE EnrichGroup \/ ResetGroupMembers
  BY <1>8, EnrichGroupKeeps, ResetGroupsKeeps
<1>9. CASE \/ EnrichWikidata \/ ResetWikidata
           \/ \E kind \in {"influence", "membership"} : LinkFacts(kind)
  BY <1>9, WikidataStepKeeps
<1>. QED
  BY <1>1, <1>2, <1>3, <1>4, <1>5, <1>6, <1>7, <1>8, <1>9 DEF Next, RunStep

(* The invariant holds in every state.                                     *)
LEMMA Inductive == Spec => [](TypeOK /\ Inv)
<1>1. Init => TypeOK /\ Inv
  BY TypeInit, InvInit
<1>2. TypeOK /\ Inv /\ [Next]_vars => (TypeOK /\ Inv)'
  BY TypeNext, InvNext
<1>. QED
  BY <1>1, <1>2, PTL DEF Spec

(* A release that carries its original year, and so is never taken up      *)
(* again, has its master in the graph, with all the places that came with  *)
(* the year; whatever failed or died before.                               *)
THEOREM DatedAreComplete == Spec => []DatedIsComplete
<1>1. Inv => DatedIsComplete
  BY DEF Inv, MasterInv
<1>. QED
  BY <1>1, Inductive, PTL

(* A master with release events, which is never taken up again either, has *)
(* its release group, its stamp and every place of the answer, but for     *)
(* what a query that failed between the first and the last cost it.        *)
THEOREM EventsComplete == Spec => []EventsAreComplete
<1>1. TypeOK /\ Inv => EventsAreComplete
  <2> SUFFICES ASSUME Inv PROVE EventsAreComplete
    OBVIOUS
  <2>1. ASSUME writing["mb-release-events"] = <<>>
        PROVE  \A m \in Masters : CompleteEvents(m)
    BY <2>1 DEF Inv, EventInv, Resetting
  <2>. QED
    BY <2>1 DEF EventsAreComplete, CompleteEvents
<1>. QED
  BY <1>1, Inductive, PTL

(* The markers tell what the edges are: a label has one parent at most and *)
(* is stamped if it has one; the terminal marker is on no Musician that    *)
(* could be linked; a stamped group is linked to the members of its last   *)
(* check, unless a reset was cut off there.                                *)
THEOREM MarkersAreRight == Spec => []MarkersMatchEdges
<1>1. Inv => MarkersMatchEdges
  <2> SUFFICES ASSUME Inv PROVE MarkersMatchEdges
    OBVIOUS
  <2>1. \A g \in notAGroup : Linkable(g) = {}
    BY DEF Inv, GroupInv, Linkable
  <2>2. writing["group-members"] = <<>> =>
          \A g \in stamp["group-members"] \ torn.reset : linkable[g] \X {g} \subseteq memberOf
    BY DEF Inv, GroupInv
  <2>. QED
    BY <2>1, <2>2 DEF Inv, LabelInv, MarkersMatchEdges
<1>. QED
  BY <1>1, Inductive, PTL

(* Every edge drawn from the Wikidata lists is one that the lists still    *)
(* tell, unless the stage was reset since.                                 *)
THEOREM FactsBacked == Spec => []FactsAreBacked
<1>1. Inv => FactsAreBacked
  BY DEF Inv, WikidataInv
<1>. QED
  BY <1>1, Inductive, PTL

=============================================================================
