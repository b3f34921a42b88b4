----------------------------- MODULE ReloadGraph -----------------------------
(***************************************************************************)
(* The scheduler on the stages of the orchestrated reload: RELOAD_STAGES   *)
(* as the array, the edges and the lanes that scheduleStages is given      *)
(* (ingestion/orchestrator.ts, runReload).                                 *)
(***************************************************************************)
EXTENDS StageScheduler, ReloadStages

ReloadOrder == [i \in DOMAIN RELOAD_STAGES |-> RELOAD_STAGES[i].name]
ReloadNames == Range(ReloadOrder)

(* The scheduler's byName. *)
ReloadDescriptor ==
    [n \in ReloadNames |-> CHOOSE s \in Range(RELOAD_STAGES) : s.name = n]

ReloadDeps == [n \in ReloadNames |-> ReloadDescriptor[n].deps]
ReloadResources == [n \in ReloadNames |-> ReloadDescriptor[n].resources]

-----------------------------------------------------------------------------
(* While verify judges the graph nothing else runs: every other stage is   *)
(* upstream of it.                                                         *)
VerifyAlone == "verify" \in inflight => inflight = {"verify"}

(* The stages between t and the releases. *)
Through(t) == {u \in Deps[t] : "releases" \in Deps[u]}

(* While the releases are being ingested nothing else runs, but in a job   *)
(* resumed after its releases failed: there a stage that waits for them    *)
(* through others runs beside them, once those were all done in an earlier *)
(* life.  Nothing that waits for the releases directly ever does.          *)
ReleasesFirst ==
    "releases" \in inflight =>
        \E done \in AlreadyDone :
            /\ "releases" \notin done /\ done \cap Stages \subseteq settled
            /\ \A t \in inflight \ {"releases"} :
                  Through(t) # {} /\ Through(t) \subseteq done

(* The dual-axis writer of SAME_PERSON_AS never runs with a batched writer *)
(* of either axis, in a fresh job or a resumed one: two such transactions  *)
(* could deadlock in Neo4j (stage-definitions.ts, #330).                   *)
PersonReconciliationAlone ==
    "person-reconciliation" \in inflight =>
        inflight \cap {"artist-genres", "group-members"} = {}

(* The three together. *)
RunAlone == VerifyAlone /\ ReleasesFirst /\ PersonReconciliationAlone

=============================================================================
