---------------------------- MODULE ChangelogStore ----------------------------
(***************************************************************************)
(* The changelog of the repository (scripts/changelog): a draft release    *)
(* whose two assets are the only store, changelog.jsonl (one line per      *)
(* merged PR, stamped with the version that shipped it) and versions.json  *)
(* (the manifest of the versions), and one published release per version.  *)
(*                                                                         *)
(* Every script reads both assets, works for a while, and writes both      *)
(* back.  The workflows share a concurrency group, so that at most one CI  *)
(* run is in progress; what is run from a checkout is outside the group.   *)
(* An upload with --clobber deletes the asset before it uploads the new    *)
(* one, and a run may die at any step.                                     *)
(*                                                                         *)
(* PRs are numbered in the order they were merged, and commit n of main    *)
(* is the one that merged PR n.  Tags are those of one day: 1 is           *)
(* vYYYY.MM.DD, n > 1 is vYYYY.MM.DD.n, and 0 is v0.1.0, the baseline.     *)
(***************************************************************************)
EXTENDS Integers, FiniteSets, FiniteSetsExt

CONSTANTS
    MaxPR,       \* bound: PRs merged
    MaxTag,      \* bound: tags of the day
    Budgets,     \* bounds: how much of what is counted below may happen
    Null         \* the version of an unreleased record

PRs == 1..MaxPR
Baseline == 0
Tags == Baseline..MaxTag
Slots == {"ci", "local"}
Assets == {"records", "versions"}
Cutting == {"cut", "baseline"}
Kinds == Cutting \cup {"update", "reconcile", "backfill"}
Locals == [left : Nat, kinds : SUBSET Kinds]

ASSUME ChangelogAssumption ==
    /\ MaxPR \in Nat /\ MaxTag \in Nat
    /\ Budgets \subseteq [merges : 0..MaxPR, mishaps : Nat, dispatches : Nat, locals : Locals]
    /\ Null \notin Tags

VARIABLES
    head,        \* PRs merged so far, the tip of main
    aged,        \* those up to here were merged more than 21 days ago
    lines,       \* changelog.jsonl: the version each recorded PR carries
    bad,         \* the lines of it that do not parse or do not validate
    manifest,    \* versions.json: per tag its PRs and when it was cut
    preview,     \* the body of the draft: the PRs shown as unreleased
    refs,        \* tag refs, and the commit each points at
    published,   \* per tag the body of its release
    queued,      \* the pending CI run, none when its kind is "none"
    run,         \* the run in progress in CI and the one on a checkout
    merges,      \* what may still happen: merges to main,
    mishaps,     \* runs that die and lines that are damaged,
    dispatches,  \* runs in CI that are neither the hook's nor scheduled,
    locals,      \* and runs on a checkout: how many, of which scripts
    torn,        \* history: a run died between the steps of an upload
    damaged,     \* history: PRs whose line was damaged
    orphans,     \* history: tags whose run died before the manifest had them
    recut,       \* history: tags whose release a second cut wrote over
    crossed      \* history: a run wrote while the other relied on the store

(* An asset that is empty; one entry; and what f holds, else g.            *)
Empty == [x \in {} |-> x]
Only(x, y) == [z \in {x} |-> y]
Over(f, g) == [x \in DOMAIN f \cup DOMAIN g |-> IF x \in DOMAIN f THEN f[x] ELSE g[x]]

store == <<lines, bad, manifest>>
releases == <<refs, published>>
mayHappen == <<mishaps, dispatches, locals>>
bounds == <<merges, mayHappen>>
losses == <<torn, damaged, orphans, recut>>
past == <<losses, crossed>>
changelogVars == <<head, aged, store, preview, releases, queued, run, bounds, past>>

NoRun == [kind |-> "none", at |-> "idle", pr |-> 0, sha |-> 0, recs |-> Empty, malformed |-> {},
         vers |-> Empty, tag |-> Null, retried |-> FALSE, gone |-> {}, owed |-> {}]
NoJob == [kind |-> "none", pr |-> 0, sha |-> 0]

ChangelogInit ==
    /\ head = 0 /\ aged = 0
    /\ lines = Empty /\ bad = {} /\ manifest = Empty /\ preview = {}
    /\ refs = Empty /\ published = Empty
    /\ queued = NoJob
    /\ run = [s \in Slots |-> NoRun]
    /\ \E b \in Budgets :
         /\ merges = b.merges /\ mishaps = b.mishaps
         /\ dispatches = b.dispatches /\ locals = b.locals
    /\ torn = FALSE /\ damaged = {} /\ orphans = {}
    /\ recut = {} /\ crossed = FALSE

-----------------------------------------------------------------------------
(* Helpers of lib.ts; a record set is a function from PRs to versions.     *)
(* A summary is a record without a version, for every PR it is asked for:  *)
(* where Claude does not answer, or not usably, the title takes its place. *)
Summarize(p) == Only(p, Null)

SummarizeBatch(ps) == [p \in ps |-> Null]

PreserveVersion(fresh, prior) ==
    [p \in DOMAIN fresh |-> IF p \in DOMAIN prior THEN prior[p] ELSE fresh[p]]

(* A slip: the rebuilt records replace the old ones as they come. *)
UpsertFresh(recs, fresh) == Over(fresh, recs)

Upsert(recs, fresh) == Over(PreserveVersion(fresh, recs), recs)

(* A slip: what is recorded is looked at again, and nothing else. *)
NeedRefresh(recs, ps) == ps \cap DOMAIN recs

NeedSummary(recs, ps) == ps \ DOMAIN recs

Unreleased(recs) == {p \in DOMAIN recs : recs[p] = Null}

StampVersion(recs, ps, t) == [p \in DOMAIN recs |-> IF p \in ps THEN t ELSE recs[p]]

(* Versions are kept in order, the latest last. *)
LatestOf(vers, ts) == CHOOSE t \in ts : \A u \in ts : vers[u].date <= vers[t].date

(* The last version that claims a PR wins. *)
BackfillVersionStamps(recs, vers) ==
    LET claiming(p) == {t \in DOMAIN vers : p \in vers[t].prs} IN
    [p \in DOMAIN recs |-> IF claiming(p) = {} THEN recs[p] ELSE LatestOf(vers, claiming(p))]

UpsertVersion(vers, t, v) == Over(Only(t, v), vers)

PreviousVersion(vers, t) ==
    LET earlier == IF t \in DOMAIN vers
                     THEN {u \in DOMAIN vers : vers[u].date < vers[t].date} ELSE DOMAIN vers IN
    IF earlier = {} THEN Null ELSE LatestOf(vers, earlier)

CalverTag(taken) == Min((1..(MaxTag + 1)) \ taken)

(* What of a body depends on the store. *)
RenderBaseline(ps) == [prs |-> ps, since |-> Null]

RenderVersion(vers, t, ps) == [prs |-> ps, since |-> PreviousVersion(vers, t)]

Render(vers, t, ps) == IF t = Baseline THEN RenderBaseline(ps) ELSE RenderVersion(vers, t, ps)

RenderUnreleased(recs) == Unreleased(recs)

(* What gh lists. *)
MergedSince(since) == (since + 1)..head

AllMerged == 1..head

ReleaseTags == DOMAIN published

-----------------------------------------------------------------------------
(* What starts a run.  A merge to main, a deploy that succeeded and the    *)
(* weekly schedule queue theirs; the group keeps one pending run, and a    *)
(* newer one takes its place.                                              *)
Enqueue(kind, pr, sha) == queued' = [kind |-> kind, pr |-> pr, sha |-> sha]

Merge ==
    /\ merges > 0 /\ merges' = merges - 1
    /\ head' = head + 1
    /\ Enqueue("update", head + 1, 0)
    /\ UNCHANGED <<aged, store, preview, releases, run, mayHappen, past>>

(* A run of the hook is started again by hand, or a deploy succeeds: it    *)
(* may be of a commit that is no longer the tip.                           *)
Dispatch ==
    /\ dispatches > 0 /\ dispatches' = dispatches - 1
    /\ \E n \in 1..head : Enqueue("update", n, 0) \/ Enqueue("cut", 0, n)
    /\ UNCHANGED <<head, aged, store, preview, releases, run, merges, mishaps, locals, past>>

Schedule ==
    /\ queued.kind # "reconcile" /\ run["ci"].kind # "reconcile"
    /\ Enqueue("reconcile", 0, 0)
    /\ UNCHANGED <<head, aged, store, preview, releases, run, bounds, past>>

StartRun(s, kind, pr, sha) ==
    run' = [run EXCEPT ![s] = [NoRun EXCEPT !.kind = kind, !.at = "read", !.pr = pr, !.sha = sha]]

(* Nothing keeps a run on a checkout from one in CI.  A run writes from    *)
(* its release, or from the first asset it deletes, until it ends; it      *)
(* relies on the store from its reads, a baseline, which is only started   *)
(* before the first cut, from its start.                                   *)
Writing(r) ==
    \/ r.kind \in Cutting /\ r.at \in {"draft", "upload"}
    \/ r.at = "upload" /\ r.gone # Assets

Relies(r) == r.at \notin {"idle", "read"} \/ (r.kind = "baseline" /\ r.at = "read")

Crossing == \E s, o \in Slots : s # o /\ Writing(run[s]) /\ Relies(run[o])

NoteCrossing == crossed' = (crossed \/ Crossing')

StartQueued ==
    /\ run["ci"] = NoRun /\ queued # NoJob
    /\ StartRun("ci", queued.kind, queued.pr, queued.sha)
    /\ queued' = NoJob
    /\ UNCHANGED <<head, aged, store, preview, releases, bounds, past>>

(* The commit a version is to tag: HEAD_SHA, or the tip of main. *)
Targets(kind) ==
    CASE kind = "cut"      -> 1..head
      [] kind = "baseline" -> {head}
      [] OTHER             -> {0}

(* pnpm changelog:...; update takes any PR, one that is still open too,    *)
(* and the baseline comes before the first cut, as the workflow asks for,  *)
(* and again only when its run died.                                       *)
StartLocal ==
    /\ run["local"] = NoRun /\ locals.left > 0 /\ locals' = [locals EXCEPT !.left = @ - 1]
    /\ \E kind \in locals.kinds :
         /\ kind = "baseline" => DOMAIN published \subseteq {Baseline} \cap orphans
         /\ \E pr \in (IF kind = "update" THEN PRs ELSE {0}), sha \in Targets(kind) :
              StartRun("local", kind, pr, sha)
    /\ NoteCrossing
    /\ UNCHANGED <<head, aged, store, preview, releases, queued, merges, mishaps, dispatches, losses>>

(* Time goes by: a PR leaves the reconciler's window of 21 days. *)
Age ==
    /\ aged < head
    /\ aged' = aged + 1
    /\ UNCHANGED <<head, store, preview, releases, queued, run, bounds, past>>

(* A line of the asset is damaged: edited by hand, or cut short. *)
Damage ==
    /\ mishaps > 0 /\ mishaps' = mishaps - 1
    /\ \E p \in DOMAIN lines \ bad : bad' = bad \cup {p} /\ damaged' = damaged \cup {p}
    /\ UNCHANGED <<head, aged, lines, manifest, preview, releases, queued, run>>
    /\ UNCHANGED <<merges, dispatches, locals, torn, orphans, recut, crossed>>

-----------------------------------------------------------------------------
Ends(s) == run' = [run EXCEPT ![s] = NoRun]

(* The lines a tolerant parse keeps; a strict one throws on any other. *)
ParseRecords == [p \in DOMAIN lines \ bad |-> lines[p]]

(* The record of a PR that is not merged has no valid mergedAt. *)
Invalid(ps) == ps \ AllMerged

(* A slip: a read of the manifest that fails is taken for no manifest. *)
ReadDegraded(s) ==
    /\ run[s].at = "read"
    /\ run' = [run EXCEPT ![s].at = "plan", ![s].recs = ParseRecords]
    /\ NoteCrossing
    /\ UNCHANGED <<head, aged, store, preview, releases, queued, bounds, losses>>

(* readStore, or readStoreTolerant in the two scripts that repair, and     *)
(* readVersions: an asset that was never uploaded reads as empty, a call   *)
(* that fails ends the run.                                                *)
Read(s) ==
    /\ run[s].at = "read"
    /\ IF bad # {} /\ run[s].kind \notin {"reconcile", "backfill"}
         THEN Ends(s)
         ELSE run' = [run EXCEPT ![s].at = "plan", ![s].vers = manifest, ![s].recs = ParseRecords]
    /\ NoteCrossing
    /\ UNCHANGED <<head, aged, store, preview, releases, queued, bounds, losses>>

ToDraft(s, recs, malformed) ==
    run' = [run EXCEPT ![s].at = "draft", ![s].recs = recs, ![s].malformed = malformed]

PlanUpdate(s) ==
    /\ run[s].kind = "update"
    /\ ToDraft(s, Upsert(run[s].recs, Summarize(run[s].pr)), Invalid({run[s].pr}))

(* backfill writes when a PR is missing, or a summary is to be redone; it  *)
(* leaves the stamps to the reconciler.                                    *)
PlanBackfill(s) ==
    LET missing == NeedSummary(run[s].recs, AllMerged) IN
    /\ run[s].kind = "backfill"
    /\ \/ ToDraft(s, Upsert(run[s].recs, SummarizeBatch(missing)), {})
       \/ missing = {} /\ Ends(s)

Heal(recs, since) == Upsert(recs, SummarizeBatch(NeedSummary(recs, MergedSince(since))))

(* The scheduled run lists the window, one dispatched by hand may go       *)
(* further back.                                                           *)
PlanReconcile(s) ==
    /\ run[s].kind = "reconcile"
    /\ \E since \in 0..aged :
         run' = [run EXCEPT
                   ![s].at = "render",
                   ![s].recs = BackfillVersionStamps(Heal(run[s].recs, since), run[s].vers)]

(* runCut sweeps every unreleased record, after it has healed the PRs of   *)
(* the last days; with none it writes nothing.                             *)
PlanCut(s) ==
    /\ run[s].kind = "cut"
    /\ \E since \in aged..head :
         LET healed == Heal(run[s].recs, since)
             tag == CalverTag(ReleaseTags \cup DOMAIN run[s].vers) IN
         IF Unreleased(healed) = {} THEN Ends(s)
         ELSE /\ tag \in Tags
              /\ run' = [run EXCEPT ![s].at = "release", ![s].recs = healed, ![s].tag = tag]

(* runBaseline refuses a store that is versioned, and one that is empty. *)
PlanBaseline(s) ==
    LET refused == \/ \E p \in DOMAIN run[s].recs : run[s].recs[p] # Null
                   \/ Baseline \in DOMAIN run[s].vers
                   \/ run[s].recs = Empty IN
    /\ run[s].kind = "baseline"
    /\ IF refused THEN Ends(s)
       ELSE run' = [run EXCEPT ![s].at = "release", ![s].tag = Baseline]

Plan(s) ==
    /\ run[s].at = "plan"
    /\ PlanUpdate(s) \/ PlanBackfill(s) \/ PlanReconcile(s) \/ PlanCut(s) \/ PlanBaseline(s)
    /\ UNCHANGED <<head, aged, store, preview, releases, queued, bounds, past>>

-----------------------------------------------------------------------------
(* writeVersionRelease: an existing release is edited; otherwise the tag   *)
(* ref comes first, and one that exists at the commit is taken over.  One  *)
(* at another commit, or a release that is there when it comes to create   *)
(* its own, makes the cut try a second tag, once.                          *)
Collides(r) ==
    \/ r.at = "release" /\ r.tag \in DOMAIN refs /\ refs[r.tag] # r.sha
    \/ r.at = "publish"

EnsureTagRef(s) ==
    LET r == run[s]
        next == CalverTag(ReleaseTags \cup {r.tag}) IN
    /\ \/ r.at = "release" /\ r.tag \notin ReleaseTags
       \/ r.at = "publish" /\ r.tag \in ReleaseTags
    /\ IF ~Collides(r)
         THEN /\ refs' = Over(Only(r.tag, r.sha), refs)
              /\ run' = [run EXCEPT ![s].at = "publish"]
         ELSE /\ UNCHANGED refs
              /\ IF r.retried \/ r.kind = "baseline" THEN Ends(s)
                 ELSE /\ next \in Tags
                      /\ run' = [run EXCEPT ![s].at = "release", ![s].tag = next,
                                            ![s].retried = TRUE]
    /\ UNCHANGED <<head, aged, store, preview, published, queued, bounds, past>>

(* The date says how many releases there were before. *)
BuildCut(recs, t) == [prs |-> Unreleased(recs), date |-> Cardinality(ReleaseTags \ {t})]

(* The release, and then, in memory, the stamps and the version record;    *)
(* the baseline's is the whole manifest.                                   *)
Publish(s) ==
    LET r == run[s]
        cut == BuildCut(r.recs, r.tag) IN
    /\ \/ r.at = "publish" /\ r.tag \notin ReleaseTags
       \/ r.at = "release" /\ r.tag \in ReleaseTags
    /\ published' = Over(Only(r.tag, Render(r.vers, r.tag, cut.prs)), published)
    /\ recut' = IF r.kind = "cut" THEN recut \cup ({r.tag} \cap ReleaseTags) ELSE recut
    /\ run' = [run EXCEPT
                 ![s].at = "draft",
                 ![s].recs = StampVersion(r.recs, cut.prs, r.tag),
                 ![s].vers = IF r.kind = "baseline" THEN Only(r.tag, cut)
                             ELSE UpsertVersion(r.vers, r.tag, cut)]
    /\ NoteCrossing
    /\ UNCHANGED <<head, aged, store, preview, refs, queued, bounds, torn, damaged, orphans>>

(* A slip: a body is rendered from what records there are. *)
RenderablePartly(r) == DOMAIN r.vers

(* A version some of whose records are missing keeps the body it has. *)
Renderable(r) == {t \in DOMAIN r.vers : r.vers[t].prs \subseteq DOMAIN r.recs}

Rerender(s) ==
    LET r == run[s] IN
    /\ r.at = "render"
    /\ published' = Over([t \in Renderable(r) |->
                            Render(r.vers, t, r.vers[t].prs \cap DOMAIN r.recs)], published)
    /\ run' = [run EXCEPT ![s].at = "draft"]
    /\ UNCHANGED <<head, aged, store, preview, refs, queued, bounds, past>>

(* writeDraft: the body, then both assets, each deleted and uploaded. *)
EditDraft(s) ==
    /\ run[s].at = "draft"
    /\ preview' = RenderUnreleased(run[s].recs)
    /\ run' = [run EXCEPT ![s].at = "upload", ![s].gone = Assets, ![s].owed = Assets]
    /\ UNCHANGED <<head, aged, store, releases, queued, bounds, past>>

DeleteAsset(s) ==
    /\ run[s].at = "upload"
    /\ \E a \in run[s].gone :
         /\ run' = [run EXCEPT ![s].gone = @ \ {a}]
         /\ IF a = "records"
              THEN lines' = Empty /\ bad' = {} /\ UNCHANGED manifest
              ELSE manifest' = Empty /\ UNCHANGED <<lines, bad>>
    /\ NoteCrossing
    /\ UNCHANGED <<head, aged, preview, releases, queued, bounds, losses>>

UploadAsset(s) ==
    LET r == run[s] IN
    /\ r.at = "upload"
    /\ \E a \in r.owed \ r.gone :
         /\ IF r.owed = {a} THEN Ends(s) ELSE run' = [run EXCEPT ![s].owed = @ \ {a}]
         /\ IF a = "records"
              THEN lines' = r.recs /\ bad' = r.malformed /\ UNCHANGED manifest
              ELSE manifest' = r.vers /\ UNCHANGED <<lines, bad>>
    /\ UNCHANGED <<head, aged, preview, releases, queued, bounds, past>>

(* A run dies, or a call of it fails for good. *)
Dies(s) ==
    LET r == run[s] IN
    /\ r # NoRun /\ mishaps > 0 /\ mishaps' = mishaps - 1
    /\ torn' = (torn \/ (r.at = "upload" /\ r.gone # Assets))
    /\ orphans' = IF r.kind \in Cutting /\ (r.at = "draft" \/ "versions" \in r.owed)
                    THEN orphans \cup {r.tag} ELSE orphans
    /\ Ends(s)
    /\ UNCHANGED <<head, aged, store, preview, releases, queued>>
    /\ UNCHANGED <<merges, dispatches, locals, damaged, recut, crossed>>

Work(s) ==
    \/ Read(s) \/ Plan(s) \/ EnsureTagRef(s) \/ Publish(s) \/ Rerender(s)
    \/ EditDraft(s) \/ DeleteAsset(s) \/ UploadAsset(s)

ChangelogNext ==
    \/ Merge \/ Dispatch \/ Schedule \/ StartQueued \/ StartLocal \/ Age \/ Damage
    \/ \E s \in Slots : Work(s) \/ Dies(s)

(* The schedule fires and CI makes progress; a checkout may stall anywhere. *)
Fairness ==
    /\ WF_changelogVars(Schedule) /\ WF_changelogVars(StartQueued)
    /\ WF_changelogVars(Work("ci"))

ChangelogSpec == ChangelogInit /\ [][ChangelogNext]_changelogVars /\ Fairness

-----------------------------------------------------------------------------
(* A PR ships in one version: two published releases list the same PR only *)
(* if the run of one of them died before its version was recorded, the     *)
(* window the comment in runCut accepts, its line was damaged, or a run    *)
(* wrote while another, on a checkout or in CI, relied on the store.       *)
ShipsOnce ==
    ~torn /\ ~crossed => \A t, u \in DOMAIN published \ orphans :
        t # u => published[t].prs \cap published[u].prs \subseteq damaged

(* Who published a release recorded it: once no run is left every release  *)
(* is in the manifest, with the PRs its body lists, unless its run died    *)
(* before it was, an upload was cut short, or two runs crossed.            *)
ManifestKnowsReleases ==
    ~torn /\ ~crossed /\ run["ci"] = NoRun /\ run["local"] = NoRun =>
        \A t \in DOMAIN published \ orphans :
            t \in DOMAIN manifest /\ manifest[t].prs = published[t].prs

(* A published body never loses a PR and never gains one, whatever was     *)
(* lost from the store and however runs cross, unless a baseline that was  *)
(* never recorded is published again, or two cuts that crossed took the    *)
(* same tag, of which the second edits the release of the first; and       *)
(* rendering it again changes nothing at all unless an upload was cut      *)
(* short or two runs crossed.                                              *)
PublishedBodyStable ==
    [][\A t \in DOMAIN published :
         /\ \/ t = Baseline /\ t \in orphans
            \/ crossed /\ t \in recut'
            \/ published'[t].prs = published[t].prs
         /\ ~torn /\ ~crossed /\ t \notin orphans =>
              published'[t] = published[t]]_changelogVars

(* The hook's run of a merge may be replaced in the queue, or die; the     *)
(* weekly run still records the PR, unless it has left the window by then. *)
EveryMergeRecorded ==
    \A p \in PRs : head >= p ~> (p \in DOMAIN lines \ bad \/ p <= aged)

=============================================================================
