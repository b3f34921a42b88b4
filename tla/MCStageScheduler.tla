-------------------------- MODULE MCStageScheduler --------------------------
(***************************************************************************)
(* The scheduler on a small graph with every feature of the real one: a    *)
(* root, two lanes one of which a stage shares with two others, a stage    *)
(* with two lanes, and a last stage that waits for all.  The array is in   *)
(* topological order but the edges and lanes, not the array, decide: d may *)
(* overtake both, which waits for c and for the lane of b.                 *)
(***************************************************************************)
EXTENDS StageScheduler

MCOrder == << "root", "b", "c", "both", "d", "last" >>

MCDeps ==
    [s \in {"root", "b", "c", "d", "both", "last"} |->
        CASE s = "root" -> {}
          [] s = "last" -> {"root", "b", "c", "d", "both"}
          [] s = "both" -> {"c"}
          [] OTHER      -> {"root"}]

MCResources ==
    [s \in {"root", "b", "c", "d", "both", "last"} |->
        CASE s \in {"root", "b"} -> {"discogs"}
          [] s = "d"             -> {"musicbrainz"}
          [] s = "both"          -> {"discogs", "musicbrainz"}
          [] OTHER               -> {}]

(* Every resumable set of a job, and a name that is no stage. *)
MCAlreadyDone == SUBSET {"root", "b", "c", "d", "both", "last", "retired-stage"}

=============================================================================
