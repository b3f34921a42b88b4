---------------------------- MODULE MCReloadGraph ----------------------------
(***************************************************************************)
(* The real stage graph, RELOAD_STAGES, for fresh jobs and resumed ones.   *)
(***************************************************************************)
EXTENDS ReloadGraph

CONSTANT MCUnfinished   \* the sets of stages a resumed job may have left

(* A fresh job, and the resumed ones. *)
MCAlreadyDone == {{}} \cup {ReloadNames \ left : left \in MCUnfinished}

=============================================================================
