----------------------------- MODULE MCReloadJob -----------------------------
(***************************************************************************)
(* A reload of four stages: the releases, one enrichment that needs an     *)
(* optional client and shares the releases' lane, one that has neither,    *)
(* and the gate.                                                           *)
(***************************************************************************)
EXTENDS ReloadJob

MCOrder == << "releases", "profiles", "lyrics", "verify" >>

MCDeps ==
    [s \in {"releases", "profiles", "lyrics", "verify"} |->
        CASE s = "releases" -> {}
          [] s = "verify"   -> {"releases", "profiles", "lyrics"}
          [] OTHER          -> {"releases"}]

MCResources ==
    [s \in {"releases", "profiles", "lyrics", "verify"} |->
        IF s \in {"releases", "profiles"} THEN {"discogs"} ELSE {}]

=============================================================================
