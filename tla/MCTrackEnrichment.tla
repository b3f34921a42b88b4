---------------------------- MODULE MCTrackEnrichment ----------------------------
(* One release of two tracks; r1 is in every source, r2 in none.           *)
EXTENDS TrackEnrichment, TLC

CONSTANTS t1, t2, rel, r1, r2

MCTracklist == rel :> {t1, t2}
MCSymmetry == Permutations({t1, t2})

=============================================================================
