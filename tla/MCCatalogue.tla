-------------------------------- MODULE MCCatalogue --------------------------------
(* Two releases of one master: a by x on label l with group g credited, b  *)
(* by y, which credits a member of g.  One market is a country, another is *)
(* a region, and a third is both.                                          *)
EXTENDS Catalogue, TLC

CONSTANTS a, b, m, l, k1, k2, g, h, x, y, uk, europe, both, GB, EU, q1, q2

MCMasterOf == a :> m @@ b :> m
MCLabelsOf == a :> {l} @@ b :> {k1}
MCCreditsOf == a :> {g} @@ b :> {h}
MCArtistsOf == a :> {x} @@ b :> {y}
MCNormalizeCountry == uk :> {GB} @@ europe :> {EU} @@ both :> {GB, EU}
MCRoster == g :> {g, h} @@ h :> {}
MCItemOf == x :> q1 @@ y :> q2

(* No pipeline of one set reads what those of another write. *)
MCScopes == {{"label-hierarchy"}, {"master-data", "mb-release-events"}, {"group-members"},
             {"artist-wikidata"}}

=============================================================================
