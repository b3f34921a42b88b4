---------------------------- MODULE MCPersonIdentity ----------------------------
(* Release a credits d1 on its track t; b is released by d1, and its track *)
(* u credits d1 by another name, and one without an id.  MusicBrainz       *)
(* credits t to m1, who it links to d1, and u to m2, who it does not.  But *)
(* for that credit of d1 all go by one name.                               *)
EXTENDS PersonIdentity, TLC

CONSTANTS d1, m1, m2, nm, alias, a, b, t, u

MCReleasedBy == a :> <<>> @@ b :> <<d1>>
MCReleaseOf == t :> a @@ u :> b
MCExtraartists ==
    a :> <<[id |-> d1, name |-> nm, on |-> t]>> @@
    b :> <<[id |-> d1, name |-> alias, on |-> u], [id |-> None, name |-> nm, on |-> u]>>
MCPerformers == t :> {m1} @@ u :> {m2}
MCMbName == [m \in Mbids |-> nm]
MCDiscogsLink == d1 :> m1

=============================================================================
