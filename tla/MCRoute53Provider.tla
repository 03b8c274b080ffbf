------------------------- MODULE MCRoute53Provider -------------------------
(***************************************************************************)
(* A small instance of Route53Provider: the names app.example.com and      *)
(* myapp.example.com with the zones example.com (1) and app.example.com    *)
(* (2).  The first may have records in both.  The second belongs to zone 1 *)
(* alone, but as HasSuffix tests no label boundary, zone 2 is its longest. *)
(***************************************************************************)
EXTENDS Route53Provider

TwoNames == {"app", "myapp"}

TwoZones == 1 .. 2

EndIn == [z \in TwoZones |-> TwoNames]

Belong == [z \in TwoZones |-> IF z = 1 THEN TwoNames ELSE {"app"}]

Lengths == [z \in TwoZones |-> z]

Plans == {<<100, 0>>, <<0, 100>>}

\* Records are created for the primary.
Initial == {<<100, 0>>}
=============================================================================
