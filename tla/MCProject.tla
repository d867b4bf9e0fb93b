---------------------------- MODULE MCProject ----------------------------
(* Instances of Project for TLC.                                           *)
EXTENDS Project

CONSTANTS x, y

TwoVendors == <<x, y>>

\* One vendor is pinned, unfiltered, accepted and exported.
Pinned == (x :> [sha |-> 1, filter |-> All, pending |-> FALSE, exported |-> TRUE]) @@ (y :> None)

\* The second vendor has a manifest of its own by its second revision.
Manifests == {<<y, 2>>}
=============================================================================
