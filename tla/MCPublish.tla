----------------------------- MODULE MCPublish -----------------------------
(* Instances of Publish for TLC.                                           *)
EXTENDS Publish, TLC

CONSTANTS v1, v2, a, b, c

\* The generations share one child; each has one that the other has not.
TwoGenerations == (v1 :> {a, b}) @@ (v2 :> {b, c})
=============================================================================
