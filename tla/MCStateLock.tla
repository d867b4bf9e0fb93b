---------------------------- MODULE MCStateLock ----------------------------
(* Instances of StateLock for TLC.                                         *)
EXTENDS StateLock, TLC

CONSTANTS p1, p2, p3, p4, h1, h2

SameHost == [p \in Proc |-> h1]

\* p3 runs on another machine that shares the home directory.
TwoHosts == [p \in Proc |-> IF p = p3 THEN h2 ELSE h1]

\* The commands on h1 are interchangeable.
Symmetry == Permutations(Proc \ {p3})
=============================================================================
