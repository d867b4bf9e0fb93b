----------------------------- MODULE WholeTree -----------------------------
(***************************************************************************)
(* What publishing a directory promises those who read it: the path always *)
(* shows one whole generation, the one that was there or the one being     *)
(* published, and a publication that reports success shows its own.        *)
(* Publish implements this module.                                         *)
(***************************************************************************)
CONSTANTS Version, None

VARIABLES
  live,    \* the generation at the path, None before the first one
  was,     \* the generation there when the publication began
  want,    \* the generation being published
  outcome  \* "busy", or how the last publication ended

vars == <<live, was, want, outcome>>

Init ==
  /\ live \in Version \cup {None}
  /\ was = live
  /\ want = None
  /\ outcome = "ok"

Begin(v) ==
  /\ outcome # "busy"
  /\ outcome' = "busy"
  /\ want' = v
  /\ was' = live
  /\ UNCHANGED live

\* The new generation appears, or a failing publication withdraws it.
Show == /\ outcome = "busy"
        /\ live' = want
        /\ UNCHANGED <<was, want, outcome>>

Withdraw == /\ outcome = "busy"
            /\ live' = was
            /\ UNCHANGED <<was, want, outcome>>

Succeed == /\ outcome = "busy"
           /\ live = want
           /\ outcome' = "ok"
           /\ UNCHANGED <<live, was, want>>

Fail == /\ outcome = "busy"
        /\ outcome' \in {"error", "killed"}
        /\ UNCHANGED <<live, was, want>>

Next == (\E v \in Version : Begin(v)) \/ Show \/ Withdraw \/ Succeed \/ Fail

Spec == Init /\ [][Next]_vars
=============================================================================
