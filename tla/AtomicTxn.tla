----------------------------- MODULE AtomicTxn -----------------------------
(***************************************************************************)
(* What one transaction of the gateway promises the scope it changes: it   *)
(* is decided once, committed or aborted, and then it is over: its journal *)
(* is gone or archived and no later command touches it.  Journal           *)
(* implements this module.                                                 *)
(***************************************************************************)
VARIABLES
  outcome,  \* "pending", "committed" or "aborted"
  over

vars == <<outcome, over>>

Init == outcome = "pending" /\ over = FALSE

Decide ==
  /\ outcome = "pending"
  /\ outcome' \in {"committed", "aborted"}
  /\ UNCHANGED over

\* A transaction whose journal was never published aborts at once.
Reject ==
  /\ outcome = "pending"
  /\ outcome' = "aborted"
  /\ over' = TRUE

Finish ==
  /\ outcome # "pending" /\ ~over
  /\ over' = TRUE
  /\ UNCHANGED outcome

Next == Decide \/ Reject \/ Finish

Spec == Init /\ [][Next]_vars

\* Every transaction is over in the end.
LiveSpec == Spec /\ WF_vars(Next)
=============================================================================
