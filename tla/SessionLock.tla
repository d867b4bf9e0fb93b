---------------------------- MODULE SessionLock ----------------------------
(***************************************************************************)
(* What the gateway's state lock promises its callers: a session that one  *)
(* command at a time may be in, entered at most once by each command.  The *)
(* session ends when its command leaves it or is killed.  StateLock        *)
(* implements this module; the modules of the sessions assume it.          *)
(***************************************************************************)
CONSTANTS Proc, Nobody

VARIABLES
  holder,  \* the command in the session, or Nobody
  left     \* the commands whose session is over

Init == holder = Nobody /\ left = {}

Enter(p) ==
  /\ holder = Nobody
  /\ p \notin left
  /\ holder' = p
  /\ UNCHANGED left

Leave(p) ==
  /\ holder = p
  /\ holder' = Nobody
  /\ left' = left \cup {p}

\* A command that never got the lock gives up, or is killed while it waits.
GiveUp(p) ==
  /\ holder # p
  /\ left' = left \cup {p}
  /\ UNCHANGED holder

Next == \E p \in Proc : Enter(p) \/ Leave(p) \/ GiveUp(p)

Spec == Init /\ [][Next]_<<holder, left>>
=============================================================================
