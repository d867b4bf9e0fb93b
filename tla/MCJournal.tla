----------------------------- MODULE MCJournal -----------------------------
(* Instances of Journal for TLC: the plan of an install that replaces.     *)
EXTENDS Journal

O(kind, path, val) ==
  [kind |-> kind, path |-> path, val |-> val, tolerant |-> TRUE, undo |-> TRUE]

\* "new" is written in a directory that is not there yet, "old" is overwritten,
\* "skill" is a tree that becomes a symlink, "empty" is a directory left empty,
\* "host" is a registration, "note" and "memo" are the user's.
Paths == {"dir", "new", "old", "skill", "host", "note", "box", "memo"}

Parent == [p \in Paths |-> CASE p \in {"new", "note"} -> "dir"
                             [] p \in {"memo"} -> "box"
                             [] OTHER -> "/"]

Disk == [p \in Paths |-> CASE p = "old" -> "v1"
                           [] p = "skill" -> "tree"
                           [] p = "box" -> "dir"
                           [] OTHER -> "absent"]

\* The same, with a host that knows the registration.
Registered == [Disk EXCEPT !["host"] = "on"]

FilesPlan == <<O("write", "new", "v2"), O("write", "old", "v2"),
               O("remove", "skill", "tree"), O("link", "skill", "target")>>

HostPlan == <<O("mkdir", "dir", "dir"), O("exec", "host", "on"),
              O("write", "old", "v2")>>

RemovePlan == <<O("rmdir", "box", "absent"), O("write", "old", "v2")>>
RemoveDynamic == <<O("remove", "skill", "tree"),
                   [O("exec", "host", "absent") EXCEPT !.undo = FALSE]>>

NoOps == <<>>

ASSUME PlanShapeAssumption == PlanShape /\ EmptiedFirst /\ EditsDiffer /\ HostsOnOrOff
=============================================================================
