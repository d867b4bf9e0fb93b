\* An install that writes, overwrites and replaces a tree by a link.
SPECIFICATION Spec
CONSTANTS
  Plan <- FilesPlan
  Dynamic <- NoOps
  Path <- Paths
  ParentOf <- Parent
  Root = "/"
  File = {"v1", "v2", "mine"}
  Link = {"target"}
  Tree = {"tree"}
  InitDisk <- Disk
  EditPath = {"new", "old", "skill", "note"}
  EditValue = {"mine"}
  Faults = {"crash", "io", "append", "torn", "publish", "commit", "archive", "edit"}
  MaxFaults = 4
INVARIANTS TypeOK AllOrNothing WriteAhead
PROPERTIES DecidedOnce
