\* A transaction is decided once and is over when faults stop.
SPECIFICATION LiveSpec
CONSTANTS
  Plan <- FilesPlan
  Dynamic <- NoOps
  Path <- Paths
  ParentOf <- Parent
  Root = "/"
  File = {"v1", "v2", "mine"}
  Link = {"target"}
  Tree = {"tree"}
  InitDisk <- Disk
  EditPath = {"new", "old", "skill", "note"}
  EditValue = {"mine"}
  Faults = {"crash", "io", "append", "publish", "commit", "archive", "edit"}
  MaxFaults = 4
INVARIANTS NoLeftovers
PROPERTIES ImplementsAtomicTxn
