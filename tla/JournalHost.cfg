\* An install that registers with a host, and fails before its commit.
SPECIFICATION Spec
CONSTANTS
  Plan <- HostPlan
  Dynamic <- NoOps
  Path <- Paths
  ParentOf <- Parent
  Root = "/"
  File = {"v1", "v2", "mine"}
  Link = {"target"}
  Tree = {"tree"}
  InitDisk <- Disk
  EditPath = {"old", "note", "memo"}
  EditValue = {"mine"}
  Faults = {"crash", "io", "exec", "append", "publish", "commit", "archive", "edit"}
  MaxFaults = 5
INVARIANTS AllOrNothing FailedStaysUndone
