\* The receipt is replaced and its directory flush throws, in recovery.
SPECIFICATION Spec
CONSTANTS
  Plan <- FilesPlan
  Dynamic <- NoOps
  Path <- Paths
  ParentOf <- Parent
  Root = "/"
  File = {"v1", "v2", "mine"}
  Link = {"target"}
  Tree = {"tree"}
  InitDisk <- Disk
  EditPath = {}
  EditValue = {"mine"}
  Faults = {"crash", "committed"}
  MaxFaults = 2
INVARIANTS CommittedIsWhole
