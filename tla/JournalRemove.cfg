\* A removal, whose ops are decided at run time.
SPECIFICATION Spec
CONSTANTS
  Plan <- RemovePlan
  Dynamic <- RemoveDynamic
  Path <- Paths
  ParentOf <- Parent
  Root = "/"
  File = {"v1", "v2", "mine"}
  Link = {"target"}
  Tree = {"tree"}
  InitDisk <- Registered
  EditPath = {"old", "skill", "memo"}
  EditValue = {"mine"}
  Faults = {"crash", "io", "exec", "commit", "committed", "archive", "discard", "edit"}
  MaxFaults = 5
INVARIANTS UndoneLeavesNoTrace HostEffectsReported
