SPECIFICATION Spec
CONSTANTS
  Vendor = {x, y}
  x = x
  y = y
  None = None
  Torn = Torn
  Order <- TwoVendors
  Rev = {1, 2}
  Filter = {"all", "some"}
  All = "all"
  Compat = TRUE
  Input = {"a", "b"}
  Engine = {"e", "f"}
  InitManifest <- Pinned
  WithManifest <- Manifests
  MaxFaults = 1
  MaxEdits = 1
  MaxCommands = 2
INVARIANTS PinsResolve PendingNeverLocked
PROPERTIES PinKeepsDigest FailureLeavesNoTrace SuccessAgrees LockReproducible BuildMatchesLock
CHECK_DEADLOCK FALSE
