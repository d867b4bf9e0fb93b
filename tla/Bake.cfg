CONSTANTS
  Up = ".."
  None = None
  NoOne = None
  Registry <- MCRegistry
  Group <- MCGroup
  FirstParty <- MCFirstParty
  Archive <- MCArchive
  LocalTree <- MCLocalTree
  Host = {"api.github.com", "codeload.github.com", "elsewhere"}
  Semver = {"v1.0.0"}
  MaxRedirects = 1
  MaxEdits = 1
  MaxFaults = 1
  MaxBakes = 2
SPECIFICATION MCSpec
INVARIANTS AcceptedIsFresh OneNamespace
PROPERTIES PublishesWhatItRead BakeEnds
CHECK_DEADLOCK FALSE
