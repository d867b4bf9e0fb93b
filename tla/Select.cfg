CONSTANTS
  None = None
  NoOne = None
  Order <- MCOrder
  Input <- MCInput
  Fresh <- MCFresh
  MaxFixes = 4
  MaxRenames = 2
SPECIFICATION FairSpec
INVARIANTS SearchesAgree KeptIsSound ExcludedStaysOut
PROPERTIES FixesSettle
CHECK_DEADLOCK FALSE
