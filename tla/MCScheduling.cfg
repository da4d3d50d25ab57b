SPECIFICATION SuiteSpec
CONSTANTS
  Credentials = {1, 2}
  Groups = {1, 2}
  GroupOf <- OwnGroup
  Weights = {0, 1}
  Configs <- OnOffOrRanked
  Requests = {q1}
  Pools <- AnyPool
  Refreshable = {1}
  Preferences = {0, 2}
  Obstacles = {"auth"}
  Scale = 1
  MaxProgress = 2
  MaxSequence = 3
  StreakStart = 1
  MaxWeight = 1
  MaxGeneration = 1
  MaxRevision = 2
  MaxTime = 0
  q1 = q1
  q2 = q2
  Off = Off
INVARIANTS
  OneHistory
  AwayIsPending
  FairShares
PROPERTIES
  JoinsInFront
