SPECIFICATION FilesSpec
CONSTANTS
  Name <- MCName
  Record <- MCRecord
  Proc <- MCProc
  Runs <- WriteAndList
  Partial = "partial"
  None = "none"
  Limit = 1
  Repo <- MCRepo
  Rank <- MCRank
  Entry <- Settings
  Size <- MCSize
  Priority <- MCPriority
  Enabled <- MCEnabled
  Empty = "empty"
  Torn = "torn"
  NoConf = "none"
  ConfProc <- MCProc
  ConfRuns <- Adders
  MaxRepositories = 2
  ConfLimit = 1
  Key <- MCKey
  TornKey = "torn"
  NoKey = "none"
  KeyProc <- MCProc
  KeyRuns <- ChangeAndVerify
  LastEdition = 2
  KeyLimit = 1
INVARIANTS
  ListSound
  ScansFailForRemovals
  LoadFailsForCause
PROPERTIES
  AcceptedWasTrusted
  StoreSpec
  ConfigStoreSpec
  EveryEnabledTried
  LoneAddInstalls
  GoodIsAccepted
  KeygenAllOrNothing
