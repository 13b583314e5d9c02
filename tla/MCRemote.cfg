SPECIFICATION RemoteSpec
CONSTANTS
  Name <- MCName
  Cap <- MCCap
  Pkg <- MCPkg
  Path <- MCPath
  Tag = {"-"}
  NoPkg = NoPkg
  NoTag = "-"
  Version <- MCVersion
  NameOf <- MCNameOf
  VersionOf <- MCVersionOf
  ReleaseOf <- MCReleaseOf
  Depends <- MCDepends
  Provides <- MCProvides
  Conflicts <- MCConflicts
  Payload <- MCPayload
  DbCmp <- MCCmp
  TxCmp <- MCCmp
  RsCmp <- MCCmp
  FileRank <- MCFileRank
  Native <- MCPkg
  Archives <- MCPkg
  Catalogs <- MCCatalogs
  MaxSteps = 20
  Configurations <- MCConfigurations
  Proc = {"p1", "p2"}
  Required = {"p1"}
  LastEdition = 2
  Limit = 1
INVARIANTS
  PlanExecutable
  IndexKept
PROPERTIES
  SuccessDelivers
  VersionsOnlyGrow
  FailureKeepsMetadata
  VerifiedPairTaken
  CommandsEnd
