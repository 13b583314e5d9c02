SPECIFICATION Spec
CONSTANTS
  Name <- MCName
  Cap <- MCCap
  Pkg <- MCPkg
  Path <- MCPath
  Tag = {"-"}
  NoPkg = NoPkg
  NoTag = "-"
  Version <- MCVersion
  NameOf <- MCNameOf
  VersionOf <- MCVersionOf
  ReleaseOf <- MCReleaseOf
  Depends <- MCDepends
  Provides <- MCProvides
  Conflicts <- MCConflicts
  Payload <- MCPayload
  DbCmp <- MCCmp
  TxCmp <- MCCmp
  RsCmp <- MCCmp
  FileRank <- MCFileRank
  Native <- MCNative
  Archives <- MCArchives
  Catalogs <- MCCatalogs
  MaxSteps = 9
INVARIANTS
  SelectionSound
  PlanSound
  PlanInOrder
PROPERTIES
  Ends
CHECK_DEADLOCK FALSE
