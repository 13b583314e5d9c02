SPECIFICATION Spec
CONSTANTS
  Proc = {p1}
  NoPkg = NoPkg
  NoTag = "-"
  Mine <- MCMine
  Name <- MCName
  Pkg <- MCPkg
  Path <- MCPath
  Tag <- MCTag
  Cap <- MCCap
  Version <- MCVersion
  NameOf <- MCNameOf
  VersionOf <- MCVersionOf
  ReleaseOf <- MCReleaseOf
  Depends <- MCDepends
  Provides <- MCProvides
  Conflicts <- MCConflicts
  Payload <- MCPayload
  DbCmp <- MCCmp
  TxCmp <- MCCmp
  Above <- MCAbove
  Rank <- MCRank
  UserPath <- MCUserPath
  UserNode <- MCUserNode
  Limit <- FaultsAndEdits
PROPERTIES
  FailureRestores
