SPECIFICATION Spec
CONSTANTS
  Proc = {p1}
  NoPkg = NoPkg
  NoTag = "-"
  Mine <- MCMine
  Name <- MCName
  Pkg <- MCPkg
  Path <- MCPath
  Tag <- MCTag
  Cap <- MCName
  Version <- MCVersion
  NameOf <- MCNameOf
  VersionOf <- MCVersionOf
  ReleaseOf <- MCReleaseOf
  Depends <- MCDepends
  Provides <- Nothing
  Conflicts <- Nothing
  Payload <- MCPayload
  DbCmp <- MCDbCmp
  TxCmp <- MCTxCmp
  Above <- MCAbove
  Rank <- MCRank
  UserPath = {}
  UserNode <- MCUserNode
  Limit <- Calm
INVARIANTS
  DependenciesClosed
