SPECIFICATION FairSpec
CONSTANTS
  Proc = {"p1", "p2"}
  NoPkg = NoPkg
  NoTag = "-"
  Mine <- MCMine
  Name <- MCName
  Pkg <- MCPkg
  Path <- MCPath
  Tag <- MCTag
  Cap <- MCName
  Version <- MCVersion
  NameOf <- MCNameOf
  VersionOf <- MCVersionOf
  ReleaseOf <- MCReleaseOf
  Depends <- Nothing
  Provides <- Nothing
  Conflicts <- Nothing
  Payload <- MCPayload
  DbCmp <- MCCmp
  TxCmp <- MCCmp
  Above <- MCAbove
  Rank <- MCRank
  UserPath = {}
  UserNode <- MCUserNode
  Limit <- OneFault
INVARIANTS
  RecordedFilesPresent
PROPERTIES
  Terminates
