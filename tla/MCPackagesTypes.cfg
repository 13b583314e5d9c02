SPECIFICATION PackagesSpec
CONSTANTS
  Path <- MCPath
  Parent <- MCParent
  Root = "root"
  Rank <- MCRank
  Content <- MCContent
  Target = {"link"}
  Behind <- MCBehind
  Size <- MCSize
  Dir = "dir"
  Part = "part"
  None = "none"
  Proc = {p1, p2}
  MaxEdits = 1
  MaxPlants = 1
  Limit = 1

  Char <- MCChar
  MaxTotal = 5

  File <- MCFile
  Wanted = "app"
  Package <- MCPackage
  Holds <- MCHolds
  First <- MCFirst
  Age <- MCAge
  PlanOf <- MCPlanOf
  Broken = "broken"
  Nothing = "none"
  Command = {p1, p2}
  Update = {u1, u2}
  MaxPublish = 2
  MaxFetch = 4
  MaxBegin = 2
  MaxFaults = 1
SYMMETRY Symmetry
INVARIANTS
  TypeOK
  CacheTypeOK
CHECK_DEADLOCK FALSE
