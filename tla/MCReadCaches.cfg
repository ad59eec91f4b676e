CONSTANTS
  c0 = c0
  c1 = c1
  c2 = c2
  c3 = c3
  a = a
  x = x
  y = y
  rA = rA
  rB = rB
  p1 = p1
  p2 = p2
  Commits = {c0, c1, c2, c3}
  ParentsOf <- MCParentsOf
  Tips = {c0, c1, c2}
  Claims = {a, x, y}
  RepoOf <- MCRepoOf
  Tenant = rA
  Federation = rB
  Readers = {p1, p2}
  NoCommit = NoCommit
  LayoutCap = 2
  Rank <- MCRank
  BranchRank <- MCBranchRank
  Worlds <- MCWorlds
SPECIFICATION ReadCachesSpec
INVARIANTS
    RecallInv
    OnlyCanonical
    SearchComplete
PROPERTIES
    RequestsEnd
CHECK_DEADLOCK FALSE
