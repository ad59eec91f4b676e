CONSTANTS
  node1 = node1
  edge1 = edge1
  mark1 = mark1
  branch1 = branch1
  mark2 = mark2
  dangling = dangling
  t1 = t1
  t2 = t2
  t1b = t1b
  Slots = {node1, edge1, mark1, branch1, mark2, dangling}
  CfOf <- MCCfOf
  OwnerOf <- MCOwnerOf
  SealTenant <- MCSealTenant
  NoTenant = NoTenant
  Procs = {1, 2}
  Nobody = 0
  Keep = 1
  Worlds <- MCWorlds
SPECIFICATION SealedSpec
INVARIANTS
    SealedInv
    NothingLost
    Forgotten
    Restorable
PROPERTIES
    StartEnds
CHECK_DEADLOCK FALSE
