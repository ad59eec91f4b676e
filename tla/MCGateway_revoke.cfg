SPECIFICATION GatewaySpec
CONSTANTS
  Subs = {"ann", "bob"}
  Repos = {"a", "b"}
  Reqs = {q1, q2}
  MetaGrants <- MCMetaGrants
  Allowlists <- MCAllowlists
  Worlds <- MCWorlds
  InitialControl <- MCControl
  Burst = 2
  Refill = 1
  MaxLines = 1
  MaxSlots = 1
  PerPrincipal = 1
  GrantTTL = 1
  ConnectTTL = 1
CHECK_DEADLOCK FALSE
PROPERTY RevocationHolds
