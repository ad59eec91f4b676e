------------------------- MODULE McpSessionsProofs -------------------------
(***************************************************************************)
(* Proofs about the memory store and about the write tools of the MCP      *)
(* server that share it, for any principals, grants, nodes and tenants.    *)
(* The first part is about the store (Spec of MemStore): types, keys,      *)
(* supersessions and retirements under its own operations.  The second is  *)
(* about the sessions (SessionsSpec): types and acyclic supersessions      *)
(* between any two writes, and who may retire or rewrite whose node; what  *)
(* an operation does to the tables it takes from the first part.           *)
(***************************************************************************)
EXTENDS McpSessions, TLAPS

-----------------------------------------------------------------------------
(* The memory store: facts about the operators.                            *)

(* Times and the open end are numbers.                                     *)
LEMMA TimeFacts == /\ Time \subseteq Nat
                   /\ Open \in Nat
                   /\ 0 \in Time
  BY MemStoreAssumption DEF Time, Open

(* ensure_tenant_key returns a keyring, and leaves a live key in it when   *)
(* the store encrypts.                                                     *)
LEMMA EnsureTenantKeyType ==
    ASSUME NEW kr \in [Repos -> [gen : Nat, live : BOOLEAN]], NEW r \in Repos
    PROVE  /\ EnsureTenantKey(kr, r) \in [Repos -> [gen : Nat, live : BOOLEAN]]
           /\ SealGen(kr, r) \in Nat
  BY MemStoreAssumption DEF EnsureTenantKey, SealGen

(* The sealed form of an edge is a row.                                    *)
LEMMA SealedEdgeType ==
    ASSUME TypeOK, NEW k \in EdgeKeys,
           NEW e \in [state : {"Quarantined", "Confirmed"}, plane : Planes, asserter : Keys]
    PROVE  /\ EdgeTenant(k) \in Repos
           /\ SealedEdge(k, e) \in EdgeRow
           /\ SealedEdge(k, e).state = e.state
           /\ SealedEdge(k, e).plane = e.plane
  <1>1. k[1] \in Ids /\ k[2] \in Ids
    BY DEF EdgeKeys
  <1>2. EdgeTenant(k) \in Repos
    BY <1>1, MemStoreAssumption DEF EdgeTenant
  <1>3. SealGen(keyring, EdgeTenant(k)) \in Nat
    BY <1>2, EnsureTenantKeyType DEF TypeOK
  <1>4. QED
    BY <1>2, <1>3 DEF SealedEdge, EdgeRow

(* The key of a Supersedes edge is an edge key with its two endpoints.     *)
LEMMA SupersedesEdgeKey ==
    ASSUME NEW f \in Ids, NEW t \in Ids
    PROVE  /\ SupersedesEdge(f, t) \in EdgeKeys
           /\ SupersedesEdge(f, t)[1] = f
           /\ SupersedesEdge(f, t)[2] = t
  BY DEF SupersedesEdge, EdgeKeys, Kinds

(* apply_supersession leaves all three tables with their types.            *)
LEMMA ApplySupersessionType ==
    ASSUME TypeOK, NEW f \in Ids, NEW t \in Ids, NEW plane \in Planes,
           NEW by \in Keys, NEW at \in Time,
           ApplySupersession(f, t, plane, by, at)
    PROVE  TypeOK'
  <1> DEFINE k == SupersedesEdge(f, t)
             e == [state |-> "Confirmed", plane |-> plane, asserter |-> by]
             kr == EnsureTenantKey(keyring, EdgeTenant(k))
             row == nodes[t]
             retired == [status |-> "Superseded", validFrom |-> row.validFrom,
                         validTo |-> IF at > row.validFrom THEN at ELSE row.validFrom,
                         gen |-> SealGen(kr, RepoOf[t])]
  <1>1. k \in EdgeKeys
    BY SupersedesEdgeKey
  <1>2. /\ EdgeTenant(k) \in Repos
        /\ SealedEdge(k, e) \in EdgeRow
    BY <1>1, SealedEdgeType
  <1>3. /\ RepoOf[t] \in Repos
        /\ kr \in [Repos -> [gen : Nat, live : BOOLEAN]]
    BY <1>2, EnsureTenantKeyType, MemStoreAssumption DEF TypeOK
  <1>4. /\ EnsureTenantKey(kr, RepoOf[t]) \in [Repos -> [gen : Nat, live : BOOLEAN]]
        /\ SealGen(kr, RepoOf[t]) \in Nat
    BY <1>3, EnsureTenantKeyType
  <1>5. retired \in NodeRow
    BY <1>4 DEF TypeOK, NodeRow
  <1>6. /\ edges' = [edges EXCEPT ![k] = SealedEdge(k, e)]
        /\ IF row.status = "Active"
           THEN /\ nodes' = [nodes EXCEPT ![t] = retired]
                /\ keyring' = EnsureTenantKey(kr, RepoOf[t])
           ELSE /\ nodes' = nodes
                /\ keyring' = kr
    BY DEF ApplySupersession, WriteSupersession
  <1> HIDE DEF k, e, kr, row, retired
  <1>7. QED
    BY <1>1, <1>2, <1>3, <1>4, <1>5, <1>6 DEF TypeOK

(* add_edge leaves all three tables with their types.                      *)
LEMMA AddEdgeType ==
    ASSUME TypeOK, NEW k \in EdgeKeys,
           NEW e \in [state : {"Quarantined", "Confirmed"}, plane : Planes, asserter : Keys],
           AddEdge(k, e)
    PROVE  TypeOK'
  <1>1. EdgeTenant(k) \in Repos /\ SealedEdge(k, e) \in EdgeRow
    BY SealedEdgeType
  <1>2. EnsureTenantKey(keyring, EdgeTenant(k)) \in [Repos -> [gen : Nat, live : BOOLEAN]]
    BY <1>1, EnsureTenantKeyType DEF TypeOK
  <1>3. QED
    BY <1>1, <1>2 DEF AddEdge, TypeOK

(* Every row the store holds has its type, for every set of nodes, tenants *)
(* and edge kinds.                                                         *)
THEOREM TypeCorrect == Spec => []TypeOK
  <1>1. Init => TypeOK
    BY MemStoreAssumption, TimeFacts
    DEF Init, TypeOK, NodeRow, EdgeRow, EdgeKeys, Planes
  <1>2. TypeOK /\ [Next]_vars => TypeOK'
    <2> SUFFICES ASSUME TypeOK, [Next]_vars
                 PROVE  TypeOK'
      OBVIOUS
    <2>1. ASSUME NEW id \in Ids, NEW n \in PutRows, PutNode(id, n)
          PROVE  TypeOK'
      <3>1. RepoOf[id] \in Repos
        BY MemStoreAssumption
      <3>2. /\ EnsureTenantKey(keyring, RepoOf[id]) \in [Repos -> [gen : Nat, live : BOOLEAN]]
            /\ SealGen(keyring, RepoOf[id]) \in Nat
        BY <3>1, EnsureTenantKeyType DEF TypeOK
      <3>3. QED
        BY <2>1, <3>2, MemStoreAssumption DEF PutNode, TypeOK, NodeRow, NewNode
    <2>2. ASSUME NEW k \in EdgeKeys, NEW e \in NewEdge, AddEdge(k, e)
          PROVE  TypeOK'
      <3>1. e \in [state : {"Quarantined", "Confirmed"}, plane : Planes, asserter : Keys]
        BY MemStoreAssumption DEF NewEdge
      <3>2. QED
        BY <2>2, <3>1, AddEdgeType
    <2>3. ASSUME NEW f \in Ids, NEW t \in Ids, NEW plane \in CallerPlanes,
                 NEW by \in Keys, NEW at \in Time,
                 ApplySupersession(f, t, plane, by, at)
          PROVE  TypeOK'
      BY <2>3, ApplySupersessionType, MemStoreAssumption
    <2>4. ASSUME NEW k \in EdgeKeys, NEW now \in Time, ConfirmEdge(k, now)
          PROVE  TypeOK'
      <3>1. /\ edges[k].plane \in Planes /\ edges[k].asserter \in Keys
            /\ k[1] \in Ids /\ k[2] \in Ids
        BY DEF TypeOK, EdgeRow, EdgeKeys
      <3>2. CASE k[3] = "Supersedes"
        <4>1. ApplySupersession(k[1], k[2], edges[k].plane, edges[k].asserter, now)
          BY <2>4, <3>2 DEF ConfirmEdge
        <4>2. QED
          BY <3>1, <4>1, ApplySupersessionType
      <3>3. CASE k[3] # "Supersedes"
        <4>1. AddEdge(k, [state |-> "Confirmed", plane |-> edges[k].plane,
                          asserter |-> edges[k].asserter])
          BY <2>4, <3>3 DEF ConfirmEdge
        <4>2. QED
          BY <3>1, <4>1, AddEdgeType
      <3>4. QED
        BY <3>2, <3>3
    <2>5. ASSUME NEW id \in Ids, NEW now \in Time, ArchiveNode(id, now)
          PROVE  TypeOK'
      <3>1. RepoOf[id] \in Repos
        BY MemStoreAssumption
      <3>2. /\ EnsureTenantKey(keyring, RepoOf[id]) \in [Repos -> [gen : Nat, live : BOOLEAN]]
            /\ SealGen(keyring, RepoOf[id]) \in Nat
        BY <3>1, EnsureTenantKeyType DEF TypeOK
      <3>3. QED
        BY <2>5, <3>2 DEF ArchiveNode, TypeOK, NodeRow
    <2>6. ASSUME NEW r \in Repos, ShredTenant(r)
          PROVE  TypeOK'
      BY <2>6 DEF ShredTenant, TypeOK
    <2>7. CASE UNCHANGED vars
      BY <2>7 DEF vars, TypeOK
    <2>8. QED
      BY <2>1, <2>2, <2>3, <2>4, <2>5, <2>6, <2>7 DEF Next
  <1>3. QED
    BY <1>1, <1>2, PTL DEF Spec

-----------------------------------------------------------------------------
(* What a step may do to each table.                                       *)

FullEdge == [state : {"Quarantined", "Confirmed"}, plane : Planes, asserter : Keys]

(* A tenant's key is kept, minted in the next generation, or destroyed.    *)
KeyringStep ==
    \A r \in Repos :
        \/ keyring'[r] = keyring[r]
        \/ keyring'[r].gen = keyring[r].gen + 1 /\ ~keyring[r].live /\ keyring'[r].live
        \/ keyring'[r].gen = keyring[r].gen /\ ~keyring'[r].live

(* At most one edge is written, sealed, never demoting, and a Supersedes   *)
(* becomes load-bearing only past the guards of apply_supersession and     *)
(* with the retirement of its target.                                      *)
EdgeStep ==
    \/ edges' = edges
    \/ \E k \in EdgeKeys, e \in FullEdge :
         /\ edges' = [edges EXCEPT ![k] = SealedEdge(k, e)]
         /\ ~IsDemotingWrite(k, e)
         /\ SealGen(keyring, EdgeTenant(k)) <= keyring'[EdgeTenant(k)].gen
         /\ EncryptAtRest => keyring'[EdgeTenant(k)].live
         /\ EncryptAtRest => SealGen(keyring, EdgeTenant(k)) = keyring'[EdgeTenant(k)].gen
         /\ k[3] = "Supersedes" /\ e.state = "Confirmed" /\ ~LoadBearing(k)
              => MaySupersede(k[1], k[2], e.plane) /\ TargetRetired(k[2])

(* At most one node is written, under a key the ring has.                  *)
NodeStep ==
    \/ nodes' = nodes
    \/ \E id \in Ids, row \in NodeRow :
         /\ nodes' = [nodes EXCEPT ![id] = row]
         /\ row.gen <= keyring'[RepoOf[id]].gen

Keyrings == [Repos -> [gen : Nat, live : BOOLEAN]]

(* Sealing twice in a row mints at most one generation per tenant, and     *)
(* what was sealed first stays readable.                                   *)
LEMMA EnsureTwice ==
    ASSUME NEW kr \in Keyrings, NEW r \in Repos, NEW s \in Repos
    PROVE  LET kr1 == EnsureTenantKey(kr, r)
               kr2 == EnsureTenantKey(kr1, s)
           IN  /\ \A x \in Repos :
                    \/ kr2[x] = kr[x]
                    \/ kr2[x].gen = kr[x].gen + 1 /\ ~kr[x].live /\ kr2[x].live
               /\ SealGen(kr, r) <= kr2[r].gen
               /\ SealGen(kr, r) <= kr1[r].gen
               /\ SealGen(kr1, s) <= kr2[s].gen
               /\ EncryptAtRest => /\ kr1[r].live /\ SealGen(kr, r) = kr1[r].gen
                                    /\ kr2[r].live /\ SealGen(kr, r) = kr2[r].gen
  <1> USE MemStoreAssumption DEF EnsureTenantKey, SealGen, Keyrings
  <1>1. CASE ~EncryptAtRest
    BY <1>1
  <1>2. CASE EncryptAtRest
    BY <1>2
  <1>3. QED
    BY <1>1, <1>2

(* Sealing for one tenant mints at most one generation, for that tenant.   *)
LEMMA EnsureOnce ==
    ASSUME NEW kr \in Keyrings, NEW r \in Repos
    PROVE  LET kr1 == EnsureTenantKey(kr, r)
           IN  /\ \A x \in Repos :
                    \/ kr1[x] = kr[x]
                    \/ kr1[x].gen = kr[x].gen + 1 /\ ~kr[x].live /\ kr1[x].live
               /\ SealGen(kr, r) <= kr1[r].gen
               /\ EncryptAtRest => kr1[r].live /\ SealGen(kr, r) = kr1[r].gen
  BY MemStoreAssumption DEF EnsureTenantKey, SealGen, Keyrings

(* add_edge changes the keyring, the nodes and the edges in the three      *)
(* shapes KeyringStep, NodeStep and EdgeStep.                              *)
LEMMA AddEdgeStep ==
    ASSUME TypeOK, NEW k \in EdgeKeys, NEW e \in FullEdge,
           AddEdge(k, e), k[3] = "Supersedes" => e.state = "Quarantined" \/ LoadBearing(k)
    PROVE  KeyringStep /\ EdgeStep /\ NodeStep
  <1>1. EdgeTenant(k) \in Repos
    BY SealedEdgeType DEF FullEdge
  <1>2. keyring \in Keyrings
    BY DEF TypeOK, Keyrings
  <1>3. KeyringStep
    BY <1>1, <1>2, EnsureOnce DEF AddEdge, KeyringStep
  <1>4. EdgeStep
    <2>1. /\ SealGen(keyring, EdgeTenant(k)) <= keyring'[EdgeTenant(k)].gen
          /\ EncryptAtRest => keyring'[EdgeTenant(k)].live
          /\ EncryptAtRest => SealGen(keyring, EdgeTenant(k)) = keyring'[EdgeTenant(k)].gen
      BY <1>1, <1>2, EnsureOnce DEF AddEdge
    <2>2. QED
      BY <2>1 DEF AddEdge, EdgeStep, FullEdge
  <1>5. QED
    BY <1>3, <1>4 DEF NodeStep, AddEdge

(* The batch of apply_supersession retires its target, which stays         *)
(* readable although its tenant's key may have been minted for the edge.   *)
LEMMA SupersessionRetiresTarget ==
    ASSUME TypeOK, NEW f \in Ids, NEW t \in Ids, NEW plane \in Planes,
           NEW by \in Keys, NEW at \in Time,
           ApplySupersession(f, t, plane, by, at)
    PROVE  TargetRetired(t)
  <1> DEFINE k == SupersedesEdge(f, t)
             kr == EnsureTenantKey(keyring, EdgeTenant(k))
             kr2 == EnsureTenantKey(kr, RepoOf[t])
             row == nodes[t]
             retired == [status |-> "Superseded", validFrom |-> row.validFrom,
                         validTo |-> IF at > row.validFrom THEN at ELSE row.validFrom,
                         gen |-> SealGen(kr, RepoOf[t])]
  <1>1. EdgeTenant(k) \in Repos /\ RepoOf[t] \in Repos /\ keyring \in Keyrings
    BY SupersedesEdgeKey, MemStoreAssumption DEF TypeOK, Keyrings, EdgeTenant
  <1>2. kr \in Keyrings
    BY <1>1, EnsureTenantKeyType DEF Keyrings
  <1>3. /\ NodeVisible(t)
        /\ \/ row.status = "Active" /\ nodes' = [nodes EXCEPT ![t] = retired] /\ keyring' = kr2
           \/ row.status # "Active" /\ nodes' = nodes /\ keyring' = kr
    BY DEF ApplySupersession, WriteSupersession, MaySupersede
  <1>4. /\ retired.status = "Superseded" /\ retired.validFrom = row.validFrom
        /\ retired.validTo \in Time /\ retired.validFrom <= retired.validTo
        /\ retired.gen = SealGen(kr, RepoOf[t])
    <2>1. row.validFrom \in Time /\ row.validFrom \in Nat /\ at \in Nat
      BY TimeFacts DEF TypeOK, NodeRow
    <2>2. QED
      BY <2>1
  <1>5. CASE row.status = "Active" /\ nodes' = [nodes EXCEPT ![t] = retired] /\ keyring' = kr2
    <2>1. EncryptAtRest => kr2[RepoOf[t]].live /\ SealGen(kr, RepoOf[t]) = kr2[RepoOf[t]].gen
      BY <1>1, <1>2, EnsureOnce
    <2>2. ~EncryptAtRest => SealGen(kr, RepoOf[t]) = 0
      BY DEF SealGen
    <2> HIDE DEF kr, kr2, retired
    <2>3. nodes'[t] = retired /\ \A n \in Ids \ {t} : nodes'[n] = nodes[n]
      BY <1>5 DEF TypeOK
    <2>4. NodeVisible(t)'
      BY <1>4, <1>5, <2>1, <2>2, <2>3, MemStoreAssumption DEF NodeVisible, HasNode, Readable
    <2>5. QED
      BY <1>4, <1>5, <2>3, <2>4 DEF TargetRetired
  <1>6. CASE row.status # "Active" /\ nodes' = nodes /\ keyring' = kr
    <2>1. keyring[RepoOf[t]].live => kr[RepoOf[t]] = keyring[RepoOf[t]]
      BY <1>1, EnsureOnce
    <2> HIDE DEF kr
    <2>2. NodeVisible(t)'
      BY <1>3, <1>6, <2>1 DEF NodeVisible, HasNode, Readable
    <2>3. QED
      BY <1>6, <2>2 DEF TargetRetired
  <1>7. QED
    BY <1>3, <1>5, <1>6

(* apply_supersession does so too, though it may seal for two tenants.     *)
LEMMA ApplySupersessionStep ==
    ASSUME TypeOK, NEW f \in Ids, NEW t \in Ids, NEW plane \in Planes,
           NEW by \in Keys, NEW at \in Time,
           ApplySupersession(f, t, plane, by, at)
    PROVE  KeyringStep /\ EdgeStep /\ NodeStep
  <1> DEFINE k == SupersedesEdge(f, t)
             e == [state |-> "Confirmed", plane |-> plane, asserter |-> by]
             kr == EnsureTenantKey(keyring, EdgeTenant(k))
             kr2 == EnsureTenantKey(kr, RepoOf[t])
             row == nodes[t]
             retired == [status |-> "Superseded", validFrom |-> row.validFrom,
                         validTo |-> IF at > row.validFrom THEN at ELSE row.validFrom,
                         gen |-> SealGen(kr, RepoOf[t])]
  <1>1. k \in EdgeKeys /\ k[1] = f /\ k[2] = t /\ e \in FullEdge
    BY SupersedesEdgeKey DEF FullEdge
  <1>2. EdgeTenant(k) \in Repos /\ RepoOf[t] \in Repos /\ keyring \in Keyrings
    BY <1>1, SealedEdgeType, MemStoreAssumption DEF TypeOK, Keyrings, FullEdge
  <1>3. /\ \A x \in Repos :
             \/ kr2[x] = keyring[x]
             \/ kr2[x].gen = keyring[x].gen + 1 /\ ~keyring[x].live /\ kr2[x].live
        /\ SealGen(keyring, EdgeTenant(k)) <= kr2[EdgeTenant(k)].gen
        /\ SealGen(keyring, EdgeTenant(k)) <= kr[EdgeTenant(k)].gen
        /\ SealGen(kr, RepoOf[t]) <= kr2[RepoOf[t]].gen
        /\ EncryptAtRest => /\ kr[EdgeTenant(k)].live
                             /\ SealGen(keyring, EdgeTenant(k)) = kr[EdgeTenant(k)].gen
                             /\ kr2[EdgeTenant(k)].live
                             /\ SealGen(keyring, EdgeTenant(k)) = kr2[EdgeTenant(k)].gen
    BY <1>2, EnsureTwice
  <1>4. /\ \A x \in Repos :
             \/ kr[x] = keyring[x]
             \/ kr[x].gen = keyring[x].gen + 1 /\ ~keyring[x].live /\ kr[x].live
    BY <1>2, EnsureOnce
  <1>5. /\ MaySupersede(f, t, plane)
        /\ edges' = [edges EXCEPT ![k] = SealedEdge(k, e)]
        /\ \/ nodes' = [nodes EXCEPT ![t] = retired] /\ keyring' = kr2
           \/ nodes' = nodes /\ keyring' = kr
    BY DEF ApplySupersession, WriteSupersession
  <1>6. /\ retired \in NodeRow
        /\ retired.gen = SealGen(kr, RepoOf[t])
    <2>1. row.validFrom \in Time /\ row.validFrom \in Nat /\ at \in Nat
      BY TimeFacts DEF TypeOK, NodeRow
    <2>2. SealGen(kr, RepoOf[t]) \in Nat
      BY <1>2, EnsureTenantKeyType DEF Keyrings
    <2>3. QED
      BY <2>1, <2>2 DEF NodeRow
  <1>7. k[3] = "Supersedes" /\ e.state = "Confirmed" /\ e.plane = plane
    BY DEF SupersedesEdge
  <1> HIDE DEF e, kr, kr2, row, retired
  <1>8. KeyringStep
    BY <1>3, <1>4, <1>5 DEF KeyringStep
  <1>12. TargetRetired(t)
    BY SupersessionRetiresTarget
  <1>9. EdgeStep
    <2>1. ~IsDemotingWrite(k, e)
      BY <1>7 DEF IsDemotingWrite
    <2>2. /\ SealGen(keyring, EdgeTenant(k)) <= keyring'[EdgeTenant(k)].gen
          /\ EncryptAtRest => keyring'[EdgeTenant(k)].live
          /\ EncryptAtRest => SealGen(keyring, EdgeTenant(k)) = keyring'[EdgeTenant(k)].gen
      BY <1>3, <1>5
    <2>3. MaySupersede(k[1], k[2], e.plane) /\ TargetRetired(k[2])
      BY <1>1, <1>5, <1>7, <1>12
    <2>4. QED
      BY <1>1, <1>5, <2>1, <2>2, <2>3 DEF EdgeStep
  <1>10. NodeStep
    <2>1. CASE nodes' = nodes
      BY <2>1 DEF NodeStep
    <2>2. CASE nodes' = [nodes EXCEPT ![t] = retired] /\ keyring' = kr2
      <3>1. retired.gen <= keyring'[RepoOf[t]].gen
        BY <1>3, <1>6, <2>2
      <3>2. QED
        BY <1>6, <2>2, <3>1 DEF NodeStep
    <2>3. QED
      BY <1>5, <2>1, <2>2
  <1>11. QED
    BY <1>8, <1>9, <1>10

(* Every step of the store has the three shapes above.                     *)
LEMMA StepShape ==
    ASSUME TypeOK, Next
    PROVE  KeyringStep /\ EdgeStep /\ NodeStep
  <1>0. keyring \in Keyrings
    BY DEF TypeOK, Keyrings
  <1>1. ASSUME NEW id \in Ids, NEW n \in PutRows, PutNode(id, n)
        PROVE  KeyringStep /\ EdgeStep /\ NodeStep
    <2> DEFINE row == [status |-> n.status, validFrom |-> n.validFrom, validTo |-> n.validTo,
                       gen |-> SealGen(keyring, RepoOf[id])]
    <2>1. RepoOf[id] \in Repos
      BY MemStoreAssumption
    <2>2. row \in NodeRow
      BY <2>1, EnsureTenantKeyType, MemStoreAssumption DEF TypeOK, NodeRow, NewNode
    <2>3. KeyringStep
      BY <1>0, <1>1, <2>1, EnsureOnce DEF PutNode, KeyringStep
    <2>4. row.gen <= keyring'[RepoOf[id]].gen
      BY <1>0, <1>1, <2>1, EnsureOnce DEF PutNode
    <2>5. nodes' = [nodes EXCEPT ![id] = row] /\ edges' = edges
      BY <1>1 DEF PutNode
    <2> HIDE DEF row
    <2>6. QED
      BY <2>2, <2>3, <2>4, <2>5 DEF EdgeStep, NodeStep
  <1>2. ASSUME NEW k \in EdgeKeys, NEW e \in NewEdge, CallerEdge(k, e), AddEdge(k, e)
        PROVE  KeyringStep /\ EdgeStep /\ NodeStep
    <2>1. e \in FullEdge
      BY MemStoreAssumption DEF NewEdge, FullEdge
    <2>2. QED
      BY <1>2, <2>1, AddEdgeStep DEF CallerEdge
  <1>3. ASSUME NEW f \in Ids, NEW t \in Ids, NEW plane \in CallerPlanes,
               NEW by \in Keys, NEW at \in Time,
               ApplySupersession(f, t, plane, by, at)
        PROVE  KeyringStep /\ EdgeStep /\ NodeStep
    BY <1>3, ApplySupersessionStep, MemStoreAssumption
  <1>4. ASSUME NEW k \in EdgeKeys, NEW now \in Time, ConfirmEdge(k, now)
        PROVE  KeyringStep /\ EdgeStep /\ NodeStep
    <2>1. /\ edges[k].plane \in Planes /\ edges[k].asserter \in Keys
          /\ k[1] \in Ids /\ k[2] \in Ids
      BY DEF TypeOK, EdgeRow, EdgeKeys
    <2>2. CASE k[3] = "Supersedes"
      <3>1. ApplySupersession(k[1], k[2], edges[k].plane, edges[k].asserter, now)
        BY <1>4, <2>2 DEF ConfirmEdge
      <3>2. QED
        BY <2>1, <3>1, ApplySupersessionStep
    <2>3. CASE k[3] # "Supersedes"
      <3> DEFINE e == [state |-> "Confirmed", plane |-> edges[k].plane,
                       asserter |-> edges[k].asserter]
      <3>1. AddEdge(k, e)
        BY <1>4, <2>3 DEF ConfirmEdge
      <3>2. e \in FullEdge
        BY <2>1 DEF FullEdge
      <3> HIDE DEF e
      <3>3. QED
        BY <2>3, <3>1, <3>2, AddEdgeStep
    <2>4. QED
      BY <2>2, <2>3
  <1>5. ASSUME NEW id \in Ids, NEW now \in Time, ArchiveNode(id, now)
        PROVE  KeyringStep /\ EdgeStep /\ NodeStep
    <2> DEFINE row == [status |-> "Archived", validFrom |-> nodes[id].validFrom,
                       validTo |-> now, gen |-> SealGen(keyring, RepoOf[id])]
    <2>1. RepoOf[id] \in Repos
      BY MemStoreAssumption
    <2>2. row \in NodeRow
      BY <2>1, EnsureTenantKeyType DEF TypeOK, NodeRow
    <2>3. KeyringStep
      BY <1>0, <1>5, <2>1, EnsureOnce DEF ArchiveNode, KeyringStep
    <2>4. row.gen <= keyring'[RepoOf[id]].gen
      BY <1>0, <1>5, <2>1, EnsureOnce DEF ArchiveNode
    <2>5. nodes' = [nodes EXCEPT ![id] = row] /\ edges' = edges
      BY <1>5 DEF ArchiveNode
    <2> HIDE DEF row
    <2>6. QED
      BY <2>2, <2>3, <2>4, <2>5 DEF EdgeStep, NodeStep
  <1>6. ASSUME NEW r \in Repos, ShredTenant(r)
        PROVE  KeyringStep /\ EdgeStep /\ NodeStep
    BY <1>6 DEF ShredTenant, KeyringStep, EdgeStep, NodeStep, TypeOK
  <1>7. QED
    BY <1>1, <1>2, <1>3, <1>4, <1>5, <1>6 DEF Next

-----------------------------------------------------------------------------
(* Forgetting.                                                             *)

(* No row was sealed under a generation the keyring has not reached.       *)
GenBounded ==
    /\ \A id \in Ids : nodes[id].gen <= keyring[RepoOf[id]].gen
    /\ \A k \in EdgeKeys : edges[k].gen <= keyring[edges[k].repo].gen

(* A tenant's generation counter never goes down.                          *)
LEMMA GensGrow ==
    ASSUME TypeOK, TypeOK', KeyringStep, NEW r \in Repos
    PROVE  keyring[r].gen <= keyring'[r].gen
  BY DEF TypeOK, KeyringStep

(* GenBounded is inductive.                                                *)
LEMMA GenBoundedStep ==
    ASSUME TypeOK, TypeOK', GenBounded, Next
    PROVE  GenBounded'
  <1>1. KeyringStep /\ EdgeStep /\ NodeStep
    BY StepShape
  <1>2. ASSUME NEW id \in Ids PROVE nodes'[id].gen <= keyring'[RepoOf[id]].gen
    <2>1. keyring[RepoOf[id]].gen <= keyring'[RepoOf[id]].gen /\ RepoOf[id] \in Repos
      BY <1>1, GensGrow, MemStoreAssumption
    <2>2. nodes[id].gen <= keyring[RepoOf[id]].gen
      BY DEF GenBounded
    <2>3. /\ nodes[id].gen \in Nat
          /\ keyring[RepoOf[id]].gen \in Nat /\ keyring'[RepoOf[id]].gen \in Nat
      BY <2>1 DEF TypeOK, NodeRow
    <2>4. CASE nodes' = nodes
      BY <2>1, <2>2, <2>3, <2>4
    <2>5. CASE \E x \in Ids, row \in NodeRow :
                 nodes' = [nodes EXCEPT ![x] = row] /\ row.gen <= keyring'[RepoOf[x]].gen
      BY <2>1, <2>2, <2>3, <2>5 DEF TypeOK
    <2>6. QED
      BY <1>1, <2>4, <2>5 DEF NodeStep
  <1>3. ASSUME NEW k \in EdgeKeys PROVE edges'[k].gen <= keyring'[edges'[k].repo].gen
    <2>1. CASE edges'[k] = edges[k]
      <3>1. edges[k].repo \in Repos /\ edges[k].gen \in Nat
        BY DEF TypeOK, EdgeRow
      <3>2. keyring[edges[k].repo].gen <= keyring'[edges[k].repo].gen
        BY <1>1, <3>1, GensGrow
      <3>3. /\ keyring[edges[k].repo].gen \in Nat
            /\ keyring'[edges[k].repo].gen \in Nat
            /\ edges[k].gen <= keyring[edges[k].repo].gen
        BY <3>1 DEF TypeOK, GenBounded
      <3>4. QED
        BY <2>1, <3>1, <3>2, <3>3
    <2>2. CASE edges'[k] # edges[k]
      <3>1. PICK x \in EdgeKeys, e \in FullEdge :
              /\ edges' = [edges EXCEPT ![x] = SealedEdge(x, e)]
              /\ SealGen(keyring, EdgeTenant(x)) <= keyring'[EdgeTenant(x)].gen
        BY <1>1, <2>2 DEF EdgeStep
      <3>2. edges'[k] = SealedEdge(k, e) /\ k = x
        BY <2>2, <3>1 DEF TypeOK
      <3>3. QED
        BY <3>1, <3>2 DEF SealedEdge
    <2>3. QED
      BY <2>1, <2>2
  <1>4. QED
    BY <1>2, <1>3 DEF GenBounded

(* A step never makes an unreadable generation readable.                   *)
LEMMA NoReopening ==
    ASSUME TypeOK, TypeOK', KeyringStep, NEW r \in Repos, NEW g \in Nat,
           g <= keyring[r].gen, ~Readable(r, g)
    PROVE  ~Readable(r, g)'
  BY DEF TypeOK, KeyringStep, Readable

(* The generations in use never run ahead of the keyring's counter.        *)
THEOREM GenerationsBounded == Spec => []GenBounded
  <1>1. Init => GenBounded
    BY MemStoreAssumption DEF Init, GenBounded, EdgeKeys
  <1>2. TypeOK /\ TypeOK' /\ GenBounded /\ [Next]_vars => GenBounded'
    <2>1. ASSUME GenBounded, UNCHANGED vars PROVE GenBounded'
      BY <2>1 DEF vars, GenBounded
    <2>2. QED
      BY <2>1, GenBoundedStep
  <1>3. QED
    BY <1>1, <1>2, TypeCorrect, PTL DEF Spec

(* One step keeps what is forgotten forgotten.                             *)
LEMMA ForgottenStep ==
    ASSUME TypeOK, TypeOK', GenBounded, [Next]_vars
    PROVE  /\ \A id \in Ids : nodes'[id] = nodes[id] /\ ~NodeVisible(id) => ~NodeVisible(id)'
           /\ \A k \in EdgeKeys : edges'[k] = edges[k] /\ ~EdgeVisible(k) => ~EdgeVisible(k)'
  <1>1. CASE UNCHANGED vars
    BY <1>1 DEF vars, NodeVisible, EdgeVisible, HasNode, Readable
  <1>2. CASE Next
    <2>1. KeyringStep
      BY <1>2, StepShape
    <2>2. ASSUME NEW id \in Ids, nodes'[id] = nodes[id], ~NodeVisible(id)
          PROVE  ~NodeVisible(id)'
      <3>1. /\ RepoOf[id] \in Repos /\ nodes[id].gen \in Nat
            /\ nodes[id].gen <= keyring[RepoOf[id]].gen
        BY MemStoreAssumption DEF TypeOK, NodeRow, GenBounded
      <3>2. ~Readable(RepoOf[id], nodes[id].gen) => ~Readable(RepoOf[id], nodes[id].gen)'
        BY <2>1, <2>2, <3>1, NoReopening DEF Readable
      <3>3. QED
        BY <2>2, <3>2 DEF NodeVisible, HasNode, Readable
    <2>3. ASSUME NEW k \in EdgeKeys, edges'[k] = edges[k], ~EdgeVisible(k)
          PROVE  ~EdgeVisible(k)'
      <3>1. /\ edges[k].repo \in Repos /\ edges[k].gen \in Nat
            /\ edges[k].gen <= keyring[edges[k].repo].gen
        BY DEF TypeOK, EdgeRow, GenBounded
      <3>2. ~Readable(edges[k].repo, edges[k].gen) => ~Readable(edges[k].repo, edges[k].gen)'
        BY <2>1, <2>3, <3>1, NoReopening DEF Readable
      <3>3. QED
        BY <2>3, <3>2 DEF EdgeVisible, Readable
    <2>4. QED
      BY <2>2, <2>3
  <1>3. QED
    BY <1>1, <1>2

(* Crypto-shredding is for good: no step, and in particular no re-minting  *)
(* of the tenant's key, makes a forgotten row readable without writing it. *)
THEOREM ShredIsForGood == Spec => ForgottenStaysForgotten
  <1>1. TypeOK /\ TypeOK' /\ GenBounded /\ [Next]_vars
        => [/\ \A id \in Ids : nodes'[id] = nodes[id] /\ ~NodeVisible(id) => ~NodeVisible(id)'
            /\ \A k \in EdgeKeys : edges'[k] = edges[k] /\ ~EdgeVisible(k) => ~EdgeVisible(k)'
           ]_vars
    BY ForgottenStep
  <1>2. QED
    BY <1>1, TypeCorrect, GenerationsBounded, PTL DEF Spec, ForgottenStaysForgotten

(* One step leaves a load-bearing edge confirmed.                          *)
LEMMA NeverDemotedStep ==
    ASSUME TypeOK, Next, NEW k \in EdgeKeys, LoadBearing(k)
    PROVE  edges'[k].state = "Confirmed"
  <1>1. CASE edges' = edges
    BY <1>1 DEF LoadBearing
  <1>2. CASE edges' # edges
    <2>1. PICK x \in EdgeKeys, e \in FullEdge :
            edges' = [edges EXCEPT ![x] = SealedEdge(x, e)] /\ ~IsDemotingWrite(x, e)
      BY <1>2, StepShape DEF EdgeStep
    <2>2. CASE k = x
      <3>1. e.state = "Confirmed"
        BY <2>1, <2>2 DEF IsDemotingWrite, FullEdge
      <3>2. edges'[k] = SealedEdge(x, e)
        BY <2>1, <2>2 DEF TypeOK
      <3>3. QED
        BY <3>1, <3>2 DEF SealedEdge
    <2>3. CASE k # x
      BY <2>1, <2>3 DEF LoadBearing, TypeOK
    <2>4. QED
      BY <2>2, <2>3
  <1>3. QED
    BY <1>1, <1>2

(* A load-bearing edge is never demoted, whoever writes what.              *)
THEOREM LoadBearingIsStable == Spec => NeverDemoted
  <1>1. TypeOK /\ [Next]_vars
        => [\A k \in EdgeKeys : LoadBearing(k) => edges'[k].state = "Confirmed"]_vars
    BY NeverDemotedStep
  <1>2. QED
    BY <1>1, TypeCorrect, PTL DEF Spec, NeverDemoted

-----------------------------------------------------------------------------
(* The supersession graph.                                                 *)

(* Fewer hops make no new cycle.                                           *)
LEMMA SubgraphAcyclic ==
    ASSUME NEW wide, NEW hops \in SUBSET wide, AcyclicGraph(wide)
    PROVE  AcyclicGraph(hops)
  BY DEF AcyclicGraph

(* A hop f -> t closes no cycle when f cannot be reached from t, even when *)
(* the search may follow more hops than the graph has.                     *)
LEMMA AddHop ==
    ASSUME NEW wide \in SUBSET (Ids \X Ids), NEW hops \in SUBSET wide,
           AcyclicGraph(hops),
           NEW f \in Ids, NEW t \in Ids, f \notin ReachableVia(t, wide)
    PROVE  AcyclicGraph(hops \cup {<<f, t>>})
  <1> SUFFICES ASSUME NEW S \in (SUBSET Ids) \ {{}},
                      \A n \in S : \E m \in S : <<n, m>> \in hops \cup {<<f, t>>}
               PROVE  FALSE
    BY DEF AcyclicGraph
  <1>1. PICK C \in SUBSET Ids : t \in C /\ Closed(C, wide) /\ f \notin C
    BY DEF ReachableVia
  <1>2. PICK n \in S : \A m \in S : <<n, m>> \notin hops
    BY DEF AcyclicGraph
  <1>3. n = f /\ t \in S
    BY <1>2
  <1>4. S \cap C \in (SUBSET Ids) \ {{}}
    BY <1>1, <1>3
  <1>5. PICK x \in S \cap C : \A y \in S \cap C : <<x, y>> \notin hops
    BY <1>4 DEF AcyclicGraph
  <1>6. x # f
    BY <1>1, <1>5
  <1>7. PICK y \in S : <<x, y>> \in hops
    BY <1>5, <1>6
  <1>8. y \in C
    BY <1>1, <1>5, <1>7 DEF Closed
  <1>9. QED
    BY <1>5, <1>7, <1>8

(* A step changes the load-bearing supersessions by adding, at most, one   *)
(* that passed the guards; it may also lose some to shredding.             *)
LEMMA SupersedesGrowth ==
    ASSUME TypeOK, TypeOK', GenBounded, Next
    PROVE  \/ LoadBearingSupersedes' \subseteq LoadBearingSupersedes
           \/ \E f, t \in Ids :
                /\ ~WouldCycleSupersedes(f, t)
                /\ LoadBearingSupersedes' \subseteq LoadBearingSupersedes \cup {<<f, t>>}
  <1> DEFINE LB(p) == LoadBearing(SupersedesEdge(p[1], p[2]))
  <1>1. \A k \in EdgeKeys : edges'[k] = edges[k] /\ ~EdgeVisible(k) => ~EdgeVisible(k)'
    BY ForgottenStep
  <1>2. ASSUME NEW p \in Ids \X Ids,
               edges'[SupersedesEdge(p[1], p[2])] = edges[SupersedesEdge(p[1], p[2])],
               LB(p)'
        PROVE  LB(p)
    BY <1>1, <1>2, SupersedesEdgeKey DEF LoadBearing
  <1>3. CASE edges' = edges
    BY <1>2, <1>3 DEF LoadBearingSupersedes
  <1>4. CASE edges' # edges
    <2>1. PICK k \in EdgeKeys, e \in FullEdge :
            /\ edges' = [edges EXCEPT ![k] = SealedEdge(k, e)]
            /\ k[3] = "Supersedes" /\ e.state = "Confirmed" /\ ~LoadBearing(k)
                 => MaySupersede(k[1], k[2], e.plane)
      BY <1>4, StepShape DEF EdgeStep
    <2>2. edges'[k].state = e.state
      BY <2>1 DEF TypeOK, SealedEdge
    <2>3. \A x \in EdgeKeys : x # k => edges'[x] = edges[x]
      BY <2>1 DEF TypeOK
    <2>4. CASE k[3] = "Supersedes" /\ e.state = "Confirmed" /\ ~LoadBearing(k)
      <3>1. /\ k[1] \in Ids /\ k[2] \in Ids /\ k = SupersedesEdge(k[1], k[2])
            /\ ~WouldCycleSupersedes(k[1], k[2])
        BY <2>1, <2>4 DEF EdgeKeys, SupersedesEdge, MaySupersede
      <3>2. ASSUME NEW p \in LoadBearingSupersedes', p # <<k[1], k[2]>>
            PROVE  p \in LoadBearingSupersedes
        <4>1. p \in Ids \X Ids /\ LB(p)'
          BY <3>2 DEF LoadBearingSupersedes
        <4>2. SupersedesEdge(p[1], p[2]) # k
          BY <3>2, <4>1 DEF SupersedesEdge
        <4>3. LB(p)
          BY <1>2, <2>3, <4>1, <4>2, SupersedesEdgeKey
        <4>4. QED
          BY <4>1, <4>3 DEF LoadBearingSupersedes
      <3>3. QED
        BY <3>1, <3>2
    <2>5. CASE ~(k[3] = "Supersedes" /\ e.state = "Confirmed")
      <3>1. ASSUME NEW p \in LoadBearingSupersedes'
            PROVE  p \in LoadBearingSupersedes
        <4>1. p \in Ids \X Ids /\ LB(p)'
          BY <3>1 DEF LoadBearingSupersedes
        <4>2. SupersedesEdge(p[1], p[2]) # k
          BY <2>2, <2>5, <4>1 DEF SupersedesEdge, LoadBearing
        <4>3. LB(p)
          BY <1>2, <2>3, <4>1, <4>2, SupersedesEdgeKey
        <4>4. QED
          BY <4>1, <4>3 DEF LoadBearingSupersedes
      <3>2. QED
        BY <3>1
    <2>6. CASE k[3] = "Supersedes" /\ e.state = "Confirmed" /\ LoadBearing(k)
      <3>1. ASSUME NEW p \in LoadBearingSupersedes'
            PROVE  p \in LoadBearingSupersedes
        <4>1. p \in Ids \X Ids /\ LB(p)'
          BY <3>1 DEF LoadBearingSupersedes
        <4>2. CASE SupersedesEdge(p[1], p[2]) = k
          BY <2>6, <4>1, <4>2 DEF LoadBearingSupersedes
        <4>3. CASE SupersedesEdge(p[1], p[2]) # k
          BY <1>2, <2>3, <4>1, <4>3, SupersedesEdgeKey DEF LoadBearingSupersedes
        <4>4. QED
          BY <4>2, <4>3
      <3>2. QED
        BY <3>1
    <2>7. QED
      BY <2>4, <2>5, <2>6
  <1>5. QED
    BY <1>3, <1>4

(* The load-bearing supersessions are acyclic for every set of nodes, with *)
(* proposals, confirmations and shredding in any order.                    *)
THEOREM SupersessionsFormADag == Spec => []SupersessionAcyclic
  <1>1. Init => SupersessionAcyclic
    <2> SUFFICES ASSUME Init PROVE LoadBearingSupersedes = {}
      BY DEF SupersessionAcyclic, AcyclicGraph
    <2>1. ASSUME NEW f \in Ids, NEW t \in Ids PROVE ~LoadBearing(SupersedesEdge(f, t))
      BY SupersedesEdgeKey DEF Init, LoadBearing
    <2>2. QED
      BY <2>1 DEF LoadBearingSupersedes
  <1>2. TypeOK /\ TypeOK' /\ GenBounded /\ SupersessionAcyclic /\ [Next]_vars
        => SupersessionAcyclic'
    <2> SUFFICES ASSUME TypeOK, TypeOK', GenBounded, SupersessionAcyclic, [Next]_vars
                 PROVE  AcyclicGraph(LoadBearingSupersedes')
      BY DEF SupersessionAcyclic, AcyclicGraph
    <2>1. CASE UNCHANGED vars
      <3>1. LoadBearingSupersedes' = LoadBearingSupersedes
        BY <2>1 DEF vars, LoadBearingSupersedes, LoadBearing, EdgeVisible, Readable
      <3>2. QED
        BY <3>1 DEF SupersessionAcyclic
    <2>2. CASE LoadBearingSupersedes' \subseteq LoadBearingSupersedes
      BY <2>2, SubgraphAcyclic DEF SupersessionAcyclic
    <2>3. ASSUME NEW f \in Ids, NEW t \in Ids, ~WouldCycleSupersedes(f, t),
                 LoadBearingSupersedes' \subseteq LoadBearingSupersedes \cup {<<f, t>>}
          PROVE  AcyclicGraph(LoadBearingSupersedes')
      <3>1. LoadBearingSupersedes \subseteq SupersedesHops
        BY DEF LoadBearingSupersedes, SupersedesHops, LoadBearing
      <3>2. SupersedesHops \in SUBSET (Ids \X Ids)
        BY DEF SupersedesHops
      <3>3. AcyclicGraph(LoadBearingSupersedes \cup {<<f, t>>})
        BY <2>3, <3>1, <3>2, AddHop DEF WouldCycleSupersedes, SupersessionAcyclic
      <3>4. QED
        BY <2>3, <3>3, SubgraphAcyclic
    <2>4. QED
      BY <2>1, <2>2, <2>3, SupersedesGrowth
  <1>3. QED
    BY <1>1, <1>2, TypeCorrect, GenerationsBounded, PTL DEF Spec

(* A Supersedes edge that becomes load-bearing passed the guards, and its  *)
(* target is retired by the same step.                                     *)
LEMMA NewSupersession ==
    ASSUME TypeOK, TypeOK', GenBounded, Next, NEW f \in Ids, NEW t \in Ids,
           BecomesLoadBearing(f, t)
    PROVE  /\ MaySupersede(f, t, edges'[SupersedesEdge(f, t)].plane)
           /\ TargetRetired(t)
  <1> DEFINE x == SupersedesEdge(f, t)
  <1>1. x \in EdgeKeys /\ x[1] = f /\ x[2] = t /\ x[3] = "Supersedes"
    BY SupersedesEdgeKey DEF SupersedesEdge
  <1>2. LoadBearing(x)' /\ ~LoadBearing(x)
    BY DEF BecomesLoadBearing
  <1>3. edges'[x] # edges[x]
    BY <1>1, <1>2, ForgottenStep DEF LoadBearing
  <1>4. PICK k \in EdgeKeys, e \in FullEdge :
          /\ edges' = [edges EXCEPT ![k] = SealedEdge(k, e)]
          /\ k[3] = "Supersedes" /\ e.state = "Confirmed" /\ ~LoadBearing(k)
               => MaySupersede(k[1], k[2], e.plane) /\ TargetRetired(k[2])
    BY <1>3, StepShape DEF EdgeStep
  <1>5. x = k /\ edges'[x] = SealedEdge(k, e)
    BY <1>1, <1>3, <1>4 DEF TypeOK
  <1>6. e.state = "Confirmed" /\ e.plane = edges'[x].plane
    BY <1>2, <1>5 DEF SealedEdge, LoadBearing
  <1> HIDE DEF x
  <1>7. MaySupersede(x[1], x[2], edges'[x].plane) /\ TargetRetired(x[2])
    BY <1>1, <1>2, <1>4, <1>5, <1>6
  <1>8. QED
    BY <1>1, <1>7 DEF x

(* No claim of the Asserted plane becomes the supersession of a Derived    *)
(* node.                                                                   *)
THEOREM PlanesNeverMix == Spec => PlanesSeparate
  <1>1. TypeOK /\ TypeOK' /\ GenBounded /\ [Next]_vars
        => [\A f, t \in Ids :
              /\ BecomesLoadBearing(f, t)
              /\ edges'[SupersedesEdge(f, t)].plane = "Asserted"
              => PlaneOf[t] = "Asserted"]_vars
    <2> SUFFICES ASSUME TypeOK, TypeOK', GenBounded, Next,
                        NEW f \in Ids, NEW t \in Ids, BecomesLoadBearing(f, t),
                        edges'[SupersedesEdge(f, t)].plane = "Asserted"
                 PROVE  PlaneOf[t] = "Asserted"
      OBVIOUS
    <2>1. ~(edges'[SupersedesEdge(f, t)].plane = "Asserted" /\ PlaneOf[t] = "Derived")
      BY NewSupersession DEF MaySupersede
    <2>2. QED
      BY <2>1, MemStoreAssumption DEF Planes
  <1>2. QED
    BY <1>1, TypeCorrect, GenerationsBounded, PTL DEF Spec, PlanesSeparate

(* A supersession and the retirement of its target come in one step.       *)
THEOREM SupersessionsRetire == Spec => SupersessionRetires
  <1>1. TypeOK /\ TypeOK' /\ GenBounded /\ [Next]_vars
        => [\A f, t \in Ids : BecomesLoadBearing(f, t) => TargetRetired(t)]_vars
    BY NewSupersession
  <1>2. QED
    BY <1>1, TypeCorrect, GenerationsBounded, PTL DEF Spec, SupersessionRetires

-----------------------------------------------------------------------------
(* The sessions: the inductive invariant.                                  *)

(* A proposal that contests a node was written by the node's author, or is *)
(* signed by the principal who wrote it: whoever confirms it alone is      *)
(* compared with that signature, whether or not the record of the inserter *)
(* was written before a crash.                                             *)
ProposalInv ==
    \A k \in EdgeKeys :
        NeedsSecondParty(k[3]) /\ edges[k].state = "Quarantined" =>
            writer[k] = AuthorOf[k[2]] \/ writer[k] = edges[k].asserter

(* What the gate's holder has still to write is the last caller's, and it  *)
(* supersedes the caller's own nodes only.                                 *)
PendingInv ==
    /\ ~GateFree => pending.who = caller
    /\ \A e \in pending.supersede :
          e.key[3] = "Supersedes" /\ AuthorOf[e.key[2]] = pending.who

SessionsIInv ==
    SessionsTypeOK /\ GenBounded /\ SupersessionAcyclic /\ ProposalInv /\ PendingInv

-----------------------------------------------------------------------------
(* What a step may do to the rows.                                         *)

(* A row that is written is sealed under a generation the keyring has.     *)
RowStep ==
    /\ \A id \in Ids : nodes'[id] = nodes[id] \/ nodes'[id].gen <= keyring'[RepoOf[id]].gen
    /\ \A k \in EdgeKeys : edges'[k] = edges[k] \/ edges'[k].gen <= keyring'[edges'[k].repo].gen

(* Supersedes edges are written as proposals or where one is load-bearing  *)
(* already, except for at most one that closes no cycle.                   *)
HopStep ==
    \/ \A f, t \in Ids : LET k == SupersedesEdge(f, t)
                         IN  \/ edges'[k] = edges[k] \/ edges'[k].state = "Quarantined"
                             \/ LoadBearing(k)
    \/ \E f, t \in Ids :
          /\ ~WouldCycleSupersedes(f, t)
          /\ \A g, u \in Ids : <<g, u>> # <<f, t>> =>
                edges'[SupersedesEdge(g, u)] = edges[SupersedesEdge(g, u)]

(* Rows sealed under generations the keyring has stay so.                  *)
LEMMA GenBoundedKept ==
    ASSUME TypeOK, TypeOK', GenBounded, KeyringStep, RowStep
    PROVE  GenBounded'
  <1>1. ASSUME NEW id \in Ids PROVE nodes'[id].gen <= keyring'[RepoOf[id]].gen
    <2>1. keyring[RepoOf[id]].gen <= keyring'[RepoOf[id]].gen /\ RepoOf[id] \in Repos
      BY GensGrow, MemStoreAssumption
    <2>2. nodes[id].gen <= keyring[RepoOf[id]].gen
      BY DEF GenBounded
    <2>3. /\ nodes[id].gen \in Nat
          /\ keyring[RepoOf[id]].gen \in Nat /\ keyring'[RepoOf[id]].gen \in Nat
      BY <2>1 DEF TypeOK, NodeRow
    <2>. QED
      BY <2>1, <2>2, <2>3 DEF RowStep
  <1>2. ASSUME NEW k \in EdgeKeys PROVE edges'[k].gen <= keyring'[edges'[k].repo].gen
    <2>1. edges[k].repo \in Repos /\ edges[k].gen \in Nat
      BY DEF TypeOK, EdgeRow
    <2>2. keyring[edges[k].repo].gen <= keyring'[edges[k].repo].gen
      BY <2>1, GensGrow
    <2>3. /\ keyring[edges[k].repo].gen \in Nat
          /\ keyring'[edges[k].repo].gen \in Nat
          /\ edges[k].gen <= keyring[edges[k].repo].gen
      BY <2>1 DEF TypeOK, GenBounded
    <2>. QED
      BY <2>1, <2>2, <2>3 DEF RowStep
  <1>. QED
    BY <1>1, <1>2 DEF GenBounded

(* An edge that a step leaves alone becomes visible to nobody.             *)
LEMMA StaysInvisible ==
    ASSUME TypeOK, TypeOK', GenBounded, KeyringStep,
           NEW k \in EdgeKeys, edges'[k] = edges[k], EdgeVisible(k)'
    PROVE  EdgeVisible(k)
  <1>1. /\ edges[k].repo \in Repos /\ edges[k].gen \in Nat
        /\ edges[k].gen <= keyring[edges[k].repo].gen
    BY DEF TypeOK, EdgeRow, GenBounded
  <1>2. ~Readable(edges[k].repo, edges[k].gen) => ~Readable(edges[k].repo, edges[k].gen)'
    BY <1>1, NoReopening DEF Readable
  <1>. QED
    BY <1>2 DEF EdgeVisible, Readable

(* No step of that shape closes a cycle of load-bearing supersessions.     *)
LEMMA AcyclicKept ==
    ASSUME TypeOK, TypeOK', GenBounded, KeyringStep, HopStep, SupersessionAcyclic
    PROVE  SupersessionAcyclic'
  <1>1. ASSUME NEW p \in LoadBearingSupersedes',
               edges'[SupersedesEdge(p[1], p[2])] = edges[SupersedesEdge(p[1], p[2])]
        PROVE  p \in LoadBearingSupersedes
    <2>1. p \in Ids \X Ids /\ LoadBearing(SupersedesEdge(p[1], p[2]))'
      BY DEF LoadBearingSupersedes
    <2>2. SupersedesEdge(p[1], p[2]) \in EdgeKeys
      BY <2>1, SupersedesEdgeKey
    <2>3. EdgeVisible(SupersedesEdge(p[1], p[2]))
      BY <1>1, <2>1, <2>2, StaysInvisible DEF LoadBearing
    <2>. QED
      BY <1>1, <2>1, <2>3 DEF LoadBearingSupersedes, LoadBearing
  <1>2. SUFFICES AcyclicGraph(LoadBearingSupersedes')
    BY DEF SupersessionAcyclic, AcyclicGraph
  <1>3. CASE \A f, t \in Ids : LET k == SupersedesEdge(f, t)
                               IN  \/ edges'[k] = edges[k] \/ edges'[k].state = "Quarantined"
                                   \/ LoadBearing(k)
    <2>1. LoadBearingSupersedes' \subseteq LoadBearingSupersedes
      BY <1>1, <1>3 DEF LoadBearingSupersedes, LoadBearing
    <2>. QED
      BY <2>1, SubgraphAcyclic DEF SupersessionAcyclic
  <1>4. ASSUME NEW f \in Ids, NEW t \in Ids, ~WouldCycleSupersedes(f, t),
               \A g, u \in Ids : <<g, u>> # <<f, t>> =>
                  edges'[SupersedesEdge(g, u)] = edges[SupersedesEdge(g, u)]
        PROVE  AcyclicGraph(LoadBearingSupersedes')
    <2>1. LoadBearingSupersedes' \subseteq LoadBearingSupersedes \cup {<<f, t>>}
      <3> SUFFICES ASSUME NEW p \in LoadBearingSupersedes', p # <<f, t>>
                   PROVE  p \in LoadBearingSupersedes
        OBVIOUS
      <3>1. p \in Ids \X Ids
        BY DEF LoadBearingSupersedes
      <3>. QED
        BY <1>1, <1>4, <3>1
    <2>2. LoadBearingSupersedes \subseteq SupersedesHops
      BY DEF LoadBearingSupersedes, SupersedesHops, LoadBearing
    <2>3. SupersedesHops \in SUBSET (Ids \X Ids)
      BY DEF SupersedesHops
    <2>4. AcyclicGraph(LoadBearingSupersedes \cup {<<f, t>>})
      BY <1>4, <2>2, <2>3, AddHop DEF WouldCycleSupersedes, SupersessionAcyclic
    <2>. QED
      BY <2>1, <2>4, SubgraphAcyclic
  <1>. QED
    BY <1>3, <1>4 DEF HopStep

(* The steps of the store's own operations have that shape.                *)
LEMMA StoreStepShape ==
    ASSUME TypeOK, EdgeStep, NodeStep
    PROVE  RowStep /\ HopStep
  <1>1. \A id \in Ids : nodes'[id] = nodes[id] \/ nodes'[id].gen <= keyring'[RepoOf[id]].gen
    <2>1. CASE nodes' = nodes
      BY <2>1
    <2>2. CASE \E x \in Ids, row \in NodeRow :
                 nodes' = [nodes EXCEPT ![x] = row] /\ row.gen <= keyring'[RepoOf[x]].gen
      BY <2>2 DEF TypeOK
    <2>. QED
      BY <2>1, <2>2 DEF NodeStep
  <1>2. CASE edges' = edges
    BY <1>1, <1>2 DEF RowStep, HopStep
  <1>3. CASE edges' # edges
    <2>1. PICK k \in EdgeKeys, e \in FullEdge :
            /\ edges' = [edges EXCEPT ![k] = SealedEdge(k, e)]
            /\ SealGen(keyring, EdgeTenant(k)) <= keyring'[EdgeTenant(k)].gen
            /\ k[3] = "Supersedes" /\ e.state = "Confirmed" /\ ~LoadBearing(k)
                 => MaySupersede(k[1], k[2], e.plane)
      BY <1>3 DEF EdgeStep
    <2>2. /\ edges'[k].state = e.state /\ edges'[k].repo = EdgeTenant(k)
          /\ edges'[k].gen = SealGen(keyring, EdgeTenant(k))
          /\ \A x \in EdgeKeys : x # k => edges'[x] = edges[x]
      BY <2>1 DEF TypeOK, SealedEdge
    <2>3. RowStep
      BY <1>1, <2>1, <2>2 DEF RowStep
    <2>4. /\ k[1] \in Ids /\ k[2] \in Ids
          /\ \A g, u \in Ids : SupersedesEdge(g, u) = k => k[3] = "Supersedes" /\ <<g, u>> = <<k[1], k[2]>>
          /\ \A g, u \in Ids : SupersedesEdge(g, u) \in EdgeKeys
      BY SupersedesEdgeKey DEF EdgeKeys, SupersedesEdge
    <2>5. HopStep
      <3>1. CASE k[3] = "Supersedes" /\ e.state = "Confirmed" /\ ~LoadBearing(k)
        BY <2>1, <2>2, <2>4, <3>1 DEF HopStep, MaySupersede
      <3>2. CASE ~(k[3] = "Supersedes" /\ e.state = "Confirmed" /\ ~LoadBearing(k))
        BY <2>2, <2>4, <3>2 DEF HopStep, FullEdge
      <3>. QED
        BY <3>1, <3>2
    <2>. QED
      BY <2>3, <2>5
  <1>. QED
    BY <1>2, <1>3

-----------------------------------------------------------------------------
(* The steps of the write tools.                                           *)

(* A node that its reader can see changes by its author's call, or by the  *)
(* confirmation of a proposal that another principal wrote.                *)
EditStep ==
    \A id \in Ids : NodeVisible(id) /\ nodes'[id] # nodes[id] =>
        \/ caller' = AuthorOf[id]
        \/ /\ Retires(id)
           /\ \E f \in Ids :
                /\ edges[SupersedesEdge(f, id)].state = "Quarantined"
                /\ edges'[SupersedesEdge(f, id)].state = "Confirmed"
                /\ writer[SupersedesEdge(f, id)] # caller'

(* What is shown of every step.                                            *)
StepSound ==
    /\ SessionsTypeOK' /\ KeyringStep /\ RowStep /\ HopStep
    /\ ProposalInv' /\ PendingInv' /\ EditStep

(* A step of the store without a keyring step of its own kind.             *)
LEMMA EnsureStep ==
    ASSUME TypeOK, NEW r \in Repos, keyring' = EnsureTenantKey(keyring, r)
    PROVE  KeyringStep /\ SealGen(keyring, r) <= keyring'[r].gen
  <1>1. keyring \in Keyrings
    BY DEF TypeOK, Keyrings
  <1>. QED
    BY <1>1, EnsureOnce DEF KeyringStep

(* memory.assert *)
LEMMA AssertSound ==
    ASSUME SessionsIInv, NEW p \in Principals, NEW id \in Ids, NEW from \in Time,
           CallAssert(p, id, from)
    PROVE  StepSound
  <1>1. /\ PutNode(id, [status |-> "Active", validFrom |-> from, validTo |-> Open])
        /\ AuthorOf[id] = p /\ caller' = p
        /\ UNCHANGED <<insertedBy, pending, writer>> /\ GateFree
    BY DEF CallAssert
  <1>2. SessionsTypeOK /\ TypeOK /\ ProposalInv /\ RepoOf[id] \in Repos
    BY MemStoreAssumption DEF SessionsIInv, SessionsTypeOK
  <1> DEFINE row == [status |-> "Active", validFrom |-> from, validTo |-> Open,
                     gen |-> SealGen(keyring, RepoOf[id])]
  <1>3. KeyringStep /\ SealGen(keyring, RepoOf[id]) <= keyring'[RepoOf[id]].gen
    BY <1>1, <1>2, EnsureStep DEF PutNode
  <1>4. nodes' = [nodes EXCEPT ![id] = row] /\ UNCHANGED edges
    BY <1>1 DEF PutNode
  <1>5. row \in NodeRow
    BY <1>2, EnsureTenantKeyType DEF NodeRow, TypeOK
  <1>6. row.gen = SealGen(keyring, RepoOf[id])
    OBVIOUS
  <1> HIDE DEF row
  <1>7. TypeOK'
    BY <1>1, <1>2, <1>4, <1>5, EnsureTenantKeyType DEF TypeOK, PutNode
  <1>8. SessionsTypeOK'
    BY <1>1, <1>2, <1>7 DEF SessionsTypeOK
  <1>9. \A x \in Ids : x # id => nodes'[x] = nodes[x]
    BY <1>2, <1>4 DEF TypeOK
  <1>10. RowStep
    BY <1>2, <1>3, <1>4, <1>6, <1>9 DEF RowStep, TypeOK
  <1>11. HopStep
    BY <1>4 DEF HopStep
  <1>12. ProposalInv'
    BY <1>1, <1>2, <1>4 DEF ProposalInv
  <1>13. PendingInv'
    BY <1>1 DEF PendingInv, GateFree, NoCall
  <1>14. EditStep
    BY <1>1, <1>9 DEF EditStep
  <1>. QED
    BY <1>3, <1>8, <1>10, <1>11, <1>12, <1>13, <1>14 DEF StepSound

(* memory.propose_edge *)
LEMMA ProposeSound ==
    ASSUME SessionsIInv, NEW p \in Principals, NEW k \in EdgeKeys,
           CallProposeEdge(p, k)
    PROVE  StepSound
  <1> DEFINE e == [state |-> "Quarantined", plane |-> "Asserted", asserter |-> p]
  <1>1. /\ AddEdge(k, e) /\ GateFree /\ caller' = p /\ UNCHANGED insertedBy
        /\ writer' = [writer EXCEPT ![k] = p]
        /\ pending' = IF NeedsSecondParty(k[3])
                      THEN [NoCall EXCEPT !.who = p, !.meta = {k}] ELSE NoCall
    BY DEF CallProposeEdge
  <1>2. SessionsTypeOK /\ TypeOK /\ ProposalInv
    BY DEF SessionsIInv, SessionsTypeOK
  <1>3. e \in FullEdge /\ e.state = "Quarantined" /\ e.asserter = p
    BY McpSessionsAssumption DEF FullEdge, Planes
  <1> HIDE DEF e
  <1>4. TypeOK'
    BY <1>1, <1>2, <1>3, AddEdgeType DEF FullEdge
  <1>5. KeyringStep /\ EdgeStep /\ NodeStep
    BY <1>1, <1>2, <1>3, AddEdgeStep
  <1>6. RowStep /\ HopStep
    BY <1>2, <1>5, StoreStepShape
  <1>7. UNCHANGED nodes /\ edges' = [edges EXCEPT ![k] = SealedEdge(k, e)]
    BY <1>1 DEF AddEdge
  <1>8. edges'[k].asserter = p /\ \A x \in EdgeKeys : x # k => edges'[x] = edges[x]
    BY <1>2, <1>3, <1>7 DEF TypeOK, SealedEdge
  <1>9. \/ pending' = [who |-> p, meta |-> {k}, supersede |-> {}]
        \/ pending' = NoCall
    BY <1>1 DEF NoCall
  <1>10. SessionsTypeOK'
    BY <1>1, <1>2, <1>4, <1>9 DEF SessionsTypeOK, NoCall
  <1>11. writer'[k] = p /\ \A x \in EdgeKeys : x # k => writer'[x] = writer[x]
    BY <1>1, <1>2 DEF SessionsTypeOK
  <1>12. ProposalInv'
    BY <1>2, <1>8, <1>11 DEF ProposalInv
  <1>13. PendingInv'
    BY <1>1, <1>9 DEF PendingInv, GateFree, NoCall
  <1>14. EditStep
    BY <1>7 DEF EditStep
  <1>. QED
    BY <1>5, <1>6, <1>10, <1>12, <1>13, <1>14 DEF StepSound

(* The rows apply_supersession writes.                                     *)
LEMMA SupersessionRows ==
    ASSUME TypeOK, NEW f \in Ids, NEW t \in Ids, NEW plane \in Planes, NEW by \in Keys,
           NEW at \in Time, ApplySupersession(f, t, plane, by, at)
    PROVE  /\ \A x \in EdgeKeys : x # SupersedesEdge(f, t) => edges'[x] = edges[x]
           /\ edges'[SupersedesEdge(f, t)].state = "Confirmed"
           /\ \A id \in Ids : nodes'[id] # nodes[id] =>
                 id = t /\ nodes[t].status = "Active" /\ nodes'[t].status = "Superseded"
  <1> DEFINE k == SupersedesEdge(f, t)
             e == [state |-> "Confirmed", plane |-> plane, asserter |-> by]
  <1>1. edges' = [edges EXCEPT ![k] = SealedEdge(k, e)]
    BY DEF ApplySupersession, WriteSupersession
  <1>2. SealedEdge(k, e).state = "Confirmed" /\ k \in EdgeKeys
    BY SupersedesEdgeKey DEF SealedEdge
  <1>3. \/ nodes' = nodes
        \/ /\ nodes[t].status = "Active"
           /\ \E row : row.status = "Superseded" /\ nodes' = [nodes EXCEPT ![t] = row]
    BY DEF ApplySupersession, WriteSupersession
  <1> HIDE DEF k, e
  <1>4. \A id \in Ids : nodes'[id] # nodes[id] =>
           id = t /\ nodes[t].status = "Active" /\ nodes'[t].status = "Superseded"
    BY <1>3 DEF TypeOK
  <1>5. /\ \A x \in EdgeKeys : x # k => edges'[x] = edges[x]
        /\ edges'[k].state = "Confirmed"
    BY <1>1, <1>2 DEF TypeOK
  <1>. QED
    BY <1>4, <1>5 DEF k

(* memory.confirm_edge *)
LEMMA ConfirmSound ==
    ASSUME SessionsIInv, NEW p \in Principals, NEW k \in EdgeKeys, NEW now \in Time,
           CallConfirmEdge(p, k, now)
    PROVE  StepSound
  <1>1. /\ ConfirmEdge(k, now) /\ GateFree /\ caller' = p /\ UNCHANGED <<insertedBy, pending>>
        /\ writer' = [writer EXCEPT ![k] = p] /\ SecondPartyAllows(p, k)
    BY DEF CallConfirmEdge
  <1>2. SessionsTypeOK /\ TypeOK /\ ProposalInv
    BY DEF SessionsIInv, SessionsTypeOK
  <1>3. /\ edges[k].state = "Quarantined" /\ edges[k].plane \in Planes /\ edges[k].asserter \in Keys
        /\ k[1] \in Ids /\ k[2] \in Ids
    BY <1>1, <1>2 DEF ConfirmEdge, TypeOK, EdgeRow, EdgeKeys
  <1>4. /\ TypeOK' /\ KeyringStep /\ EdgeStep /\ NodeStep
        /\ edges'[k].state = "Confirmed"
        /\ \A x \in EdgeKeys : x # k => edges'[x] = edges[x]
        /\ \A id \in Ids : nodes'[id] # nodes[id] =>
              /\ k = SupersedesEdge(k[1], id) /\ id = k[2]
              /\ nodes[id].status = "Active" /\ nodes'[id].status = "Superseded"
    <2>1. CASE k[3] = "Supersedes"
      <3>1. ApplySupersession(k[1], k[2], edges[k].plane, edges[k].asserter, now)
        BY <1>1, <2>1 DEF ConfirmEdge
      <3>2. k = SupersedesEdge(k[1], k[2])
        BY <2>1 DEF SupersedesEdge, EdgeKeys
      <3>3. TypeOK' /\ KeyringStep /\ EdgeStep /\ NodeStep
        BY <1>2, <1>3, <3>1, ApplySupersessionType, ApplySupersessionStep
      <3>. QED
        BY <1>2, <1>3, <3>1, <3>2, <3>3, SupersessionRows
    <2>2. CASE k[3] # "Supersedes"
      <3> DEFINE e == [state |-> "Confirmed", plane |-> edges[k].plane, asserter |-> edges[k].asserter]
      <3>1. AddEdge(k, e)
        BY <1>1, <2>2 DEF ConfirmEdge
      <3>2. e \in FullEdge /\ e.state = "Confirmed"
        BY <1>3 DEF FullEdge
      <3> HIDE DEF e
      <3>3. TypeOK' /\ KeyringStep /\ EdgeStep /\ NodeStep
        BY <1>2, <2>2, <3>1, <3>2, AddEdgeType, AddEdgeStep DEF FullEdge
      <3>. QED
        BY <1>2, <3>1, <3>2, <3>3 DEF AddEdge, SealedEdge, TypeOK
    <2>. QED
      BY <2>1, <2>2
  <1>5. RowStep /\ HopStep
    BY <1>2, <1>4, StoreStepShape
  <1>6. SessionsTypeOK'
    BY <1>1, <1>2, <1>4 DEF SessionsTypeOK
  <1>7. \A x \in EdgeKeys : x # k => writer'[x] = writer[x]
    BY <1>1, <1>2 DEF SessionsTypeOK
  <1>8. ProposalInv'
    BY <1>2, <1>4, <1>7 DEF ProposalInv
  <1>9. PendingInv'
    BY <1>1 DEF PendingInv, GateFree, NoCall
  <1>10. ASSUME NEW id \in Ids, nodes'[id] # nodes[id], NodeVisible(id), p # AuthorOf[id]
         PROVE  Retires(id) /\ writer[k] # p /\ k = SupersedesEdge(k[1], id)
    <2>1. /\ k = SupersedesEdge(k[1], id) /\ id = k[2]
          /\ nodes[id].status = "Active" /\ nodes'[id].status = "Superseded"
      BY <1>4, <1>10
    <2>2. NeedsSecondParty(k[3])
      BY <2>1 DEF NeedsSecondParty, SupersedesEdge
    <2>3. edges[k].asserter # p
      BY <1>1, <1>10, <2>1, <2>2 DEF SecondPartyAllows
    <2>. QED
      BY <1>2, <1>3, <1>10, <2>1, <2>2, <2>3 DEF ProposalInv, Retires
  <1>11. EditStep
    BY <1>1, <1>3, <1>4, <1>10 DEF EditStep
  <1>. QED
    BY <1>4, <1>5, <1>6, <1>8, <1>9, <1>11 DEF StepSound

(* put_meta of the inserter: only the keyring may move.                    *)
LEMMA RecordInserterSound ==
    ASSUME SessionsIInv, NEW k \in EdgeKeys, RecordInserter(k)
    PROVE  StepSound
  <1> DEFINE call == [pending EXCEPT !.meta = @ \ {k}]
  <1>1. /\ k \in pending.meta /\ PutInserter(k, pending.who)
        /\ pending' = Release(call) /\ UNCHANGED <<nodes, edges, writer, caller>>
    BY DEF RecordInserter
  <1>2. /\ SessionsTypeOK /\ TypeOK /\ ProposalInv /\ PendingInv
        /\ RepoOf[k[2]] \in Repos
    BY MemStoreAssumption DEF SessionsIInv, SessionsTypeOK, EdgeKeys
  <1>3. KeyringStep
    BY <1>1, <1>2, EnsureStep DEF PutInserter
  <1>4. RowStep /\ HopStep
    BY <1>1 DEF RowStep, HopStep
  <1>5. TypeOK'
    BY <1>1, <1>2, EnsureTenantKeyType DEF TypeOK, PutInserter
  <1>6. /\ call.who = pending.who /\ call.supersede = pending.supersede
        /\ call \in [who : Principals \cup {Nobody}, meta : SUBSET EdgeKeys, supersede : SUBSET EdgeCopy]
    BY <1>2 DEF SessionsTypeOK
  <1> HIDE DEF call
  <1>7. insertedBy' \in [EdgeKeys -> MetaRow]
    <2>1. [by |-> pending.who, gen |-> SealGen(keyring, RepoOf[k[2]])] \in MetaRow
      BY <1>2, EnsureTenantKeyType DEF SessionsTypeOK, MetaRow, TypeOK
    <2>. QED
      BY <1>1, <1>2, <2>1 DEF PutInserter, SessionsTypeOK
  <1>8. pending' = NoCall \/ pending' = call
    BY <1>1 DEF Release
  <1>9. SessionsTypeOK'
    BY <1>1, <1>2, <1>5, <1>6, <1>7, <1>8 DEF SessionsTypeOK, NoCall
  <1>10. ProposalInv'
    BY <1>1, <1>2 DEF ProposalInv
  <1>11. ~GateFree
    BY <1>1 DEF GateFree, NoCall
  <1>12. PendingInv'
    BY <1>1, <1>2, <1>6, <1>8, <1>11 DEF PendingInv, GateFree, NoCall
  <1>13. EditStep
    BY <1>1 DEF EditStep
  <1>. QED
    BY <1>3, <1>4, <1>9, <1>10, <1>12, <1>13 DEF StepSound

(* apply_supersession within a merge: the caller retires nodes of its own. *)
LEMMA MergeSupersedeSound ==
    ASSUME SessionsIInv, NEW e \in EdgeCopy, NEW at \in Time, MergeSupersede(e, at)
    PROVE  StepSound
  <1> DEFINE call == [pending EXCEPT !.supersede = @ \ {e}]
             k == SupersedesEdge(e.key[1], e.key[2])
  <1>1. /\ e \in pending.supersede
        /\ ApplySupersession(e.key[1], e.key[2], "Asserted", e.asserter, at)
        /\ writer' = [writer EXCEPT ![e.key] = pending.who]
        /\ pending' = Release(call) /\ UNCHANGED <<insertedBy, caller>>
    BY DEF MergeSupersede
  <1>2. SessionsTypeOK /\ TypeOK /\ ProposalInv /\ PendingInv
    BY DEF SessionsIInv, SessionsTypeOK
  <1>3. /\ e.key \in EdgeKeys /\ e.key[1] \in Ids /\ e.key[2] \in Ids
        /\ e.asserter \in Keys /\ "Asserted" \in Planes
    BY DEF EdgeCopy, EdgeKeys, Planes
  <1>4. e.key[3] = "Supersedes" /\ AuthorOf[e.key[2]] = pending.who
    BY <1>1, <1>2 DEF PendingInv
  <1>5. e.key = k
    BY <1>3, <1>4 DEF EdgeKeys, SupersedesEdge
  <1>6. TypeOK' /\ KeyringStep /\ EdgeStep /\ NodeStep
    BY <1>1, <1>2, <1>3, ApplySupersessionType, ApplySupersessionStep
  <1>7. RowStep /\ HopStep
    BY <1>2, <1>6, StoreStepShape
  <1>8. /\ \A x \in EdgeKeys : x # e.key => edges'[x] = edges[x]
        /\ edges'[e.key].state = "Confirmed"
        /\ \A id \in Ids : nodes'[id] # nodes[id] => id = e.key[2]
    BY <1>1, <1>2, <1>3, <1>5, SupersessionRows
  <1>9. /\ call.who = pending.who /\ call.supersede \subseteq pending.supersede
        /\ call \in [who : Principals \cup {Nobody}, meta : SUBSET EdgeKeys, supersede : SUBSET EdgeCopy]
    BY <1>2 DEF SessionsTypeOK
  <1> HIDE DEF call, k
  <1>10. pending' = NoCall \/ pending' = call
    BY <1>1 DEF Release
  <1>11. SessionsTypeOK'
    <2>1. pending' \in [who : Principals \cup {Nobody}, meta : SUBSET EdgeKeys,
                        supersede : SUBSET EdgeCopy]
      BY <1>9, <1>10 DEF NoCall
    <2>2. writer' \in [EdgeKeys -> Principals \cup {Nobody}]
      BY <1>1, <1>2 DEF SessionsTypeOK
    <2>. QED
      BY <1>1, <1>2, <1>6, <2>1, <2>2 DEF SessionsTypeOK
  <1>12. \A x \in EdgeKeys : x # e.key => writer'[x] = writer[x]
    BY <1>1, <1>2 DEF SessionsTypeOK
  <1>13. ProposalInv'
    BY <1>2, <1>3, <1>8, <1>12 DEF ProposalInv
  <1>14. ~GateFree
    BY <1>1 DEF GateFree, NoCall
  <1>15. PendingInv'
    BY <1>1, <1>2, <1>9, <1>10, <1>14 DEF PendingInv, GateFree, NoCall
  <1>16. EditStep
    BY <1>1, <1>2, <1>4, <1>8, <1>14 DEF EditStep, PendingInv
  <1>. QED
    BY <1>6, <1>7, <1>11, <1>13, <1>15, <1>16 DEF StepSound

(* A merge that is refused, or a daemon that dies, drops the call.         *)
LEMMA DropSound ==
    ASSUME SessionsIInv, pending' = NoCall, UNCHANGED <<nodes, edges, keyring, insertedBy, writer, caller>>
    PROVE  StepSound
  <1>1. SessionsTypeOK /\ TypeOK /\ ProposalInv
    BY DEF SessionsIInv, SessionsTypeOK
  <1>2. TypeOK'
    BY <1>1 DEF TypeOK
  <1>3. SessionsTypeOK'
    BY <1>1, <1>2 DEF SessionsTypeOK, NoCall
  <1>4. KeyringStep /\ RowStep /\ HopStep
    BY DEF KeyringStep, RowStep, HopStep
  <1>5. ProposalInv'
    BY <1>1 DEF ProposalInv
  <1>6. PendingInv' /\ EditStep
    BY DEF PendingInv, GateFree, NoCall, EditStep
  <1>. QED
    BY <1>3, <1>4, <1>5, <1>6 DEF StepSound

(* shred_tenant *)
LEMMA ShredSound ==
    ASSUME SessionsIInv, NEW r \in Repos, OperatorShred(r)
    PROVE  StepSound
  <1>1. /\ GateFree /\ caller' = Nobody /\ UNCHANGED <<nodes, edges, insertedBy, pending, writer>>
        /\ keyring' = [keyring EXCEPT ![r] = [gen |-> keyring[r].gen, live |-> FALSE]]
    BY DEF OperatorShred, ShredTenant
  <1>2. SessionsTypeOK /\ TypeOK /\ ProposalInv
    BY DEF SessionsIInv, SessionsTypeOK
  <1>3. TypeOK' /\ KeyringStep
    BY <1>1, <1>2 DEF TypeOK, KeyringStep
  <1>4. SessionsTypeOK'
    BY <1>1, <1>2, <1>3 DEF SessionsTypeOK
  <1>5. RowStep /\ HopStep /\ EditStep
    BY <1>1 DEF RowStep, HopStep, EditStep
  <1>6. ProposalInv' /\ PendingInv'
    BY <1>1, <1>2 DEF ProposalInv, PendingInv, GateFree, NoCall
  <1>. QED
    BY <1>3, <1>4, <1>5, <1>6 DEF StepSound

-----------------------------------------------------------------------------
(* memory.merge_diff.                                                      *)

(* Several tenants' keys are ensured in one batch.                         *)
LEMMA EnsureAll ==
    ASSUME TypeOK, NEW rs \in SUBSET Repos, keyring' = EnsureTenantKeys(keyring, rs)
    PROVE  /\ KeyringStep
           /\ keyring' \in [Repos -> [gen : Nat, live : BOOLEAN]]
           /\ \A r \in rs : SealGen(keyring, r) <= keyring'[r].gen
  <1>1. keyring \in Keyrings
    BY DEF TypeOK, Keyrings
  <1>2. \A r \in Repos : keyring'[r] = IF r \in rs THEN EnsureTenantKey(keyring, r)[r] ELSE keyring[r]
    BY DEF EnsureTenantKeys
  <1>3. \A r \in Repos : /\ EnsureTenantKey(keyring, r)[r] \in [gen : Nat, live : BOOLEAN]
                         /\ keyring[r] \in [gen : Nat, live : BOOLEAN]
    BY <1>1, EnsureTenantKeyType DEF Keyrings
  <1>4. \A r \in Repos : /\ \/ EnsureTenantKey(keyring, r)[r] = keyring[r]
                            \/ /\ EnsureTenantKey(keyring, r)[r].gen = keyring[r].gen + 1
                               /\ ~keyring[r].live /\ EnsureTenantKey(keyring, r)[r].live
                         /\ SealGen(keyring, r) <= EnsureTenantKey(keyring, r)[r].gen
    BY <1>1, EnsureOnce
  <1>5. keyring' \in [Repos -> [gen : Nat, live : BOOLEAN]]
    BY <1>3 DEF EnsureTenantKeys
  <1>. QED
    BY <1>2, <1>4, <1>5 DEF KeyringStep

(* The row apply_diff writes for a copy.                                   *)
LEMMA MergedNodeType ==
    ASSUME TypeOK, NEW n \in NodeCopy
    PROVE  MergedNode(n) \in NodeRow /\ MergedNode(n).gen = SealGen(keyring, RepoOf[n.id])
  <1> DEFINE joined == JoinNode(nodes[n.id], n)
             fresh == [status |-> n.status, validFrom |-> n.validFrom, validTo |-> n.validTo]
             row == IF NodeVisible(n.id) THEN joined ELSE fresh
  <1>1. /\ n.id \in Ids /\ n.status \in {"Active", "Superseded", "Archived"}
        /\ n.validFrom \in Time /\ n.validTo \in Time \cup {Open}
    BY DEF NodeCopy
  <1>2. nodes[n.id] \in NodeRow /\ SealGen(keyring, RepoOf[n.id]) \in Nat
    BY <1>1, MemStoreAssumption, EnsureTenantKeyType DEF TypeOK
  <1>3. ASSUME NodeVisible(n.id)
        PROVE  /\ joined.status \in {"Active", "Superseded", "Archived"}
               /\ joined.validFrom \in Time /\ joined.validTo \in Time \cup {Open}
    BY <1>1, <1>2, <1>3 DEF JoinNode, Earlier, NodeRow, NodeVisible, HasNode
  <1>4. /\ row.status \in {"Active", "Superseded", "Archived"}
        /\ row.validFrom \in Time /\ row.validTo \in Time \cup {Open}
    BY <1>1, <1>3
  <1>5. MergedNode(n) = [status |-> row.status, validFrom |-> row.validFrom, validTo |-> row.validTo,
                         gen |-> SealGen(keyring, RepoOf[n.id])]
    BY DEF MergedNode
  <1> HIDE DEF row
  <1>. QED
    BY <1>2, <1>4, <1>5 DEF NodeRow

(* A diff written by a stranger changes no node that is stored.            *)
LEMMA MergeSound ==
    ASSUME SessionsIInv, NEW p \in Principals, NEW ns \in SUBSET NodeCopy,
           NEW es \in SUBSET EdgeCopy, CallMergeDiff(p, ns, es)
    PROVE  StepSound
  <1> DEFINE ids == {n.id : n \in ns}
             live == {e \in es : ~EdgeSkipped(e)}
             supersede == {e \in live : e.key[3] = "Supersedes" /\ e.state = "Confirmed"}
             plain == live \ supersede
             written == {n \in ns : NodeWritten(n)}
             tenant(e) == BatchTenant(e.key, {n.id : n \in written})
             sealed(e) == [state |-> e.state, plane |-> "Asserted", asserter |-> e.asserter,
                           repo |-> tenant(e), gen |-> SealGen(keyring, tenant(e))]
             rs == {RepoOf[n.id] : n \in written} \cup {tenant(e) : e \in plain}
             meta == {e.key : e \in {x \in plain : NeedsSecondParty(x.key[3])
                                                   /\ x.state = "Quarantined"}}
  <1>1. /\ GateFree /\ caller' = p /\ UNCHANGED insertedBy
        /\ \A n \in ns : NodeAccepted(p, n)
        /\ \A e \in live : EdgeAccepted(p, e, ids)
        /\ \A e \in es : EndpointsKnown(e, ids)
    BY DEF CallMergeDiff
  <1>2. nodes' = [id \in Ids |-> IF \E n \in written : n.id = id
                                 THEN MergedNode(CHOOSE n \in written : n.id = id) ELSE nodes[id]]
    BY DEF CallMergeDiff
  <1>3. edges' = [k \in EdgeKeys |-> IF \E e \in plain : e.key = k
                                     THEN sealed(CHOOSE e \in plain : e.key = k) ELSE edges[k]]
    BY DEF CallMergeDiff
  <1>4. /\ keyring' = EnsureTenantKeys(keyring, rs)
        /\ writer' = [k \in EdgeKeys |-> IF \E e \in plain : e.key = k THEN p ELSE writer[k]]
    BY DEF CallMergeDiff
  <1>5. pending' = NoCall \/ pending' = [who |-> p, meta |-> meta, supersede |-> supersede]
    BY DEF CallMergeDiff
  <1>6. SessionsTypeOK /\ TypeOK /\ ProposalInv
    BY DEF SessionsIInv, SessionsTypeOK
  <1>7. \A e \in es : /\ e.key \in EdgeKeys /\ e.key[1] \in Ids /\ e.key[2] \in Ids
                      /\ e.state \in {"Quarantined", "Confirmed"} /\ e.asserter \in Keys
    BY DEF EdgeCopy, EdgeKeys
  <1>8. \A n \in ns : n \in NodeCopy /\ n.id \in Ids
    BY DEF NodeCopy
  <1>9. \A e \in es : tenant(e) \in Repos
    BY <1>7, MemStoreAssumption DEF BatchTenant
  <1>10. rs \subseteq Repos
    BY <1>8, <1>9, MemStoreAssumption
  <1>11. \A e \in es : /\ sealed(e) \in EdgeRow /\ sealed(e).state = e.state
                       /\ sealed(e).asserter = e.asserter
                       /\ sealed(e).repo = tenant(e) /\ sealed(e).gen = SealGen(keyring, tenant(e))
    BY <1>6, <1>7, <1>9, EnsureTenantKeyType DEF EdgeRow, Planes, TypeOK
  <1>12. /\ \A n \in written : n \in ns /\ NodeWritten(n) /\ RepoOf[n.id] \in rs
         /\ \A e \in plain : e \in es /\ e \in live /\ tenant(e) \in rs
         /\ \A e \in plain : ~(e.key[3] = "Supersedes" /\ e.state = "Confirmed")
         /\ \A e \in supersede : e \in es /\ e \in live /\ e.key[3] = "Supersedes" /\ e.state = "Confirmed"
    OBVIOUS
  <1>13. meta \subseteq EdgeKeys /\ supersede \subseteq EdgeCopy
    BY <1>7
  <1> HIDE DEF ids, live, supersede, plain, written, tenant, sealed, rs, meta
  <1>14. /\ KeyringStep /\ keyring' \in [Repos -> [gen : Nat, live : BOOLEAN]]
         /\ \A r \in rs : SealGen(keyring, r) <= keyring'[r].gen
    BY <1>4, <1>6, <1>10, EnsureAll
  <1>15. ASSUME NEW id \in Ids
         PROVE  \/ nodes'[id] = nodes[id]
                \/ \E n \in written : n.id = id /\ nodes'[id] = MergedNode(n)
    BY <1>2
  <1>16. ASSUME NEW k \in EdgeKeys
         PROVE  \/ edges'[k] = edges[k] /\ writer'[k] = writer[k]
                \/ \E e \in plain : e.key = k /\ edges'[k] = sealed(e) /\ writer'[k] = p
    BY <1>3, <1>4
  <1>17. TypeOK'
    <2>1. \A id \in Ids : nodes'[id] \in NodeRow
      BY <1>6, <1>8, <1>12, <1>15, MergedNodeType DEF TypeOK
    <2>2. \A k \in EdgeKeys : edges'[k] \in EdgeRow
      BY <1>6, <1>11, <1>12, <1>16 DEF TypeOK
    <2>3. nodes' \in [Ids -> NodeRow] /\ edges' \in [EdgeKeys -> EdgeRow]
      BY <1>2, <1>3, <2>1, <2>2
    <2>. QED
      BY <1>14, <2>3 DEF TypeOK
  <1>18. SessionsTypeOK'
    <2>1. writer' \in [EdgeKeys -> Principals \cup {Nobody}]
      BY <1>4, <1>6 DEF SessionsTypeOK
    <2>. QED
      BY <1>1, <1>5, <1>6, <1>13, <1>17, <2>1 DEF SessionsTypeOK, NoCall
  <1>19. RowStep
    <2>1. \A id \in Ids : nodes'[id] = nodes[id] \/ nodes'[id].gen <= keyring'[RepoOf[id]].gen
      BY <1>6, <1>8, <1>12, <1>14, <1>15, MergedNodeType
    <2>2. \A k \in EdgeKeys : edges'[k] = edges[k] \/ edges'[k].gen <= keyring'[edges'[k].repo].gen
      BY <1>11, <1>12, <1>14, <1>16
    <2>. QED
      BY <2>1, <2>2 DEF RowStep
  <1>20. HopStep
    <2>1. \A f, t \in Ids : SupersedesEdge(f, t) \in EdgeKeys /\ SupersedesEdge(f, t)[3] = "Supersedes"
      BY SupersedesEdgeKey DEF SupersedesEdge
    <2>2. \A f, t \in Ids : \/ edges'[SupersedesEdge(f, t)] = edges[SupersedesEdge(f, t)]
                            \/ edges'[SupersedesEdge(f, t)].state = "Quarantined"
      BY <1>7, <1>11, <1>12, <1>16, <2>1
    <2>. QED
      BY <2>2 DEF HopStep
  <1>21. ProposalInv'
    <2> SUFFICES ASSUME NEW k \in EdgeKeys, NeedsSecondParty(k[3]), edges'[k].state = "Quarantined"
                 PROVE  writer'[k] = AuthorOf[k[2]] \/ writer'[k] = edges'[k].asserter
      BY DEF ProposalInv
    <2>1. CASE edges'[k] = edges[k] /\ writer'[k] = writer[k]
      BY <1>6, <2>1 DEF ProposalInv
    <2>2. ASSUME NEW e \in plain, e.key = k, edges'[k] = sealed(e), writer'[k] = p
          PROVE  p = AuthorOf[k[2]] \/ p = e.asserter
      <3>1. e \in live /\ e \in es /\ e.state = "Quarantined"
        BY <1>11, <1>12, <2>2
      <3>2. EdgeAccepted(p, e, ids) /\ EndpointsKnown(e, ids)
        BY <1>1, <3>1
      <3>. QED
        BY <2>2, <3>1, <3>2 DEF EdgeAccepted, EndpointsKnown
    <2>. QED
      BY <1>11, <1>12, <1>16, <2>1, <2>2
  <1>22. PendingInv'
    <2>1. \A e \in supersede : e.key[3] = "Supersedes" /\ AuthorOf[e.key[2]] = p
      <3> SUFFICES ASSUME NEW e \in supersede PROVE AuthorOf[e.key[2]] = p
        BY <1>12
      <3>1. EdgeAccepted(p, e, ids) /\ EndpointsKnown(e, ids)
        BY <1>1, <1>12
      <3>. QED
        BY <1>12, <3>1 DEF EdgeAccepted, EndpointsKnown
    <2>. QED
      BY <1>1, <1>5, <2>1 DEF PendingInv, GateFree, NoCall
  <1>23. EditStep
    <2> SUFFICES ASSUME NEW id \in Ids, NodeVisible(id), nodes'[id] # nodes[id]
                 PROVE  p = AuthorOf[id]
      BY <1>1 DEF EditStep
    <2>1. PICK n \in written : n.id = id
      BY <1>15
    <2>. QED
      BY <1>1, <1>12, <2>1 DEF NodeAccepted, NodeWritten
  <1>. QED
    BY <1>14, <1>18, <1>19, <1>20, <1>21, <1>22, <1>23 DEF StepSound

-----------------------------------------------------------------------------
(* The theorems.                                                           *)

(* Every step of every tool is sound.                                      *)
LEMMA SessionsStep ==
    ASSUME SessionsIInv, SessionsNext
    PROVE  StepSound
  <1>1. ASSUME NEW p \in Principals, NEW k \in Offered, CallProposeEdge(p, k)
        PROVE  StepSound
    BY <1>1, ProposeSound, McpSessionsAssumption
  <1>2. ASSUME NEW p \in Principals, NEW k \in Offered, NEW now \in Time, CallConfirmEdge(p, k, now)
        PROVE  StepSound
    BY <1>2, ConfirmSound, McpSessionsAssumption
  <1>3. ASSUME NEW p \in Principals, NEW n \in NodeCopy, CallMergeDiff(p, {n}, {})
        PROVE  StepSound
    <2>1. {n} \in SUBSET NodeCopy /\ {} \in SUBSET EdgeCopy
      OBVIOUS
    <2>. QED
      BY <1>3, <2>1, MergeSound
  <1>4. ASSUME NEW p \in Principals, NEW e \in Relayed, NEW d \in Relayed, CallMergeDiff(p, {}, {e, d})
        PROVE  StepSound
    <2>1. {} \in SUBSET NodeCopy /\ {e, d} \in SUBSET EdgeCopy
      BY McpSessionsAssumption
    <2>. QED
      BY <1>4, <2>1, MergeSound
  <1>5. ASSUME NEW e \in Relayed, NEW at \in Time, MergeSupersede(e, at)
        PROVE  StepSound
    BY <1>5, MergeSupersedeSound, McpSessionsAssumption
  <1>6. ASSUME NEW e \in Relayed, MergeRejected(e)
        PROVE  StepSound
    BY <1>6, DropSound DEF MergeRejected
  <1>7. ASSUME Crash
        PROVE  StepSound
    BY <1>7, DropSound DEF Crash
  <1>. QED
    BY <1>1, <1>2, <1>3, <1>4, <1>5, <1>6, <1>7, AssertSound, RecordInserterSound, ShredSound
    DEF SessionsNext

(* The inductive invariant holds of every behaviour.                       *)
THEOREM SessionsIInvHolds == SessionsSpec => []SessionsIInv
  <1>1. SessionsInit => SessionsIInv
    <2> SUFFICES ASSUME SessionsInit PROVE SessionsIInv
      OBVIOUS
    <2>1. Init
      BY DEF SessionsInit
    <2>2. TypeOK
      BY <2>1, MemStoreAssumption, TimeFacts DEF Init, TypeOK, NodeRow, EdgeRow, EdgeKeys, Planes
    <2>3. GenBounded
      BY <2>1, MemStoreAssumption DEF Init, GenBounded, EdgeKeys
    <2>4. LoadBearingSupersedes = {}
      BY <2>1, SupersedesEdgeKey DEF Init, LoadBearing, LoadBearingSupersedes
    <2>5. SupersessionAcyclic
      BY <2>4 DEF SupersessionAcyclic, AcyclicGraph
    <2>6. SessionsTypeOK
      BY <2>2 DEF SessionsInit, SessionsTypeOK, MetaRow, NoCall
    <2>7. ProposalInv
      BY <2>1 DEF Init, ProposalInv
    <2>8. PendingInv
      BY DEF SessionsInit, PendingInv, GateFree, NoCall
    <2>. QED
      BY <2>3, <2>5, <2>6, <2>7, <2>8 DEF SessionsIInv
  <1>2. SessionsIInv /\ [SessionsNext]_sessionVars => SessionsIInv'
    <2>1. CASE UNCHANGED sessionVars
      BY <2>1 DEF sessionVars, SessionsIInv, SessionsTypeOK, TypeOK, GenBounded, SupersessionAcyclic,
         LoadBearingSupersedes, LoadBearing, EdgeVisible, Readable, ProposalInv, PendingInv, GateFree
    <2>2. ASSUME SessionsIInv, SessionsNext PROVE SessionsIInv'
      <3>1. StepSound
        BY <2>2, SessionsStep
      <3>2. TypeOK /\ TypeOK' /\ GenBounded /\ SupersessionAcyclic
        BY <2>2, <3>1 DEF SessionsIInv, SessionsTypeOK, StepSound
      <3>3. GenBounded' /\ SupersessionAcyclic'
        BY <3>1, <3>2, GenBoundedKept, AcyclicKept DEF StepSound
      <3>. QED
        BY <3>1, <3>3 DEF SessionsIInv, StepSound
    <2>. QED
      BY <2>1, <2>2
  <1>. QED
    BY <1>1, <1>2, PTL DEF SessionsSpec

(* Types, and no cycle of load-bearing supersessions between any two       *)
(* writes of the write tools.                                              *)
THEOREM SessionsInvHolds == SessionsSpec => []SessionsInv
  <1>1. SessionsIInv => SessionsInv
    BY DEF SessionsIInv, SessionsInv
  <1>. QED
    BY <1>1, SessionsIInvHolds, PTL

(* Nobody retires another principal's node alone.                          *)
THEOREM RetirementNeedsTwoHolds == SessionsSpec => RetirementNeedsTwo
  <1> DEFINE Body == \A id \in Ids : Retires(id) =>
                        \/ caller' = AuthorOf[id]
                        \/ \E f \in Ids :
                             /\ edges[SupersedesEdge(f, id)].state = "Quarantined"
                             /\ edges'[SupersedesEdge(f, id)].state = "Confirmed"
                             /\ writer[SupersedesEdge(f, id)] # caller'
  <1>1. SessionsIInv /\ [SessionsNext]_sessionVars => [Body]_sessionVars
    <2>1. ASSUME SessionsIInv, SessionsNext PROVE Body
      <3>1. EditStep
        BY <2>1, SessionsStep DEF StepSound
      <3>. QED
        BY <3>1 DEF EditStep, Retires
    <2>. QED
      BY <2>1
  <1>. QED
    BY <1>1, SessionsIInvHolds, PTL DEF SessionsSpec, RetirementNeedsTwo

(* A stored node changes by its author's call or by its retirement.        *)
THEOREM OnlyAuthorsEditHolds == SessionsSpec => OnlyAuthorsEdit
  <1> DEFINE Body == \A id \in Ids : NodeVisible(id) /\ nodes'[id] # nodes[id] =>
                        caller' = AuthorOf[id] \/ Retires(id)
  <1>1. SessionsIInv /\ [SessionsNext]_sessionVars => [Body]_sessionVars
    <2>1. ASSUME SessionsIInv, SessionsNext PROVE Body
      <3>1. EditStep
        BY <2>1, SessionsStep DEF StepSound
      <3>. QED
        BY <3>1 DEF EditStep
    <2>. QED
      BY <2>1
  <1>. QED
    BY <1>1, SessionsIInvHolds, PTL DEF SessionsSpec, OnlyAuthorsEdit
=============================================================================
