------------------------------ MODULE MemStore ------------------------------
(***************************************************************************)
(* The content-addressed memory DAG of crates/mem-store: a table of nodes, *)
(* a table of typed edges and the per-tenant keyring.                      *)
(*                                                                         *)
(* A node is identified by its content hash, so what the hash covers       *)
(* (repo, plane, author) is a function of the identifier, and a row keeps  *)
(* only the advisory state that can change in place.  An edge is           *)
(* identified by (from, to, kind).                                         *)
(*                                                                         *)
(* Every row carries the key generation it was sealed under; generation 0  *)
(* is plaintext.  A row whose generation is no longer the tenant's live    *)
(* one reads as if it were not there.                                      *)
(*                                                                         *)
(* Each public operation of the store is one action, as every one of them  *)
(* ends in a single atomic batch.  An operation that returns an error or a *)
(* "nothing to do" answer writes nothing, which is a stuttering step: its  *)
(* early returns are the guards of the action.                             *)
(***************************************************************************)
EXTENDS Naturals, FiniteSets

CONSTANTS
    Ids,            \* content hashes that nodes may have
    Repos,          \* tenants; a node belongs to exactly one
    Keys,           \* identities that author nodes and assert edges
    OtherKinds,     \* edge kinds besides Supersedes
    RepoOf,         \* repo, plane and author are covered by the hash
    PlaneOf,
    AuthorOf,
    PutRows,        \* rows callers hand to put_node
    CallerPlanes,   \* planes callers write edges on: ingest Derived, sessions Asserted
    EncryptAtRest,  \* the store's write mode
    MaxTime,        \* bound on timestamps
    MaxGen          \* bound on key generations

Planes == {"Derived", "Asserted"}
Kinds == {"Supersedes"} \cup OtherKinds

Time == 0 .. MaxTime

(* valid_to = None: validity has not ended.                                *)
Open == MaxTime + 1

(* What a caller may hand to put_node, without the sealing: a claim is     *)
(* Active and open, a document has the status of its front matter and no   *)
(* end, a merge stores whatever row a peer or an author sent.              *)
NewNode == [status : {"Active", "Superseded", "Archived"},
            validFrom : Time, validTo : Time \cup {Open}]

ASSUME MemStoreAssumption ==
    /\ RepoOf \in [Ids -> Repos]
    /\ PlaneOf \in [Ids -> Planes]
    /\ AuthorOf \in [Ids -> Keys]
    /\ PutRows \subseteq NewNode
    /\ CallerPlanes \subseteq Planes
    /\ "Supersedes" \notin OtherKinds
    /\ EncryptAtRest \in BOOLEAN
    /\ MaxTime \in Nat
    /\ MaxGen \in Nat

EdgeKeys == Ids \X Ids \X Kinds

NodeRow == [status : {"Absent", "Active", "Superseded", "Archived"},
            validFrom : Time, validTo : Time \cup {Open}, gen : Nat]

EdgeRow == [state : {"Absent", "Quarantined", "Confirmed"},
            plane : Planes, asserter : Keys, repo : Repos, gen : Nat]

(* What a caller hands to add_edge: the row without the sealing.           *)
NewEdge == [state : {"Quarantined", "Confirmed"}, plane : CallerPlanes, asserter : Keys]

VARIABLES
    nodes,    \* cf nodes: Ids -> NodeRow
    edges,    \* cf edges_out and edges_in, always written together
    keyring   \* cf keys: generation counter, and whether its key survives

vars == <<nodes, edges, keyring>>

(* Rows of the three column families keep their types: a generation is a   *)
(* natural number, and a row is absent or whole.                           *)
TypeOK ==
    /\ nodes \in [Ids -> NodeRow]
    /\ edges \in [EdgeKeys -> EdgeRow]
    /\ keyring \in [Repos -> [gen : Nat, live : BOOLEAN]]

-----------------------------------------------------------------------------
(* Sealing.                                                                *)

(* Mutant: a fresh key under the old generation.                           *)
EnsureTenantKeySameGen(kr, r) ==
    IF EncryptAtRest /\ ~kr[r].live
    THEN [kr EXCEPT ![r] = [gen |-> IF kr[r].gen = 0 THEN 1 ELSE kr[r].gen, live |-> TRUE]]
    ELSE kr

(* Mutant: the counter goes the wrong way.                                 *)
EnsureTenantKeyDown(kr, r) ==
    IF EncryptAtRest /\ ~kr[r].live
    THEN [kr EXCEPT ![r] = [gen |-> kr[r].gen - 1, live |-> TRUE]]
    ELSE kr

(* ensure_tenant_key: the live key, or the next generation's fresh one.    *)
EnsureTenantKey(kr, r) ==
    IF EncryptAtRest /\ ~kr[r].live
    THEN [kr EXCEPT ![r] = [gen |-> kr[r].gen + 1, live |-> TRUE]]
    ELSE kr

(* The generation a row written for tenant r is sealed under.              *)
SealGen(kr, r) == IF EncryptAtRest THEN EnsureTenantKey(kr, r)[r].gen ELSE 0

Readable(r, gen) == gen = 0 \/ (keyring[r].live /\ keyring[r].gen = gen)

(* has_node: the row exists, readable or not.                              *)
HasNode(id) == nodes[id].status # "Absent"

(* get_node returns Some.                                                  *)
NodeVisible(id) == HasNode(id) /\ Readable(RepoOf[id], nodes[id].gen)

(* The edge is returned by out_edges and in_edges.                         *)
EdgeVisible(k) ==
    edges[k].state # "Absent" /\ Readable(edges[k].repo, edges[k].gen)

LoadBearing(k) == edges[k].state = "Confirmed" /\ EdgeVisible(k)

(* edge_tenant: the repo of the from endpoint, else of the to endpoint.    *)
EdgeTenant(k) == IF HasNode(k[1]) THEN RepoOf[k[1]] ELSE RepoOf[k[2]]

(* An encrypting store refuses an edge neither of whose endpoints it has.  *)
EdgeSealable(k) == EncryptAtRest => (HasNode(k[1]) \/ HasNode(k[2]))

SealedEdge(k, e) ==
    [state |-> e.state, plane |-> e.plane, asserter |-> e.asserter,
     repo |-> EdgeTenant(k), gen |-> SealGen(keyring, EdgeTenant(k))]

-----------------------------------------------------------------------------
(* The supersession graph.                                                 *)

SupersedesEdge(f, t) == <<f, t, "Supersedes">>

(* Pairs one hop of the breadth-first search over Supersedes can follow.   *)
SupersedesHops ==
    {p \in Ids \X Ids : EdgeVisible(SupersedesEdge(p[1], p[2]))}

Closed(S, hops) == \A p \in hops : p[1] \in S => p[2] \in S

(* reachable_via, with the start: the least set that holds the start and   *)
(* is closed under hops.                                                   *)
ReachableVia(start, hops) ==
    {n \in Ids : \A S \in SUBSET Ids : start \in S /\ Closed(S, hops) => n \in S}

WouldCycleSupersedes(f, t) == f \in ReachableVia(t, SupersedesHops)

-----------------------------------------------------------------------------
Init ==
    /\ nodes = [id \in Ids |->
                  [status |-> "Absent", validFrom |-> 0, validTo |-> Open, gen |-> 0]]
    /\ edges = [k \in EdgeKeys |->
                  [state |-> "Absent", plane |-> "Derived", asserter |-> AuthorOf[k[1]],
                   repo |-> RepoOf[k[1]], gen |-> 0]]
    /\ keyring = [r \in Repos |-> [gen |-> 0, live |-> FALSE]]

(* put_node, with the row its caller built.  It overwrites whatever was    *)
(* stored, and checks nothing: a retired row needs no Supersedes edge.     *)
PutNode(id, n) ==
    /\ keyring' = EnsureTenantKey(keyring, RepoOf[id])
    /\ nodes' = [nodes EXCEPT ![id] =
                   [status |-> n.status, validFrom |-> n.validFrom, validTo |-> n.validTo,
                    gen |-> SealGen(keyring, RepoOf[id])]]
    /\ UNCHANGED edges

(* Mutant: a proposal may overwrite anything.                              *)
IsDemotingWriteNever(k, e) == FALSE

(* is_demoting_write: a proposal over an edge that is already load-bearing *)
IsDemotingWrite(k, e) == e.state = "Quarantined" /\ LoadBearing(k)

(* add_edge.                                                               *)
AddEdge(k, e) ==
    /\ ~IsDemotingWrite(k, e)
    /\ EdgeSealable(k)
    /\ edges' = [edges EXCEPT ![k] = SealedEdge(k, e)]
    /\ keyring' = EnsureTenantKey(keyring, EdgeTenant(k))
    /\ UNCHANGED nodes

(* Mutant: no cycle guard.                                                 *)
MaySupersedeCyclic(f, t, plane) ==
    f # t /\ HasNode(f) /\ NodeVisible(t) /\ ~(plane = "Asserted" /\ PlaneOf[t] = "Derived")

(* Mutant: no plane guard.                                                 *)
MaySupersedeAcrossPlanes(f, t, plane) ==
    f # t /\ HasNode(f) /\ NodeVisible(t) /\ ~WouldCycleSupersedes(f, t)

(* The checks of apply_supersession before its batch.                      *)
MaySupersede(f, t, plane) ==
    /\ f # t
    /\ HasNode(f)
    /\ NodeVisible(t)
    /\ ~(plane = "Asserted" /\ PlaneOf[t] = "Derived")
    /\ ~WouldCycleSupersedes(f, t)

(* Mutant: the end of validity is not clamped.                             *)
WriteSupersessionUnclamped(f, t, e, at) ==
    /\ edges' = [edges EXCEPT ![SupersedesEdge(f, t)] = SealedEdge(SupersedesEdge(f, t), e)]
    /\ nodes' = IF nodes[t].status = "Active"
                THEN [nodes EXCEPT ![t].status = "Superseded", ![t].validTo = at]
                ELSE nodes
    /\ UNCHANGED keyring

(* The batch of apply_supersession: the edge and, when the target was      *)
(* Active, its retirement.  The end of validity is clamped to its start.   *)
WriteSupersession(f, t, e, at) ==
    LET kr == EnsureTenantKey(keyring, EdgeTenant(SupersedesEdge(f, t)))
        row == nodes[t]
        retired == [status |-> "Superseded", validFrom |-> row.validFrom,
                    validTo |-> IF at > row.validFrom THEN at ELSE row.validFrom,
                    gen |-> SealGen(kr, RepoOf[t])]
    IN  /\ edges' = [edges EXCEPT ![SupersedesEdge(f, t)] =
                       SealedEdge(SupersedesEdge(f, t), e)]
        /\ IF row.status = "Active"
           THEN /\ nodes' = [nodes EXCEPT ![t] = retired]
                /\ keyring' = EnsureTenantKey(kr, RepoOf[t])
           ELSE /\ nodes' = nodes
                /\ keyring' = kr

ApplySupersession(f, t, plane, by, at) ==
    /\ MaySupersede(f, t, plane)
    /\ WriteSupersession(f, t,
         [state |-> "Confirmed", plane |-> plane, asserter |-> by], at)

(* confirm_edge: the stored proposal, promoted; a Supersedes goes through  *)
(* apply_supersession, stamped with the confirmation clock.                *)
ConfirmEdge(k, now) ==
    /\ EdgeVisible(k)
    /\ edges[k].state = "Quarantined"
    /\ IF k[3] = "Supersedes"
       THEN ApplySupersession(k[1], k[2], edges[k].plane, edges[k].asserter, now)
       ELSE AddEdge(k, [state |-> "Confirmed", plane |-> edges[k].plane,
                        asserter |-> edges[k].asserter])

(* set_node_status, as reap_branches calls it.                             *)
ArchiveNode(id, now) ==
    /\ NodeVisible(id)
    /\ nodes[id].status # "Archived"
    /\ keyring' = EnsureTenantKey(keyring, RepoOf[id])
    /\ nodes' = [nodes EXCEPT ![id] =
                   [status |-> "Archived", validFrom |-> nodes[id].validFrom,
                    validTo |-> now, gen |-> SealGen(keyring, RepoOf[id])]]
    /\ UNCHANGED edges

(* shred_tenant: the key goes, the generation counter stays.  A tenant     *)
(* without a keyring row is left alone.  MaxGen bounds the re-minting.     *)
ShredTenant(r) ==
    /\ keyring[r].gen \in 1 .. MaxGen - 1
    /\ keyring[r].live
    /\ keyring' = [keyring EXCEPT ![r] = [gen |-> keyring[r].gen, live |-> FALSE]]
    /\ UNCHANGED <<nodes, edges>>

(* What callers write with add_edge or commit.  A Supersedes that retires  *)
(* goes through apply_supersession (ingest, apply_diff, merge_bundle); but *)
(* merge_bundle rewrites one that is load-bearing already, with the plane  *)
(* and the asserter of the less trusted of the two copies.                 *)
CallerEdge(k, e) ==
    k[3] = "Supersedes" => e.state = "Quarantined" \/ LoadBearing(k)

Next ==
    \/ \E id \in Ids, n \in PutRows : PutNode(id, n)
    \/ \E k \in EdgeKeys, e \in NewEdge : CallerEdge(k, e) /\ AddEdge(k, e)
    \/ \E f, t \in Ids, plane \in CallerPlanes, by \in Keys, at \in Time :
         ApplySupersession(f, t, plane, by, at)
    \/ \E k \in EdgeKeys, now \in Time : ConfirmEdge(k, now)
    \/ \E id \in Ids, now \in Time : ArchiveNode(id, now)
    \/ \E r \in Repos : ShredTenant(r)

Spec == Init /\ [][Next]_vars
-----------------------------------------------------------------------------
(* Properties.                                                             *)

(* A directed graph has no cycle: every non-empty set of nodes has a       *)
(* member with no successor in the set.                                    *)
AcyclicGraph(hops) ==
    \A S \in (SUBSET Ids) \ {{}} : \E n \in S : \A m \in S : <<n, m>> \notin hops

LoadBearingSupersedes ==
    {p \in Ids \X Ids : LoadBearing(SupersedesEdge(p[1], p[2]))}

(* The load-bearing supersessions a reader can see never form a cycle,     *)
(* however proposals, confirmations, ingest and shredding interleave: what *)
(* the would_cycle_supersedes guard of apply_supersession is for.          *)
SupersessionAcyclic == AcyclicGraph(LoadBearingSupersedes)

BecomesLoadBearing(f, t) ==
    LoadBearing(SupersedesEdge(f, t))' /\ ~LoadBearing(SupersedesEdge(f, t))

(* A Supersedes edge that becomes load-bearing on the Asserted plane has a *)
(* target of the Asserted plane, also when it was a proposal that is       *)
(* confirmed after the target was written anew: the plane guard of         *)
(* apply_supersession (MEM-B-010), run again by confirm_edge.              *)
PlanesSeparate ==
    [][\A f, t \in Ids :
          /\ BecomesLoadBearing(f, t)
          /\ edges'[SupersedesEdge(f, t)].plane = "Asserted"
          => PlaneOf[t] = "Asserted"]_vars

(* t, if it was Active, is retired from this step on, with a validity that *)
(* ends and not before it began; if not, it keeps the end it had.  It can  *)
(* still be read, and no other node is touched.                            *)
TargetRetired(t) ==
    /\ IF nodes[t].status = "Active"
       THEN /\ nodes'[t].status = "Superseded"
            /\ nodes'[t].validFrom = nodes[t].validFrom
            /\ nodes'[t].validTo \in Time
            /\ nodes'[t].validFrom <= nodes'[t].validTo
       ELSE nodes'[t] = nodes[t]
    /\ NodeVisible(t)'
    /\ \A n \in Ids \ {t} : nodes'[n] = nodes[n]

(* No Supersedes edge becomes load-bearing without its target's retirement *)
(* in the same batch, whatever time the caller put on the edge, whoever    *)
(* proposed it and whichever keys were shredded in between: the batch of   *)
(* apply_supersession and its clamp, which confirm_edge goes through too.  *)
SupersessionRetires ==
    [][\A f, t \in Ids : BecomesLoadBearing(f, t) => TargetRetired(t)]_vars

(* A load-bearing edge is never put back into quarantine, nor replaced by  *)
(* nothing, by any step (is_demoting_write, MEM-B-009).                    *)
NeverDemoted ==
    [][\A k \in EdgeKeys : LoadBearing(k) => edges'[k].state = "Confirmed"]_vars

(* A row that reads as forgotten stays forgotten until somebody writes     *)
(* that very row again: a re-minted key never opens what was sealed under  *)
(* a destroyed generation (shred_tenant, ensure_tenant_key).               *)
ForgottenStaysForgotten ==
    [][/\ \A id \in Ids : nodes'[id] = nodes[id] /\ ~NodeVisible(id) => ~NodeVisible(id)'
       /\ \A k \in EdgeKeys : edges'[k] = edges[k] /\ ~EdgeVisible(k) => ~EdgeVisible(k)'
      ]_vars
=============================================================================
