----------------------------- MODULE ReplicaSync -----------------------------
(***************************************************************************)
(* Federation sync (crates/mem-sync): replicas of tenants work on their    *)
(* own, export a tenant as a bundle and merge each other's bundles, which  *)
(* arrive late, twice, in any order or not at all.                         *)
(*                                                                         *)
(* All edges are Supersedes: a quarantined one takes the path every other  *)
(* kind takes, a confirmed one goes through apply_supersession.  Of the    *)
(* advisory fields edge_advisory_key orders, an edge keeps its timestamp,  *)
(* in which two replicas' copies of one edge differ.  Grants cover all     *)
(* tenants and signatures verify; everything is on one plane and nothing   *)
(* is shredded (MemStore has both).                                        *)
(***************************************************************************)
EXTENDS NodeJoin, Sequences, FiniteSets

CONSTANTS
    Replicas,
    Ids,
    Repos,
    RepoOf,
    Minted,      \* per node: the rows it is minted with, on whatever replica
    EdgeOrder,   \* the edges replicas may write, sorted by their key
    MaxTime,     \* bound on timestamps
    MaxExports,  \* bound on bundles under way
    MaxWrites    \* bound on what the replicas write on their own

Edges == {EdgeOrder[n] : n \in 1 .. Len(EdgeOrder)}
Time == 0 .. MaxTime
Open == MaxTime + 1

(* The row a minting caller builds: a claim is Active, a document has the  *)
(* status of its front matter; neither has an end of validity.             *)
MintedRow == [status : {"Active", "Superseded", "Archived"}, validFrom : Time, validTo : {Open},
              trust : Nat, conf : SUBSET {"True", "False"}]

ASSUME ReplicaSyncAssumption ==
    /\ Minted \in [Ids -> SUBSET MintedRow]
    /\ RepoOf \in [Ids -> Repos]
    /\ EdgeOrder \in Seq(Ids \X Ids)
    /\ MaxTime \in Nat /\ MaxExports \in Nat /\ MaxWrites \in Nat

VARIABLES
    db,       \* per replica: its node and edge tables
    bundles,  \* exported bundles that may yet arrive
    writes    \* what the replicas wrote on their own so far

syncVars == <<db, bundles, writes>>

Row == [status : {"Absent", "Active", "Superseded", "Archived"}, validFrom : Time,
        validTo : Time \cup {Open}, trust : Nat,
        conf : SUBSET {"True", "False"}]
EdgeRow == [state : {"Absent", "Quarantined", "Confirmed"}, at : Time]
Tables == [nodes : [Ids -> Row], edges : [Edges -> EdgeRow]]

(* The tables have their types, the bounds hold, and only a retired row    *)
(* has an end of validity; one retired by its front matter has none.       *)
SyncTypeOK ==
    /\ db \in [Replicas -> Tables]
    /\ \A r \in Replicas, id \in Ids :
         LET row == db[r].nodes[id]
         IN  row.validTo # Open => row.status \in {"Superseded", "Archived"}
    /\ bundles \subseteq Tables /\ Cardinality(bundles) <= MaxExports
    /\ writes \in 0 .. MaxWrites

NoRow == [status |-> "Absent", validFrom |-> 0, validTo |-> Open, trust |-> 0, conf |-> {}]
NoEdge == [state |-> "Absent", at |-> 0]

Has(t, id) == t.nodes[id].status # "Absent"

-----------------------------------------------------------------------------
(* apply_supersession on the tables of one replica.                        *)

(* The edges a walk over Supersedes follows, proposals included.           *)
Reaches(t, from, to) ==
    \A S \in SUBSET Ids :
        /\ from \in S
        /\ \A e \in Edges : t.edges[e].state # "Absent" /\ e[1] \in S => e[2] \in S
        => to \in S

MaySupersede(t, e) ==
    e[1] # e[2] /\ Has(t, e[1]) /\ Has(t, e[2]) /\ ~Reaches(t, e[2], e[1])

Supersede(t, e, at) ==
    LET y == t.nodes[e[2]]
        retired == [y EXCEPT !.status = "Superseded",
                             !.validTo = IF at > y.validFrom THEN at ELSE y.validFrom]
    IN  [nodes |-> IF y.status = "Active" THEN [t.nodes EXCEPT ![e[2]] = retired]
                   ELSE t.nodes,
         edges |-> [t.edges EXCEPT ![e] = [state |-> "Confirmed", at |-> at]]]

-----------------------------------------------------------------------------
(* export_tenant: the nodes of a tenant and the edges that leave them.     *)
BundleOf(t, repo) ==
    [nodes |-> [id \in Ids |-> IF RepoOf[id] = repo THEN t.nodes[id] ELSE NoRow],
     edges |-> [e \in Edges |-> IF RepoOf[e[1]] = repo /\ Has(t, e[1])
                                THEN t.edges[e] ELSE NoEdge]]

(* authorize_bundle: every endpoint's tenant must be known from the bundle *)
(* or from the store.                                                      *)
Resolvable(t, b) ==
    \A e \in Edges : b.edges[e].state # "Absent" =>
        \A i \in {1, 2} : Has(b, e[i]) \/ Has(t, e[i])

(* The node loop of merge_bundle, for the nodes in ids.                    *)
MergeNodes(t, b, ids) ==
    [t EXCEPT !.nodes = [id \in Ids |->
        IF id \notin ids \/ ~Has(b, id) THEN t.nodes[id]
        ELSE IF ~Has(t, id) THEN b.nodes[id]
        ELSE JoinRow(t.nodes[id], b.nodes[id])]]

(* Mutant: a remote proposal puts a confirmed edge back into quarantine.   *)
MergedProposalDemotes(local, remote) ==
    IF local.state = "Absent" THEN remote
    ELSE [state |-> remote.state, at |-> Earlier(local.at, remote.at)]

(* A proposal of the bundle meets the local copy: confirmed anywhere is    *)
(* confirmed, and the advisory fields with the smaller key stay.           *)
MergedProposal(local, remote) ==
    IF local.state = "Absent" THEN remote
    ELSE [state |-> local.state, at |-> Earlier(local.at, remote.at)]

MergeProposals(t, b) ==
    [t EXCEPT !.edges = [e \in Edges |->
        IF b.edges[e].state = "Quarantined" THEN MergedProposal(t.edges[e], b.edges[e])
        ELSE t.edges[e]]]

(* One of the bundle's supersessions, through apply_supersession; one the  *)
(* store refuses is counted and passed over.                               *)
ApplyConfirmed(t, b, e) ==
    IF b.edges[e].state = "Confirmed" /\ MaySupersede(t, e)
    THEN Supersede(t, e, b.edges[e].at)
    ELSE t

(* All of them, in key order.                                              *)
MergeSupersessions(t, b) ==
    LET upTo[n \in 0 .. Len(EdgeOrder)] ==
          IF n = 0 THEN t ELSE ApplyConfirmed(upTo[n - 1], b, EdgeOrder[n])
    IN  upTo[Len(EdgeOrder)]

(* Mutant: the edges are merged before the nodes they join.                *)
MergeBundleEdgesFirst(t, b) ==
    IF Resolvable(t, b)
    THEN MergeNodes(MergeSupersessions(MergeProposals(t, b), b), b, Ids)
    ELSE t

(* merge_bundle *)
MergeBundle(t, b) ==
    IF Resolvable(t, b)
    THEN MergeSupersessions(MergeProposals(MergeNodes(t, b, Ids), b), b)
    ELSE t

-----------------------------------------------------------------------------
SyncInit ==
    /\ db = [r \in Replicas |-> [nodes |-> [id \in Ids |-> NoRow],
                                 edges |-> [e \in Edges |-> NoEdge]]]
    /\ bundles = {}
    /\ writes = 0

LocalWrite ==
    /\ writes < MaxWrites
    /\ writes' = writes + 1
    /\ UNCHANGED bundles

(* What a replica writes on its own: put_node of a fresh row ...           *)
LocalPut(r, id, row) ==
    /\ db' = [db EXCEPT ![r].nodes[id] = row]
    /\ LocalWrite

(* ... a proposal between nodes it has ...                                 *)
LocalPropose(r, e, at) ==
    /\ Has(db[r], e[1]) /\ Has(db[r], e[2])
    /\ db[r].edges[e].state # "Confirmed"
    /\ db' = [db EXCEPT ![r].edges[e] = [state |-> "Quarantined", at |-> at]]
    /\ LocalWrite

(* ... a supersession ...                                                  *)
LocalSupersede(r, e, at) ==
    /\ MaySupersede(db[r], e)
    /\ db' = [db EXCEPT ![r] = Supersede(@, e, at)]
    /\ LocalWrite

(* ... and the archiving of a node.                                        *)
LocalArchive(r, id, now) ==
    /\ db[r].nodes[id].status \in {"Active", "Superseded"}
    /\ db' = [db EXCEPT ![r].nodes[id].status = "Archived", ![r].nodes[id].validTo = now]
    /\ LocalWrite

Export(r, repo) ==
    /\ bundles' = bundles \cup {BundleOf(db[r], repo)}
    /\ Cardinality(bundles') <= MaxExports
    /\ UNCHANGED <<db, writes>>

(* A bundle arrives.  It stays under way: it may arrive again.             *)
Merge(r, b) ==
    /\ db' = [db EXCEPT ![r] = MergeBundle(@, b)]
    /\ UNCHANGED <<bundles, writes>>

(* A bundle is lost, or does not arrive again.                             *)
Lose(b) ==
    /\ bundles' = bundles \ {b}
    /\ UNCHANGED <<db, writes>>

(* The process dies in the node loop: each put_node is a batch of its own. *)
MergeInterrupted(r, b, ids) ==
    /\ Resolvable(db[r], b)
    /\ db' = [db EXCEPT ![r] = MergeNodes(@, b, ids)]
    /\ UNCHANGED <<bundles, writes>>

SyncNext ==
    \/ \E r \in Replicas :
        \/ \E id \in Ids : \E row \in Minted[id] : LocalPut(r, id, row)
        \/ \E e \in Edges, at \in Time : LocalPropose(r, e, at) \/ LocalSupersede(r, e, at)
        \/ \E id \in Ids, now \in Time : LocalArchive(r, id, now)
        \/ \E repo \in Repos : Export(r, repo)
        \/ \E b \in bundles : Merge(r, b)
        \/ \E b \in bundles, ids \in SUBSET Ids : MergeInterrupted(r, b, ids)
    \/ \E b \in bundles : Lose(b)

SyncSpec == SyncInit /\ [][SyncNext]_syncVars

-----------------------------------------------------------------------------
(* Properties.                                                             *)

(* One replica pulls a tenant from another.                                *)
Pull(t, u, repo) == MergeBundle(t, BundleOf(u, repo))

(* The supersessions of two replicas, taken together, lead from the target *)
(* of e back to its source.  Each replica refuses the edge that closes the *)
(* cycle in its own graph, so they may differ on which of the edges of the *)
(* cycle is confirmed (the known limit in the header of mem-sync).         *)
Contested(t, u, e) ==
    Reaches([t EXCEPT !.edges = [x \in Edges |->
                IF t.edges[x].state = "Absent" THEN u.edges[x] ELSE t.edges[x]]],
            e[2], e[1])

(* The same nodes of the tenant, and the same edges out of them in the     *)
(* same state but for contested ones: what tenant_root hashes, and more.   *)
Agree(t, u, repo) ==
    /\ \A id \in Ids : RepoOf[id] = repo => t.nodes[id] = u.nodes[id]
    /\ \A e \in Edges : RepoOf[e[1]] = repo =>
         t.edges[e].state = u.edges[e].state \/ Contested(t, u, e)

(* However two replicas wrote apart, and whatever merges were cut short or *)
(* came late, a second round of pulling a tenant from each other, if they  *)
(* can resolve each other's edges, leaves both with the same nodes, in all *)
(* advisory fields, and the same edge states, except on a cycle of their   *)
(* supersessions.  The first round is not enough: a node put again over    *)
(* its retirement is retired again on the far side only.                   *)
ReplicasConverge ==
    \A r \in Replicas : \A s \in Replicas \ {r}, repo \in Repos :
        LET r1 == Pull(db[r], db[s], repo)
            s1 == Pull(db[s], r1, repo)
            r2 == Pull(r1, s1, repo)
        IN  /\ Resolvable(db[r], BundleOf(db[s], repo))
            /\ Resolvable(db[s], BundleOf(db[r], repo))
            => Agree(r2, s1, repo)

(* A bundle that arrives again at once changes nothing.                    *)
MergeIdempotent ==
    \A r \in Replicas, b \in bundles :
        MergeBundle(MergeBundle(db[r], b), b) = MergeBundle(db[r], b)

(* No merge un-corrects: a status never goes back and a confirmed edge is  *)
(* never a proposal again on a replica, late and stale bundles included.   *)
MergeOnlyCorrects ==
    \A r \in Replicas, b \in bundles :
        LET t == MergeBundle(db[r], b)
        IN  /\ \A id \in Ids : Has(db[r], id) =>
                 Rank(t.nodes[id].status) >= Rank(db[r].nodes[id].status)
            /\ \A e \in Edges : db[r].edges[e].state = "Confirmed" =>
                 t.edges[e].state = "Confirmed"

(* What holds on every replica: types with no end of validity on what is   *)
(* current, and merges that can be repeated.                               *)
SyncInv == SyncTypeOK /\ MergeIdempotent
=============================================================================
