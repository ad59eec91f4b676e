----------------------------- MODULE McpSessions -----------------------------
(***************************************************************************)
(* The write tools of the MCP server (crates/mem-mcp) and the signed       *)
(* memory-diff merge they call (crates/mem-assert), over the store of      *)
(* MemStore.                                                               *)
(*                                                                         *)
(* Sessions of several principals share one store.  A write call takes the *)
(* daemon-wide write gate (lock_writes) for its whole body, so calls do    *)
(* not interleave with each other; but a body makes several store writes,  *)
(* each its own durable batch, and the process may die between any two.    *)
(* "pending" is what the call that holds the gate has still to write.      *)
(*                                                                         *)
(* A signature covers a node's content hash and an edge's key only, so     *)
(* quarantine, status and validity travel unsigned: a diff may carry any   *)
(* values of them under any signer's name.                                 *)
(*                                                                         *)
(* Times: the relay clock-skew window of apply_diff is left out; every     *)
(* confirmed Supersedes is stamped with the confirmation clock.            *)
(***************************************************************************)
EXTENDS MemStore, NodeJoin

CONSTANTS
    Principals,   \* sessions with a signing identity; a principal is its key
    WriteGrant,   \* the repos each principal's grant lets it write
    Offered,      \* bound: the edges clients propose and confirm
    Relayed,      \* bound: the edge copies diffs carry
    MaxDiff,      \* bound on the edges of one diff
    Nobody

(* An edge as a diff carries it.                                           *)
EdgeCopy == [key : EdgeKeys, state : {"Quarantined", "Confirmed"}, asserter : Keys]

ASSUME McpSessionsAssumption ==
    /\ Principals \subseteq Keys
    /\ WriteGrant \in [Principals -> SUBSET Repos]
    /\ Offered \subseteq EdgeKeys
    /\ Relayed \subseteq EdgeCopy
    /\ MaxDiff \in Nat
    /\ Nobody \notin Keys

VARIABLES
    insertedBy,  \* meta rows edge-inserted-by: who inserted the proposal, sealed
    pending,     \* writes the gate's holder has still to make
    writer,      \* history: the principal whose call last wrote each edge row
    caller       \* history: the principal whose call made the last step

sessionVars == <<nodes, edges, keyring, insertedBy, pending, writer, caller>>

(* needs_second_party *)
NeedsSecondParty(kind) == kind \in {"Supersedes", "Refutes", "Contradicts"}

MetaRow == [by : Principals \cup {Nobody}, gen : Nat]

(* The gate is free, or its holder has meta rows and then supersessions to *)
(* write.                                                                  *)
NoCall == [who |-> Nobody, meta |-> {}, supersede |-> {}]

NodeCopy == [id : Ids, status : {"Active", "Superseded", "Archived"},
             validFrom : Time, validTo : Time \cup {Open}]

(* The store keeps its types under the write tools, and the inserter on    *)
(* record is a principal with a session.                                   *)
SessionsTypeOK ==
    /\ TypeOK
    /\ insertedBy \in [EdgeKeys -> MetaRow]
    /\ pending \in [who : Principals \cup {Nobody}, meta : SUBSET EdgeKeys,
                    supersede : SUBSET EdgeCopy]
    /\ writer \in [EdgeKeys -> Principals \cup {Nobody}]
    /\ caller \in Principals \cup {Nobody}

GateFree == pending = NoCall

(* authorize(Op::Write, repo) for every repo the call touches.             *)
MayWrite(p, repos) == repos \subseteq WriteGrant[p]

(* The inserter get_meta reads back: Nobody when absent or shredded.       *)
RecordedInserter(k) ==
    IF Readable(RepoOf[k[2]], insertedBy[k].gen) THEN insertedBy[k].by ELSE Nobody

(* Mutant: the signer is recorded in place of the inserter.                *)
PutInserterSigner(k, p) ==
    /\ insertedBy' = [insertedBy EXCEPT ![k] =
                        [by |-> edges[k].asserter, gen |-> SealGen(keyring, RepoOf[k[2]])]]
    /\ keyring' = EnsureTenantKey(keyring, RepoOf[k[2]])

(* put_meta(inserted_by_key), sealed for the repo of the target.           *)
PutInserter(k, p) ==
    /\ insertedBy' = [insertedBy EXCEPT ![k] =
                        [by |-> p, gen |-> SealGen(keyring, RepoOf[k[2]])]]
    /\ keyring' = EnsureTenantKey(keyring, RepoOf[k[2]])

-----------------------------------------------------------------------------
SessionsInit ==
    /\ Init
    /\ insertedBy = [k \in EdgeKeys |-> [by |-> Nobody, gen |-> 0]]
    /\ pending = NoCall
    /\ writer = [k \in EdgeKeys |-> Nobody]
    /\ caller = Nobody

(* memory.assert: the author's own node, minted fresh and put over         *)
(* whatever the store holds.                                               *)
CallAssert(p, id, from) ==
    /\ GateFree
    /\ AuthorOf[id] = p
    /\ PlaneOf[id] = "Asserted"
    /\ MayWrite(p, {RepoOf[id]})
    /\ PutNode(id, [status |-> "Active", validFrom |-> from, validTo |-> Open])
    /\ caller' = p
    /\ UNCHANGED <<insertedBy, pending, writer>>

(* memory.propose_edge up to add_edge: both endpoints readable, nothing    *)
(* load-bearing under the key.  A proposal that contests a node has its    *)
(* inserter still to record.                                               *)
CallProposeEdge(p, k) ==
    /\ GateFree
    /\ NodeVisible(k[1]) /\ NodeVisible(k[2])
    /\ MayWrite(p, {RepoOf[k[1]], RepoOf[k[2]]})
    /\ ~LoadBearing(k)
    /\ AddEdge(k, [state |-> "Quarantined", plane |-> "Asserted", asserter |-> p])
    /\ writer' = [writer EXCEPT ![k] = p]
    /\ pending' = IF NeedsSecondParty(k[3])
                  THEN [NoCall EXCEPT !.who = p, !.meta = {k}]
                  ELSE NoCall
    /\ caller' = p
    /\ UNCHANGED insertedBy

(* Mutant: only the recorded inserter is compared.                         *)
SecondPartyAllowsSigner(p, k) ==
    \/ ~NeedsSecondParty(k[3])
    \/ p = AuthorOf[k[2]]
    \/ RecordedInserter(k) \notin {Nobody, p}

(* The second-party rule of call_confirm_edge: the target's author, or a   *)
(* writer that neither inserted nor signed the proposal.                   *)
SecondPartyAllows(p, k) ==
    \/ ~NeedsSecondParty(k[3])
    \/ p = AuthorOf[k[2]]
    \/ /\ RecordedInserter(k) \notin {Nobody, p}
       /\ edges[k].asserter # p

(* memory.confirm_edge.                                                    *)
CallConfirmEdge(p, k, now) ==
    /\ GateFree
    /\ NodeVisible(k[1]) /\ NodeVisible(k[2])
    /\ MayWrite(p, {RepoOf[k[1]], RepoOf[k[2]]})
    /\ SecondPartyAllows(p, k)
    /\ ConfirmEdge(k, now)
    /\ caller' = p
    /\ writer' = [writer EXCEPT ![k] = p]
    /\ UNCHANGED <<insertedBy, pending>>

-----------------------------------------------------------------------------
(* memory.merge_diff.                                                      *)

(* is_as_asserted *)
AsAsserted(n) == n.status = "Active" /\ n.validTo = Open

JoinChanges(n) == JoinNode(nodes[n.id], n) # nodes[n.id]

(* Mutant: no author gate.                                                 *)
NodeAcceptedFromAnyone(p, n) == PlaneOf[n.id] = "Asserted"

(* The node checks of apply_diff: a stranger's copy may introduce a node   *)
(* as it was asserted, and may not change a stored one.                    *)
NodeAccepted(p, n) ==
    /\ PlaneOf[n.id] = "Asserted"
    /\ p = AuthorOf[n.id] \/ (IF NodeVisible(n.id) THEN ~JoinChanges(n) ELSE AsAsserted(n))

NodeWritten(n) == ~NodeVisible(n.id) \/ JoinChanges(n)

(* The row apply_diff writes for an accepted copy.                         *)
MergedNode(n) ==
    LET fresh == [status |-> n.status, validFrom |-> n.validFrom, validTo |-> n.validTo]
        joined == JoinNode(nodes[n.id], n)
        row == IF NodeVisible(n.id) THEN joined ELSE fresh
    IN  [status |-> row.status, validFrom |-> row.validFrom, validTo |-> row.validTo,
         gen |-> SealGen(keyring, RepoOf[n.id])]

SameAsStored(e) ==
    /\ EdgeVisible(e.key)
    /\ edges[e.key].state = e.state
    /\ edges[e.key].asserter = e.asserter
    /\ edges[e.key].plane = "Asserted"

(* An edge apply_diff passes over: already there, or a demotion.           *)
EdgeSkipped(e) == SameAsStored(e) \/ (e.state = "Quarantined" /\ LoadBearing(e.key))

(* The edge checks of apply_diff for an edge it would write.  ids are the  *)
(* nodes the diff itself carries.                                          *)
EdgeAccepted(p, e, ids) ==
    LET targetKnown == e.key[2] \in ids \/ NodeVisible(e.key[2])
        contested == targetKnown /\ AuthorOf[e.key[2]] # p
    IN  /\ EdgeVisible(e.key) => edges[e.key].asserter = p
        /\ NeedsSecondParty(e.key[3]) /\ e.state = "Quarantined" /\ contested
             => e.asserter = p
        /\ IF e.key[3] = "Supersedes" /\ e.state = "Confirmed"
           THEN ~contested
           ELSE ~EdgeVisible(e.key) /\ e.state = "Confirmed" => e.asserter = p

(* Each endpoint's repo is known to merge_diff, from the diff or the store *)
EndpointsKnown(e, ids) ==
    \A i \in {1, 2} : e.key[i] \in ids \/ NodeVisible(e.key[i])

DiffRepos(ns, es) ==
    {RepoOf[n.id] : n \in ns} \cup {RepoOf[e.key[i]] : e \in es, i \in {1, 2}}

(* The tenant an edge of the batch is sealed for: the endpoints of the     *)
(* batch count as stored.                                                  *)
BatchTenant(k, ids) == IF k[1] \in ids \/ HasNode(k[1]) THEN RepoOf[k[1]] ELSE RepoOf[k[2]]

(* Several ensure_tenant_key calls, in any order.                          *)
EnsureTenantKeys(kr, rs) == [r \in Repos |-> IF r \in rs THEN EnsureTenantKey(kr, r)[r] ELSE kr[r]]

(* merge_diff up to the commit of apply_diff: all checks first, then the   *)
(* nodes and the plain edges in one batch.  The proposals' inserters and   *)
(* the supersessions are still to be written.                              *)
CallMergeDiff(p, ns, es) ==
    LET ids == {n.id : n \in ns}
        live == {e \in es : ~EdgeSkipped(e)}
        supersede == {e \in live : e.key[3] = "Supersedes" /\ e.state = "Confirmed"}
        plain == live \ supersede
        written == {n \in ns : NodeWritten(n)}
        sealed(e) == [state |-> e.state, plane |-> "Asserted", asserter |-> e.asserter,
                      repo |-> BatchTenant(e.key, {n.id : n \in written}),
                      gen |-> SealGen(keyring, BatchTenant(e.key, {n.id : n \in written}))]
        todo == [who |-> p, supersede |-> supersede,
                 meta |-> {e.key : e \in {x \in plain : NeedsSecondParty(x.key[3])
                                                        /\ x.state = "Quarantined"}}]
    IN  /\ GateFree
        /\ ns \cup es # {}
        /\ \A n, m \in ns : n.id = m.id => n = m
        /\ \A e, d \in es : e.key = d.key => e = d
        /\ \A e \in es : EndpointsKnown(e, ids)
        /\ MayWrite(p, DiffRepos(ns, es))
        /\ \A n \in ns : NodeAccepted(p, n)
        /\ \A e \in live : EdgeAccepted(p, e, ids)
        /\ nodes' = [id \in Ids |->
             IF \E n \in written : n.id = id
             THEN MergedNode(CHOOSE n \in written : n.id = id) ELSE nodes[id]]
        /\ edges' = [k \in EdgeKeys |->
             IF \E e \in plain : e.key = k
             THEN sealed(CHOOSE e \in plain : e.key = k) ELSE edges[k]]
        /\ keyring' = EnsureTenantKeys(keyring,
             {RepoOf[n.id] : n \in written}
               \cup {BatchTenant(e.key, {n.id : n \in written}) : e \in plain})
        /\ writer' = [k \in EdgeKeys |-> IF \E e \in plain : e.key = k THEN p ELSE writer[k]]
        /\ pending' = IF todo.meta = {} /\ todo.supersede = {} THEN NoCall ELSE todo
        /\ caller' = p
        /\ UNCHANGED insertedBy

(* The gate is released with the last write.                               *)
Release(call) == IF call.meta = {} /\ call.supersede = {} THEN NoCall ELSE call

(* The next put_meta of propose_edge or apply_diff.                        *)
RecordInserter(k) ==
    /\ k \in pending.meta
    /\ PutInserter(k, pending.who)
    /\ pending' = Release([pending EXCEPT !.meta = @ \ {k}])
    /\ UNCHANGED <<nodes, edges, writer, caller>>

(* The next apply_supersession of apply_diff, once the inserters are in.   *)
MergeSupersede(e, at) ==
    /\ pending.meta = {}
    /\ e \in pending.supersede
    /\ ApplySupersession(e.key[1], e.key[2], "Asserted", e.asserter, at)
    /\ writer' = [writer EXCEPT ![e.key] = pending.who]
    /\ pending' = Release([pending EXCEPT !.supersede = @ \ {e}])
    /\ UNCHANGED <<insertedBy, caller>>

(* A supersession the store refuses ends the merge with an error: what was *)
(* committed stays.                                                        *)
MergeRejected(e) ==
    /\ pending.meta = {}
    /\ e \in pending.supersede
    /\ ~MaySupersede(e.key[1], e.key[2], "Asserted")
    /\ pending' = NoCall
    /\ UNCHANGED <<nodes, edges, keyring, insertedBy, writer, caller>>

(* The daemon dies in the middle of a call and is started again.           *)
Crash ==
    /\ ~GateFree
    /\ pending' = NoCall
    /\ UNCHANGED <<nodes, edges, keyring, insertedBy, writer, caller>>

(* The operator's shred tool, which needs the daemon stopped.              *)
OperatorShred(r) ==
    /\ GateFree
    /\ ShredTenant(r)
    /\ caller' = Nobody
    /\ UNCHANGED <<insertedBy, pending, writer>>

SessionsNext ==
    \/ \E p \in Principals, id \in Ids, from \in Time : CallAssert(p, id, from)
    \/ \E p \in Principals, k \in Offered : CallProposeEdge(p, k)
    \/ \E p \in Principals, k \in Offered, now \in Time : CallConfirmEdge(p, k, now)
    \/ \E p \in Principals, n \in NodeCopy : CallMergeDiff(p, {n}, {})
    \/ \E p \in Principals, e, d \in Relayed :
         Cardinality({e, d}) <= MaxDiff /\ CallMergeDiff(p, {}, {e, d})
    \/ \E k \in EdgeKeys : RecordInserter(k)
    \/ \E e \in Relayed, at \in Time : MergeSupersede(e, at)
    \/ \E e \in Relayed : MergeRejected(e)
    \/ Crash
    \/ \E r \in Repos : OperatorShred(r)

SessionsSpec == SessionsInit /\ [][SessionsNext]_sessionVars

-----------------------------------------------------------------------------
(* Properties.                                                             *)

Retires(id) ==
    /\ NodeVisible(id) /\ nodes[id].status = "Active"
    /\ nodes'[id].status = "Superseded"

(* Nobody retires another principal's node alone: a retirement is the      *)
(* author's own doing, or the confirmation of a proposal that a different  *)
(* principal put there, wherever a crash separated a proposal from the     *)
(* record of its inserter and whatever signer's name a diff carried        *)
(* (PBA-L6b-002, GHSA-p545).                                               *)
RetirementNeedsTwo ==
    [][\A id \in Ids : Retires(id) =>
         \/ caller' = AuthorOf[id]
         \/ \E f \in Ids :
              /\ edges[SupersedesEdge(f, id)].state = "Quarantined"
              /\ edges'[SupersedesEdge(f, id)].state = "Confirmed"
              /\ writer[SupersedesEdge(f, id)] # caller'
      ]_sessionVars

(* A stored node's status and validity change only by its author's call or *)
(* by a confirmed supersession: no stranger's diff rewrites them           *)
(* (is_as_asserted and the author gate of apply_diff).                     *)
OnlyAuthorsEdit ==
    [][\A id \in Ids : NodeVisible(id) /\ nodes'[id] # nodes[id] =>
         caller' = AuthorOf[id] \/ Retires(id)
      ]_sessionVars

(* What holds between any two writes of the write tools: types, and no     *)
(* cycle of load-bearing supersessions, whether they were confirmed or     *)
(* merged from a diff.                                                     *)
SessionsInv == SessionsTypeOK /\ SupersessionAcyclic
=============================================================================
