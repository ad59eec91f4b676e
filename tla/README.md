# Verification of citrate-memories

citrate-memories is a content-addressed knowledge graph ("memory DAG") that
agents and people share.  Git history, documents and an on-chain catalog are
ingested into its *Derived* plane; principals assert signed claims into its
*Asserted* plane; replicas of a tenant exchange bundles.  This directory holds
TLA+ models of the parts where order, failure and concurrency decide whether
the result is right, the TLC runs that check them on small instances, and TLAPS
proofs for any instance.

## The system

| Part | State | Operations | Hard because |
|---|---|---|---|
| store (`mem-store`) | rows of nodes, edges, meta, keyring | `put_node`, `add_edge`, `commit`, `confirm_edge`, `apply_supersession`, `set_node_status`, `shred_tenant`, `migrate_seal_v2`, `checkpoint` | supersessions must stay acyclic over years of unrelated writes; a destroyed key must never come back |
| join (`mem-assert/join.rs`, `mem-core/belnap.rs`) | none | `merge_node` | must be a semilattice join or replicas diverge |
| signed diffs (`mem-assert`) | none of its own | `apply_diff` | signatures cover identities only; status, validity and quarantine travel unsigned |
| MCP server (`mem-mcp`) | write gate, session identity, socket, checkpoints | `assert`, `propose_edge`, `confirm_edge`, `merge_diff`, reads, start, rolling checkpoints | several principals, several store writes per call, crashes between them; power failures |
| audit chain (`mem-authz/audit.rs`) | log, head sidecar, flock, in-memory chain | `open`, `append` | crash between log and head, two processes, failed writes |
| grants (`mem-authz/grant.rs`) | none | `check`, attenuation | membership, token and per-request grant are intersected in different places |
| git ingest (`mem-ingest`) | watermarks | `ingest`, `ingest_incremental`, `ingest_branches`, `reap_branches` | rewritten history, partial ingests |
| chain ingest (`mem-ingest/chain.rs`) | cursor | catalog and event walks | re-orgs, roll-backs |
| query (`mem-query`) | per-tenant index cache | `tenant_scan`, `search`, `storyline`, `neighbors` | readers take no lock, see every intermediate state and fill a cache from it |
| sync (`mem-sync`) | none of its own | `export_tenant`, `merge_bundle`, `tenant_root`, anchors | bundles are late, repeated, reordered, half merged |
| gateway (`mem-gateway`) | ingest queue, mirrors, control plane, allowlist, work bounds, layout scene | webhook, drain, reconcile, HTTP routes, BYOM, connect tokens, checkpoints | two background tasks, lost webhooks, restarts; concurrent requests, clients that hang up, files edited under a running process |
| corpus builder (`mem-corpus`) | release directory, lock, record per tenant | build, write, verify, import | interruption at any point, damaged copies, licences, vectors matched by position |
| index (`mem-index`), web application, clients, scripts | — | — | numeric or presentation code |

Sessions and the ingest worker write through one store under a daemon-wide
write gate; readers hold no lock.  The gateway's webhook handler and reconciler
only fill a queue, which the drain task empties.  The audit chain is appended
to by daemon and gateway before a call is answered.  Sync writes the store like
a session, but node by node.

What makes each part correct: load-bearing supersessions form a DAG, an edge
that becomes load-bearing retires its target in the same write, planes do not
mix, forgotten stays forgotten (store);
nobody retires or edits another principal's node alone (sessions); what was
acknowledged is in every chain that opens, and a crash never makes the chain
unopenable (audit); default recall shows merged work only, the watermark is
honest, the feed catches up (git ingest); corrections are
acyclic, the cursor is honest and orphaned blocks are retired (chain ingest);
replicas that talk to each other agree but on contested supersessions, and no
merge un-corrects (sync); nobody acts beyond membership, token and
per-request grant, unaudited or beyond the work bounds, and every request ends
(gateway); a request sees only what was canonical while it ran, and what a cache
hides is a write that changed no key or a read that failed (query); every row
that is there opens, or its tenant was shredded, and a checkpoint can always be
restored (sealing); an installed release is whole and licensed, and found by one
embedder while one kind of build imports (corpus).

## Modules

**MemStore** – the store.  `nodes`, `edges` and `keyring` are the column
families.  What the content hash covers (repo, plane, author) is a constant
function of the identifier, the rest of a row is state.  `edges_out` and
`edges_in` are always written in one batch and are one table here.  A row
carries the key generation it is sealed under, 0 being plaintext; `Readable`
decides whether it opens, and a row that does not open is skipped by every read
but not by `has_node`, as in the code.  There is one action per public
operation, since each ends in one atomic batch; an operation's errors and
"nothing to do" answers write nothing and are the negation of its guard.
`PutRows` are the rows callers hand to `put_node`, of any status and validity:
document ingest stores rows its front matter retires, diffs and bundles store
what an author or a peer sent, so a retired row need not have a Supersedes edge
into it nor an end.
`ReachableVia` states the breadth-first search by the least closed set, which
is what lets the DAG theorem be proved without induction over paths.

**NodeJoin** – `merge_node` on status, validity, trust and confidence.

**McpSessions** – the write tools over MemStore (by EXTENDS) and NodeJoin.
`pending` is what the call that holds the write gate has still to write; a
crash drops it.  `insertedBy` is the meta row of the second-party rule, sealed
like any other.  `writer` and `caller` are history variables: who really wrote
an edge row and who made the last step; no guard reads them.  A diff may carry
any unsigned values under any signer's name.  The relay clock-skew window is
left out, so the model allows older timestamps than the code.

**AuditChain** – log, head, lock, and per process where it is in `open` or
`append`.  A record's hash stands for the chain up to it.  Lines may be torn or
lack their newline; bytes written after such a line are glued to it.  `Faults`
says what may go wrong besides a process that dies: a failed line write, a
failed head write, edits of the log while nobody has it open.  `faulted` is a
history variable: whether any of these has happened.

**IngestFeed** – git as a constant commit graph with movable tips, the worker's
clones, the queue, the drain task and the reconciler step by step, the commit
and the watermark of an ingest as separate steps, and the split that
`in_flight_map` and `canonical_reachable` compute from the stored edges.
`merged` is a history variable: every commit that was ever reachable from the
default branch.  Every loop of the worker may be given up half way: an ingest
before its commit or its stamp, the branches, the reaping.  The remote keeps the
default branch it was cloned with (`ensure_mirror` resets to the `origin/HEAD`
of clone time and would not follow a renamed one), and a list of commits has
parents before children (`git log --reverse`; a committer's clock far behind
could break that).

**ChainWalk** – catalog ingest and the walk over blocks.  A block is the
sequence of labels that leads to it, as its hash covers its parent's.  `call` is
what the running call has read and has still to write: every commit,
supersession, cursor and watermark write is a step, and a call may die before
any of them.  Checkpoints and contracts are tables of statuses and supersessions.

**ReplicaSync** – tables per replica and bundles under way.  `MergeBundle` is
the whole of `merge_bundle`: authorization, nodes, proposals, then the
supersessions in key order.  `MergeInterrupted` is a crash in the node loop,
`Lose` ends the repetitions of a bundle.  All edges are Supersedes, the kind
with both paths.  `Minted` are the rows a node may be minted with, Active or
retired by front matter, by whichever replica.

**Gateway** – the gateway process.  `control` is the `Control` value in memory,
`disk` the file it was read from; `req` is one record per request in flight,
split where the code drops one lock and takes the next.  Grants are sequences of
scopes of which the first match decides.  The `_meta` grant of a JSON-RPC line,
the connect token and the membership are intersected where the code does it, and
`NeighborsReadable` is what a cross-repo read may show.  `acted` and `touched`
count what was really done; `audit` is the length of the chain and the number of
its records per principal and event; the log may be full.  The
semaphore, the places per principal and the token bucket are state, and so is
the write gate, which an external checkpoint holds across its RPC.  The operator
edits `control.json` and the allowlist while the process runs.  A token is the
record of the claims that verification returns.  A BYOM request has `lines`,
which are capped, of which `calls` are tool calls or cannot be parsed and are
paid for; the others touch nothing.  Paying, claiming a place and joining the
queue are one step: each is a mutex or the semaphore of its own in the code, but
what another request does in between commutes with it or is a refusal it could
as well get before.

**ReadCaches** – readers beside writers.  Every table a request reads is a step,
and what it has read so far is its record; the ingest commits, stamps and
commits branches in between, `/assert` stores and answers.  `cache` and `scene`
are the two things kept for later requests.  A read of the watermark may fail:
the code then goes on as if there were none, with an empty set of merged commits
or under another key (`WatermarkOf`); any other failing read ends the request.
A scene is the rows of the federation's tenant, if it has two, or the first
`LayoutCap` rows of the scan, which come in the order of their ids (`Rank`,
`BranchRank`).  `seen`, `steady`, `late`, `unkeyed`, `relabelled`, `rewritten`,
`blind` and `missed` are history.  Canonical is what no branch contains, or the
watermark's commit has among its ancestors.  Two merges of steps are benign: the
BranchContains edges of all branches are read at once, and a branch's batch and
its watermark are one write, since no branch is ingested in between and recall
does not read the branch watermark.

**SealedStore** – a store on disk.  `past` holds the disks a power failure may
bring back: a put adds one, a synced batch or a checkpoint empties it.  A key is
a number of its own, so that two keys of one generation can be told apart.
Opening, migration, shredding, the daemon's start and rolling checkpoints are
steps of processes that compete for the database lock; a kill keeps what was
put, a power failure does not.  A store that is found may have plaintext nodes
from before encryption, which nothing seals, and plaintext edges and marks, also
of a tenant an older release had shredded: that shred reached only what was
sealed, and the migration seals the rest under a fresh key.  `before` are the
rows older than their owner's shred, `missed` those such a shred did not reach.

**CorpusRelease** and **KnowledgeInstall** – from checkouts to an installed
corpus.  A file is a version (or missing, unfit, binary, refused); a node is a
file, a version and a part of it; a hash is the value it was taken of.  The
build is one step, writing its files one step each in the order of
`write_corpus`; copies arrive file by file and may be damaged; an import
verifies, embeds and merges batch by batch and records the tenant last.  Each
import chooses its embedder: from the first row of the store, or, in a fresh
store and likewise when the scan fails, from `CITRATE_MEM_EMBED`; a build without
the transformer feature always hashes.  `loads` is the history of these choices.
A batch is one step, where `merge_bundle` writes node by node: a death inside it
leaves a state that one with a smaller batch reaches, and nothing reads the
store meanwhile.
KnowledgeInstall is the abstract specification: editions are published, items
of one edition arrive in any portions, an edition is recorded only when all of
it is there.  CorpusRelease implements it under the mapping `Install`: the
editions are the bundles of finished builds, the known items the nodes and edges
of the store, the record the `meta` row.

`MC*.tla` and their `.cfg` files are the instances.  Operators marked *Mutant*
are faulty variants of the definition after them; a run in which one replaces
the definition must fail, which shows that the property depends on that code.

## Runs

| Run | Instance | Shows |
|---|---|---|
| store | 2 nodes, one on each plane, put Active or retired, 1 encrypting tenant, 2 generations, two times | acyclicity, planes, an edge and the retirement it causes in one write, no demotion, forgotten stays forgotten |
| sessions_two | 2 principals and a key without a session, 2 nodes in 2 tenants, all write tools, crashes, shredding | two-party rule, author gate, no cycle from supersessions merged both ways, also when the records of inserters vanish |
| audit | 2 processes, 3 lines, failed writes, edits between runs | no acknowledged record is lost; a mere crash leaves a log that opens; head never ahead |
| feed | a default branch, a branch and their merge, 2 pushes with force-push, 1 restart, under fairness | recall shows only what was merged; honest watermark; the feed catches up without webhooks |
| chain | 2 forks of 2 blocks, 1 watched transaction, 1 role with 2 addresses, any number of calls and re-orgs | corrections stay acyclic, honest cursor, orphans of interrupted walks are retired |
| sync | 2 replicas, 3 nodes in 2 tenants, one minted Active or retired, supersessions both ways round and one across tenants, two times, 4 local writes, 2 bundles under way | convergence but on contested edges, idempotence and monotonicity with late, repeated, reordered and half merged bundles |
| corpus | 2 tenants, a docs source of 2 files, a skills source of 1 skill with 1 ref, 5 checkouts, imports by both kinds of build | a directory with a manifest verifies; nothing ships without notice; vectors are a node's own, of one model while the same kind of build imports; refinement of KnowledgeInstall; an update that is carried through completes |
| gateway | 2 principals, 2 repos, 2 requests at once, 4 worlds | authority, audit, work bounds, checkpoint chain, provisioning, every request ends |
| recall | 4 commits, 1 branch, 3 claims in 2 tenants, a cap of 2 rows, up to 2 readers, 10 worlds | only canonical items; searches are complete; the cache key is enough for pushes without rewrites; the kept scene covers what the cap and the federation let it; each with the exceptions below; requests end |
| sealed | 2 tenants, a node, 2 edges, 3 meta rows, 2 processes, 7 worlds | keys agree, nothing lost, forgotten rows stay so with the exceptions below, honest marker, restorable checkpoint, live socket, a start ends |

Except for the store, the type invariant of a module and the parts that say its
bookkeeping is sound are one invariant, a conjunction of named parts; each part
has a mutant of its own that breaks it:

| Invariant | Parts |
|---|---|
| `SessionsInv` | `SessionsTypeOK`, `SupersessionAcyclic` |
| `AuditInv` | `AuditTypeOK`, `HeadNeverAhead` |
| `FeedInv` | `FeedTypeOK`, `WatermarkHonest` |
| `ChainInv` | `ChainTypeOK`, `CorrectionsAcyclic`, `CursorHonest` |
| `SyncInv` | `SyncTypeOK`, `MergeIdempotent` |
| `CorpusInv` | `CorpusTypeOK`, `VectorsOwn`, `OneModel` |
| `ReleaseSound` | `BuiltVerifies`, `NoticeCovers` |
| `GatewayInv` | `GatewayTypeOK`, `SlotsConserved`, `SpendBounded`, `CheckpointsChain` |
| `RecallInv` | `RecallTypeOK`, `SceneCovers` |
| `SealedInv` | `SealedTypeOK`, `KeysAgree`, `MarkerHonest`, `SocketLive` |

Runs that end in a counterexample, each against a sentence of the repository
(quoted in PROJECT.json):

| Run | The code |
|---|---|
| gateway_revoke | a just-in-time save writes the control plane in memory over the operator's edit: a member revoked in both files is back after a restart |
| feed_promote | incremental ingest leaves out the edge to the previous head, so merged branch commits drop out of canonical recall |

Other behaviours are in the models without a property of their own, because the
code does not keep what a comment or a reader might expect.  The ones worth
knowing (the gravest are also under "hazards"):

* store and sessions: the cycle guard follows quarantined proposals;
  `call_assert` puts an Active row over a superseded node;
* audit: `open` reads the log before it locks it, so a process that waited may
  repeat a sequence number, and so does an append after a failed head write;
  a crash between creating the log and its head leaves a log that `open` refuses;
* chain ingest: a catalog ingest that dies after its batch may leave the old
  address Active for good; a re-walk below the cursor that dies is not resumed
  where it stopped;
* sync: a bundle with an unknown far endpoint is refused whole; a confirmed
  supersession is merged by overwriting the local edge (`ReplicasConverge` is
  about rows and edge states, not about an edge's time or provenance).  Two
  replicas whose supersessions, taken together, form a cycle refuse each other's
  and may keep different ones (the limit named in the header of `mem-sync`):
  `Contested` is that exception.  One round of pulls is not enough, since a node
  put anew over its retirement is retired again on the far side only;
* feed: a reaping that fails leaves the nodes of merged or advanced branches
  Active until the next event; only those of deleted branches count as drift
  (`CaughtUp` asks for no more);
* sealing: a power failure or a restored checkpoint brings a shredded key back;
  the migration seals a branch watermark under a tenant that does not exist, so
  it outlives the shred; it leaves plaintext nodes, which a shred does not
  touch; and it seals, readable again for good, the plaintext rows of a tenant
  shredded before the upgrade, until that tenant is shredded once more
  (`Forgotten` states exactly these exceptions); with the clock set back the
  newest checkpoint is pruned;
* recall: the watermark of a result may be newer than its items; a claim
  asserted again with an embedding is searchable under an old cache key
  (`SearchComplete` names this exception).  A watermark that could not be read
  counts as none: merged commits that a branch still contains are missing from
  the answer, and from the index, which is cached under the good key for later
  searches (`SearchComplete` lets such a search miss labelled commits and
  nothing else); read as none for the key, it stores or finds an index under
  the key of a store without watermark, of which nothing is claimed.  A layout
  that scanned before an assertion and stores its scene after the drop hides the
  claim until the next assertion, although a comment says the constellation
  "rebuilds on demand"; writes other than `/assert` drop nothing, so a scene of
  the capped sample also stays when the federation comes to two nodes
  (`SceneCovers` names both).  The key of the index cache, watermark and
  node count, does not see edges between stored nodes: once the default branch
  was rewritten, ingesting a branch whose commits are all stored labels them as
  in flight under the old key, and a cached index goes on reporting them; and
  storing a rewrite anew can make them searchable before the stamp.  A
  push between a scan and its read of the watermark makes the branch commits it
  merges look in flight, since the new head is not in the scan.  These are the
  exceptions for labelled commits in `OnlyCanonical` and `SearchComplete`;
* gateway: a failed save leaves the membership in memory; BYOM ignores a
  suspended org and does not audit provisioning; a call refused for want of a
  place has paid for its lines;
* corpus: batches of a tenant that fails stay in the store; a release only adds;
  an import by a build without the transformer feature, or one whose scan of the
  store failed, hashes into a store of BGE vectors (`SameBuild` is the premise of
  `OneModel`).

**Bounds.** `MaxTime` (timestamps), `MaxGen` (key generations), `MaxDiff` (edges
per diff), `Offered` and `Relayed` (edges clients name and diffs carry),
`MaxLog` (log lines), `MaxPushes`, `MaxCrashes`, `MaxExports` (bundles under
way), `MaxWrites` (what replicas write on their own), `MaxBuilds`, `MaxFaults`
(deaths, damage, shreds and odd choices of an embedder). `LayoutCap` is the
code's 1500, scaled down so that rows compete for places. Gateway, ReadCaches
and SealedStore take their bounds from `Worlds`: each world is a mix of inputs
or a store found on disk, with a bound on every kind of event that could go on
for ever, and is chosen in the initial state; together the worlds reach every
action, and each is small enough to be explored whole. `Burst`, `Refill`,
`MaxLines`, `MaxSlots`, `PerPrincipal`, `GrantTTL` and `ConnectTTL` are the
gateway's own limits, scaled down so that two requests meet each of them. Two
times are enough for "before" and "after"; two generations for a key that is
destroyed and re-minted; three log lines for one acknowledged record, one in
flight and one too many; two pushes for a branch and its merge, or a merge and a
rewrite. Where TLC's bound is small for the question (longer cycles, more
tenants and generations, copies with different times), a theorem covers all
instances.

**Deadlock** is checked except in audit and in the four runs over worlds or
builds (corpus, gateway, recall, sealed): a chain that open refuses really
stops, and the others have nothing left to do once clients, operator and faults
have used up their bounds.  There the liveness properties say that nobody is
left waiting.

**Fairness.**  feed: both tasks are `loop`s on the async runtime
that sleep and run again whatever the last round returned (`spawn`), hence weak
fairness of each.  A fetch, an `ls-remote` or a store write that is tried again
and again succeeds infinitely often, hence strong fairness of those steps (of the
reaping: of archiving some node).
Webhooks get no fairness: they may never arrive.  gateway and recall: a handler
that was entered goes on (the runtime and the blocking pool schedule it, an RPC
answers or times out), hence weak fairness of a request's own steps; arrivals,
clients that hang up, the operator, crashes and the clock owe nothing.  sealed:
a process that has started goes on until it serves or exits.  corpus: a build
writes on, the updater copies every file in the end, the app starts an import
as long as one is due, and an import goes on; damage and deaths are bounded by
`MaxFaults`.

## Proofs

A component's theorems are in the module named after it; the store's are the first
part of `McpSessionsProofs`, since the sessions work on its tables, and the two
ingests share `IngestProofs`.  All but the join
laws follow one plan: the property that a run checks is not inductive, so an
invariant `…IInv` is stated that says what the running calls know and have still
to do; it holds initially, every action keeps it (one lemma per action, frame
lemmas for what an action leaves alone), and it implies the property.  The
theorems hold for every value of the constants that satisfies the module's
`ASSUME`; the bounds of the runs are constants too, so they hold for any bound.

| Module | Theorems (property) | The strengthening, and why |
|---|---|---|
| `McpSessionsProofs` (store) | `TypeCorrect` (`TypeOK`), `ShredIsForGood` (`ForgottenStaysForgotten`), `LoadBearingIsStable` (`NeverDemoted`), `SupersessionsFormADag` (`SupersessionAcyclic`), `PlanesNeverMix` (`PlanesSeparate`), `SupersessionsRetire` (`SupersessionRetires`) | `GenBounded`: no row is sealed ahead of its tenant's counter, so minting a generation opens nothing.  `StepShape` reduces every action to a few shapes.  A supersession adds a hop whose source is not reachable from its target; `AddHop` shows by the set of reachable nodes that this closes no cycle.  The last two are about the step in which an edge becomes load-bearing, which a shred or a fresh key cannot be |
| `McpSessionsProofs` (sessions) | `SessionsInvHolds`, `RetirementNeedsTwoHolds`, `OnlyAuthorsEditHolds` | `PendingInv`: what the holder of the gate has still to write is the last caller's and supersedes the caller's own nodes only.  `ProposalInv`: a proposal that contests a node was written by the node's author or is signed by whoever wrote it.  The two-party rule turns out to need only the comparison with that signature, not the record of the inserter |
| `ReplicaSyncProofs` | `JoinCommutes`, `JoinAbsorbs`, `JoinAssociates`, `JoinOnlyCorrects`; `SyncInvHolds`, `MergeOnlyCorrectsHolds` | The first four are algebra of `JoinRow`, no state.  `Sound`: the tables of replicas and bundles are typed and only their retired rows end.  A merge is repeated without effect because its rows have absorbed the bundle's (`JoinAbsorbs`, also once a supersession has retired them), and a supersession that the cycle guard would let pass now passed before, edges only being added (`Grows`) |
| `AuditChainProofs` | `AuditInvHolds`, `AckedSurviveHolds`, `OpenAcceptsHolds` | `FileInv`: only one process is past the lock, and a chain without a head has no record.  `AckedInv`: what the head commits to holds every acknowledged record, and so does the chain of whoever is past the lock or would get it with the log unchanged.  `LengthInv` and `CleanInv` say, by kind of fault, how far log, head and memory may be apart |
| `SealedStoreProofs` | `SealedInvHolds`, `NothingLostHolds`, `ForgottenHolds`, `RestorableHolds` | `DiskInv`: not only the disk but every disk a power failure may bring back and every checkpoint is sound, that is, each row opens, or is plaintext, or its tenant was shredded since and did not miss it.  `ProcInv`: only the process with the lock runs, and is ready for a shred only after the migration.  `CkptInv`: while the clock is not set back, pruning starts at the newest checkpoint |
| `GatewayProofs` | `GatewayInvHolds`, `ActedIsAuditedHolds`, `AuthorityIntersectsHolds`, `TouchesWithinAuthorityHolds`, `ProvisionOnlyAddsHolds` | `ReqInv`: an admitted request carries the control plane's membership, and its grant is within membership and token at any time, also after attenuation by a `_meta` grant whose first match decides.  `ChainInv` counts records per principal and event, `SlotInv` has an injective waiting queue, `SpendInv` bounds spent and left tokens by burst and refill, `GateInv` ties the write gate to the one checkpoint that is fetching or binding |
| `IngestProofs` (feed) | `FeedInvHolds`, `OnlyMergedHolds` | `WorkerInv`: what is about to be stamped is stored, for the part before the watermark was.  `MergedInv` and `GraphInv`: clone and watermark name merged commits, spine edges lead to parents, and any other stored commit hangs off a BranchContains edge; so the search of `canonical_reachable` stays in the watermark's history |
| `IngestProofs` (chain) | `ChainInvHolds`, `OrphansRetiredHolds` | `WalkInv`: a running walk knows every Active checkpoint or has just put it, a block in progress is stored with its events, and each rival is due, retired or already corrected by it |
| `ReadCachesProofs` | `RecallInvHolds`, `OnlyCanonicalHolds`, `SearchCompleteHolds` | `SourcesOK`: every index that is kept or being built is right for its key, that is, it holds nothing but what was canonical under that key and misses nothing that was searchable under it, and it is right for every request that waits with the same key; an index built without its head is excused for labelled commits, and one whose key could not be read altogether.  `ReadersOK` says what a half done scan will report whatever is written next, and what it can no longer miss.  `StoreOK`: spine edges lead to parents, so a torn view reaches only ancestors of the head it read; `HistoryOK`: only a rewrite lets commits change label without a new key.  `SceneOK` is about the layout alone: a scene under way holds what was chosen of its scan, and what is chosen of more rows is, of these, chosen of fewer (`ChosenOfFewer`) |
| `CorpusReleaseProofs` | `CorpusInvHolds`, `ReleaseSoundHolds`, `InstallsWholeHolds` | `OutOk`: a directory with a manifest is one finished release; it needs `Writing`: the builder holds one release, everything it need not write any more is in place, and the manifest is the last of what is left.  `DirOk`: a manifest in the copy is a finished release's, or betrays its damage by the digest.  `ImpOk`: the importer holds files of the release whose manifest it read, although the copy went on changing, and what it merged of the current tenant is in the store; the edges come when the nodes are complete, the record when both are.  `StoreOk`: vectors are the nodes' own and, while one kind of build imports, of the running import's model.  The refinement maps a release that is written to the end to Publish, a batch or the edges to Learn, the record to Record, shredding to Forget |

Assumptions.  Most are the typing of the constants.  Five say more:

* `FoundAssumption` (SealedStore): the stores the program may find are ones some
  release left, with finitely many names: rows that are sealed agree with the
  keyring, plaintext rows and an earlier shred that missed some of them are
  allowed; the name the migration makes up for a
  branch watermark ("repo:branch") is no tenant's, which the code does not
  enforce;
* `GatewayAssumption`: memberships, tokens and requests are what serde and the
  routers let through (a scope names a resource or `*`, a role is a known one);
* `ChainWalkAssumption`: no history is empty or longer than `MaxHeight`;
* `CorpusAssumption`: a file of a skills source belongs to a skill of that source
  (the lock lists refs under their SKILL.md), and `IdOrder` lists every node;
* `ContentsAssumption` (CorpusRelease): a manifest or a bundle is not the value
  that stands for a missing or a damaged file.

Reachability (`ReachableVia`, `Reaches`, `CanonicalReachable`, `Ancestors`) is
everywhere defined by closed sets, which TLC evaluates and which a proof can use
without induction over paths.  Two loops need an induction: the one over a
bundle's supersessions, and `InOrder`, which lists the members of a set in the
order of a sequence (nodes by id, tenants by `KNOWLEDGE_TENANTS`, files as
`write_corpus` writes them).  Both get it from the well-foundedness of the
natural numbers (`CountingUp` and `StepByStep`, statements about sets of numbers,
so that the provers can apply them); `LoopDefined` and `InOrderDefined` show that
the recursive functions exist, `KeptPrefixes` what `InOrder` has kept of every
prefix.

Only model-checked:

* liveness (`CatchesUp`, `InstallCompletes`, `RequestsFinish`, `RequestsEnd`,
  `StartEnds`), since fairness and ENABLED are beyond the prover;
* `ReplicasConverge`: that two rounds suffice is checked on the instance, with
  opposite supersessions among its edges;
* the runs that end in a counterexample.

## Not modelled

Ciphers, signatures, token verification and hashing (assumed ideal); parsing,
formatting and the byte encoding of bundles; chunking of text; embeddings, their
ranking and approximate search; the OIDC login flow and the layout algorithm;
the pull protocol of `mem-sync/transport.rs`, whose HTTP carries the bundles
ReplicaSync already loses, delays and repeats; repair of a damaged RocksDB; the
web application, clients and scripts; document, trailer and reference nodes of
an ingest, which ride in batches that are modelled.  PROJECT.json lists every
component with its status and every known hazard with the properties that cover
it.

## Plan

1. Store core, joins, sessions, audit chain, change feed, chain walk, replicas –
   done.
2. Sealed store, readers and caches, gateway, corpus with its abstract
   specification – done.
3. Proofs: store, sessions, audit chain, sealed store, gateway, change feed,
   chain walk, readers and caches, joins and replicas, corpus and its refinement
   of KnowledgeInstall – done.  Every invariant and every safety property a run
   checks is proved but `ReplicasConverge`.
4. Abstract specifications still worth stating: an append-only log that
   AuditChain implements while one process runs; a set of merged commits that
   IngestFeed implements.
