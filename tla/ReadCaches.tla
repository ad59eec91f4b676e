----------------------------- MODULE ReadCaches -----------------------------
(***************************************************************************)
(* Reading the graph while it is written: the recall of crates/mem-query   *)
(* and the layout of crates/mem-gateway, beside the gateway's ingest       *)
(* worker, its /assert route and its sessions.                             *)
(*                                                                         *)
(* Every store write is one atomic batch and every table is read in one    *)
(* snapshot, but a request reads several tables one after another, and two *)
(* results are kept for later requests: the vector index of a tenant,      *)
(* under the watermark and the node count, and the layout scene, under     *)
(* nothing.  A reader is one request; what it has read so far is its       *)
(* record.  Asserted nodes are claims, derived nodes commits and, for each *)
(* tip a feature branch had, a Branch node.                                *)
(***************************************************************************)
EXTENDS Naturals, FiniteSets

CONSTANTS
    Commits,        \* commits of the ingested repository
    ParentsOf,      \* Commits -> SUBSET Commits
    Tips,           \* commits the feature branch may point at
    Claims,         \* asserted nodes
    RepoOf,         \* Commits \cup Claims -> tenant
    Tenant,         \* the tenant that is ingested
    Federation,     \* the reserved tenant the layout prefers
    Readers,
    NoCommit,
    LayoutCap,      \* LAYOUT_CAP
    Rank,           \* Ids -> Nat: the order all_nodes lists the rows in
    BranchRank,     \* Tips -> Nat: and the Branch nodes among them
    Worlds          \* what readers and writers do, and how often

Ids == Commits \cup Claims
Repos == {RepoOf[i] : i \in Ids}

Kinds == {"search", "in_flight", "storyline", "layout"}

ASSUME ReadCachesAssumption ==
    /\ IsFiniteSet(Commits) /\ IsFiniteSet(Claims)
    /\ ParentsOf \in [Commits -> SUBSET Commits]
    /\ Tips \subseteq Commits
    /\ Commits \cap Claims = {}
    /\ DOMAIN RepoOf = Ids
    /\ \A c \in Commits : RepoOf[c] = Tenant
    /\ Tenant \in Repos
    /\ NoCommit \notin Ids
    /\ LayoutCap \in Nat \ {0}
    /\ Rank \in [Ids -> Nat] /\ BranchRank \in [Tips -> Nat]
    /\ \A w \in Worlds :
          /\ w.kinds \subseteq Kinds       \* the requests that are made
          /\ w.heads \subseteq Commits     \* the heads the default branch has
          /\ w.tips \subseteq Tips         \* and those of the feature branch
          /\ w.routed \subseteq Claims     \* the claims /assert is given
          /\ w.byom \subseteq Claims       \* and those sessions assert
          /\ w.repos \subseteq Repos       \* the tenants that are asked for
          /\ w.readers \subseteq Readers
          /\ w.faults \subseteq {"job", "request", "watermark"}   \* what fails
          /\ w.stamps \in Nat              \* bound on watermarks written
          /\ w.puts \in Nat                \* bound on asserts
          /\ w.requests \in Nat            \* bound on requests

Ancestors(c) ==
    {a \in Commits : \A S \in SUBSET Commits :
        c \in S /\ (\A s \in S : ParentsOf[s] \subseteq S) => a \in S}

Watermark == [head : Commits \cup {NoCommit}, at : Nat]
NoMark == [head |-> NoCommit, at |-> 0]

(* The reads of the watermark that may fail unseen: the one of the cache's *)
(* key and the one of the default branch's head.                           *)
Blindness == SUBSET {"key", "head"}

VARIABLES
    rows,      \* nodes: "absent", "plain" (no embedding) or "embedded"
    contains,  \* per tip, the BranchContains edges of its Branch node
    spine,     \* TemporalNext and MergeParent edges
    marks,     \* per tenant, the ingest watermark
    branchTip, \* the branch watermark
    ingesting, \* the head whose batch is stored and not yet stamped
    pending,   \* claims /assert has stored and not yet answered
    acked,     \* claims /assert has answered
    cache,     \* TenantIndexCache: per tenant its entry, if there is one
    holder,    \* the reader in the cache's lock
    scene,     \* layout_cache: the scene that is kept, if there is one
    rd,        \* the readers
    requests,  \* requests made so far
    puts,      \* asserts made so far
    world,
    unkeyed,   \* history: searchable since a write that left the cache key as it was
    relabelled,\* history: no longer canonical by such a write
    rewritten, \* history: a push was not a descendant of the watermark's commit
    missed     \* history: claims stored after the scan the kept scene is made of

store == <<rows, contains, spine, marks, branchTip>>
caches == <<cache, holder>>
vars == <<store, ingesting, pending, acked, caches, scene, rd, requests, puts, world,
          unkeyed, relabelled, rewritten, missed>>

None == "none"

(* What a request has read; seen, steady and late are history: the nodes   *)
(* canonical at some time since it began, those searchable ever since (the *)
(* commits of a branch only while the watermark stays) and the claims      *)
(* stored since its scan; blind tells which of its reads of the watermark, *)
(* or of those of the search that built the index it is given, came back   *)
(* empty by an error.                                                      *)
Reader == [pc : {"idle", "answered", "count", "lock", "scan", "head", "spine", "contains",
                 "insert", "resolve", "mark", "lookup", "store"},
           kind : Kinds,
           repo : Repos, mark : Watermark, count : Nat, all : SUBSET Ids,
           embedded : SUBSET Ids, branches : SUBSET Tips,
           reach : SUBSET Commits, hits : SUBSET Ids, items : SUBSET Ids,
           seen : SUBSET Ids, steady : SUBSET Ids, late : SUBSET Ids,
           blind : Blindness]

(* An index that is kept, under its key; blind is its builder's.           *)
Entry == [mark : Watermark, count : Nat, index : SUBSET Ids, blind : Blindness]

(* A scene that is kept; scan, the rows it is made of, is history.         *)
Scene == [items : SUBSET Ids, scan : SUBSET Ids]

(* Store, caches and readers keep their types: TenantIndexCache has at     *)
(* most one entry per tenant and the gateway at most one scene.            *)
RecallTypeOK ==
    /\ rows \in [Ids -> {"absent", "plain", "embedded"}]
    /\ contains \in [Tips -> SUBSET Commits]
    /\ spine \subseteq Commits \X Commits
    /\ marks \in [Repos -> Watermark]
    /\ branchTip \in Tips \cup {NoCommit}
    /\ ingesting \in Commits \cup {NoCommit}
    /\ pending \subseteq Claims /\ acked \subseteq Claims
    /\ cache \in [Repos -> SUBSET Entry]
    /\ \A r \in Repos : Cardinality(cache[r]) <= 1
    /\ holder \in Readers \cup {None}
    /\ scene \in SUBSET Scene /\ Cardinality(scene) <= 1
    /\ rd \in [Readers -> Reader]
    /\ world \in Worlds /\ requests \in 0 .. world.requests /\ puts \in 0 .. world.puts
    /\ unkeyed \subseteq Ids /\ relabelled \subseteq Ids /\ rewritten \in BOOLEAN
    /\ missed \subseteq Claims

-----------------------------------------------------------------------------
(* What the store holds.                                                   *)

Stored == {i \in Ids : rows[i] # "absent"}
Embedded == {i \in Ids : rows[i] = "embedded"}
BranchNodes == {t \in Tips : contains[t] # {}}

(* Mutant: asserted nodes only.                                            *)
NodeCountClaims == Cardinality(Stored \cap Claims)

(* node_count: every row, whatever its tenant and kind.                    *)
NodeCount == Cardinality(Stored) + Cardinality(BranchNodes)

(* canonical_reachable: from the watermark's commit, if the scan has it,   *)
(* along the stored spine.                                                 *)
Reachable(all, head, edges) ==
    IF head \notin all THEN {}
    ELSE {c \in Commits : \A S \in SUBSET Commits :
             head \in S /\ (\A e \in edges : e[1] \in S => e[2] \in S) => c \in S}

(* in_flight_map: what a Branch node of the scan contains and the default  *)
(* branch does not reach.                                                  *)
InFlight(branches, reach) == (UNION {contains[t] : t \in branches}) \ reach

(* What scans in one instant would keep, and what of it is indexed.        *)
Recallable == Stored \ InFlight(BranchNodes, Reachable(Stored, marks[Tenant].head, spine))
Searchable == Recallable \cap Embedded

(* What is canonical: every stored node but the commits that a branch      *)
(* contains and the default branch does not.                               *)
Labelled == UNION {contains[t] : t \in Tips}
Merged == IF marks[Tenant].head = NoCommit THEN {} ELSE Ancestors(marks[Tenant].head)
Canonical == Stored \ (Labelled \ Merged)

Of(r, S) == {i \in S : RepoOf[i] = r}

Key == [r \in Repos |-> <<marks[r], NodeCount>>]

(* Every write of the store carries the history along.                     *)
Observe(written) ==
    /\ rd' = [p \in Readers |->
                IF rd[p].pc \in {"idle", "answered"} THEN rd[p] ELSE
                [rd[p] EXCEPT !.seen = @ \cup Of(rd[p].repo, Canonical'),
                              !.steady = (@ \cap Searchable') \
                                         (IF marks' = marks THEN {} ELSE Labelled'),
                              !.late = @ \cup written]]
    /\ unkeyed' = {i \in Searchable' : /\ Key'[RepoOf[i]] = Key[RepoOf[i]]
                                       /\ i \in unkeyed \/ i \notin Searchable}
    /\ relabelled' = relabelled \cup
          {i \in Canonical \ Canonical' : Key'[RepoOf[i]] = Key[RepoOf[i]]}

Idle ==
    [pc |-> "idle", kind |-> "search", repo |-> Tenant,
     mark |-> NoMark, count |-> 0, all |-> {}, embedded |-> {},
     branches |-> {}, reach |-> {}, hits |-> {}, items |-> {},
     seen |-> {}, steady |-> {}, late |-> {}, blind |-> {}]

ReadCachesInit ==
    /\ rows = [i \in Ids |-> "absent"]
    /\ contains = [t \in Tips |-> {}]
    /\ spine = {}
    /\ marks = [r \in Repos |-> NoMark]
    /\ branchTip = NoCommit
    /\ ingesting = NoCommit
    /\ pending = {} /\ acked = {}
    /\ cache = [r \in Repos |-> {}]
    /\ holder = None
    /\ scene = {}
    /\ rd = [p \in Readers |-> Idle]
    /\ world \in Worlds /\ requests = 0 /\ puts = 0
    /\ unkeyed = {} /\ relabelled = {} /\ rewritten = FALSE /\ missed = {}

-----------------------------------------------------------------------------
(* The writers.                                                            *)

(* The node of /assert, embedded unless the embedder is absent or fails;   *)
(* the write gate keeps it out of an ingest.                               *)
PutClaim(i, vector) ==
    /\ ingesting = NoCommit
    /\ rows' = [rows EXCEPT ![i] = IF vector THEN "embedded" ELSE "plain"]
    /\ puts < world.puts
    /\ puts' = puts + 1
    /\ UNCHANGED <<contains, spine, marks, branchTip, ingesting, caches, requests, world,
                   rewritten, missed>>

(* assert: put_node under the write gate ...                               *)
AssertPut(i, vector) ==
    /\ i \notin pending
    /\ PutClaim(i, vector)
    /\ pending' = pending \cup {i}
    /\ UNCHANGED <<acked, scene>>
    /\ Observe({i})

(* Mutant: the scene is kept.                                              *)
AssertAnswerKeeping(i) ==
    /\ i \in pending
    /\ pending' = pending \ {i}
    /\ acked' = acked \cup {i}
    /\ UNCHANGED <<store, ingesting, caches, scene, missed, rd, requests, unkeyed, relabelled,
                   rewritten, puts, world>>

(* ... then the layout is dropped and the request answered.                *)
AssertAnswer(i) ==
    /\ i \in pending
    /\ pending' = pending \ {i}
    /\ acked' = acked \cup {i}
    /\ scene' = {}
    /\ missed' = {}
    /\ UNCHANGED <<store, ingesting, caches, rd, requests, unkeyed, relabelled, rewritten,
                   puts, world>>

(* memory.assert of a session: the same write, and the layout is kept.     *)
ByomAssert(i, vector) ==
    /\ PutClaim(i, vector)
    /\ UNCHANGED <<pending, acked, scene>>
    /\ Observe({i})

(* The commits a push brings, the spine among them only.                   *)
StoreCommits(recs) ==
    /\ rows' = [i \in Ids |-> IF i \in recs THEN "embedded" ELSE rows[i]]
    /\ spine' = spine \cup {e \in recs \X recs : e[2] \in ParentsOf[e[1]]}

(* ingest and ingest_incremental: the new commits, or all of them after a  *)
(* rewrite, in one batch ...                                               *)
IngestBatch(head) ==
    /\ ingesting = NoCommit
    /\ marks[Tenant].at < world.stamps
    /\ LET prior == marks[Tenant].head
           known == IF prior \in Ancestors(head) THEN Ancestors(prior) ELSE {}
       IN  /\ StoreCommits(Ancestors(head) \ known)
           /\ rewritten' = (rewritten \/ (prior # NoCommit /\ prior \notin Ancestors(head)))
    /\ ingesting' = head
    /\ UNCHANGED <<contains, marks, branchTip, pending, acked, caches, scene, requests, missed,
                   puts, world>>
    /\ Observe({})

(* ... then the watermark.                                                 *)
IngestStamp ==
    /\ ingesting # NoCommit
    /\ marks' = [marks EXCEPT ![Tenant] = [head |-> ingesting, at |-> @.at + 1]]
    /\ ingesting' = NoCommit
    /\ UNCHANGED <<rows, contains, spine, branchTip, pending, acked, caches, scene, requests,
                   rewritten, missed, puts, world>>
    /\ Observe({})

(* An error between the two: the job ends without its watermark.           *)
IngestFails ==
    /\ "job" \in world.faults
    /\ ingesting # NoCommit
    /\ ingesting' = NoCommit
    /\ UNCHANGED <<store, pending, acked, caches, scene, rd, requests, unkeyed, relabelled,
                   rewritten, missed, puts, world>>

(* ingest_branches: commits, Branch node and BranchContains edges in one   *)
(* batch; a branch without commits of its own only moves its watermark.    *)
IngestBranch(t) ==
    /\ ingesting = NoCommit
    /\ branchTip # t
    /\ marks[Tenant].head # NoCommit
    /\ LET recs == Ancestors(t) \ Ancestors(marks[Tenant].head)
       IN  /\ StoreCommits(recs)
           /\ contains' = [contains EXCEPT ![t] = @ \cup recs]
    /\ branchTip' = t
    /\ UNCHANGED <<marks, ingesting, pending, acked, caches, scene, requests, rewritten, missed,
                   puts, world>>
    /\ Observe({})

-----------------------------------------------------------------------------
(* A request.                                                              *)

Writerless == <<store, ingesting, pending, acked, unkeyed, relabelled, rewritten, puts, world>>

Go(p, changes) == rd' = [rd EXCEPT ![p] = changes]

(* watermark: an error of its read is taken for no watermark.              *)
WatermarkOf(r) == {marks[r]} \cup (IF "watermark" \in world.faults THEN {NoMark} ELSE {})
Unseen(m, r, what) == IF m = marks[r] THEN {} ELSE {what}

(* search reads the watermark first, every other request scans.            *)
Start(p, kind, r) ==
    /\ rd[p].pc = "idle"
    /\ requests < world.requests
    /\ requests' = requests + 1
    /\ \E m \in WatermarkOf(r) :
       Go(p, [Idle EXCEPT !.pc = CASE kind = "search" -> "count"
                                   [] kind = "layout" -> "lookup"
                                   [] OTHER -> "scan",
                          !.kind = kind, !.repo = r,
                          !.mark = IF kind = "search" THEN m ELSE @,
                          !.blind = IF kind = "search" THEN Unseen(m, r, "key") ELSE @,
                          !.seen = Of(r, Canonical),
                          !.steady = Of(r, Searchable) \ unkeyed])
    /\ UNCHANGED <<Writerless, caches, scene, missed>>

(* search_cached: the second half of the key.                              *)
ReadCount(p) ==
    /\ rd[p].pc = "count"
    /\ Go(p, [rd[p] EXCEPT !.pc = "lock", !.count = NodeCount])
    /\ UNCHANGED <<Writerless, caches, scene, requests, missed>>

Matches(e, p) == e.mark = rd[p].mark /\ e.count = rd[p].count

(* get_or_build: an entry under the same key is used ...                   *)
Hit(p) ==
    /\ rd[p].pc = "lock"
    /\ holder = None
    /\ \E e \in cache[rd[p].repo] :
          /\ Matches(e, p)
          /\ Go(p, [rd[p] EXCEPT !.pc = "resolve", !.hits = e.index, !.blind = @ \cup e.blind])
    /\ UNCHANGED <<Writerless, caches, scene, requests, missed>>

(* ... or the lock is kept across the build.                               *)
Miss(p) ==
    /\ rd[p].pc = "lock"
    /\ holder = None
    /\ \A e \in cache[rd[p].repo] : ~Matches(e, p)
    /\ holder' = p
    /\ Go(p, [rd[p] EXCEPT !.pc = "scan"])
    /\ UNCHANGED <<Writerless, cache, scene, requests, missed>>

(* tenant_scan: all_nodes ...                                              *)
ScanNodes(p) ==
    /\ rd[p].pc = "scan"
    /\ Go(p, [rd[p] EXCEPT !.pc = IF rd[p].kind = "layout" THEN "store" ELSE "head",
                           !.all = Stored, !.embedded = Embedded,
                           !.branches = BranchNodes, !.late = {}])
    /\ UNCHANGED <<Writerless, caches, scene, requests, missed>>

(* ... the watermark's head and the spine, each in its own read; without a *)
(* head nothing is merged ...                                              *)
ReadHead(p) ==
    /\ rd[p].pc = "head"
    /\ \E m \in WatermarkOf(Tenant) :
          Go(p, [rd[p] EXCEPT !.pc = "spine", !.reach = {m.head} \cap rd[p].all,
                              !.blind = @ \cup Unseen(m, Tenant, "head")])
    /\ UNCHANGED <<Writerless, caches, scene, requests, missed>>

ReadSpine(p) ==
    /\ rd[p].pc = "spine"
    /\ Go(p, [rd[p] EXCEPT !.pc = "contains",
                           !.reach = UNION {Reachable(rd[p].all, h, spine) : h \in rd[p].reach}])
    /\ UNCHANGED <<Writerless, caches, scene, requests, missed>>

(* Mutant: the nodes are read after the edges that mark them.              *)
KeptLate(p) ==
    Of(rd[p].repo, Stored) \ InFlight(rd[p].branches, rd[p].reach)

(* The tenant's nodes of the scan that are not in flight.                  *)
Kept(p) ==
    Of(rd[p].repo, rd[p].all) \ InFlight(rd[p].branches, rd[p].reach)

(* ... and the BranchContains edges of the scan's Branch nodes.  The items *)
(* are those reported without the label of a branch.                       *)
ReadContains(p) ==
    /\ rd[p].pc = "contains"
    /\ Go(p, CASE rd[p].kind = "search" ->
                    [rd[p] EXCEPT !.pc = "insert", !.hits = Kept(p) \cap rd[p].embedded, !.all = {},
                                  !.embedded = {}, !.branches = {}, !.reach = {}]
               [] rd[p].kind = "in_flight" ->
                    [rd[p] EXCEPT !.pc = "mark", !.items = Kept(p) \cap rd[p].embedded]
               [] OTHER ->
                    [rd[p] EXCEPT !.pc = "mark", !.items = Kept(p)])
    /\ UNCHANGED <<Writerless, caches, scene, requests, missed>>

(* Mutant: the key is read again when the entry is stored.                 *)
EntryKeyLate(p) == [mark |-> marks[rd[p].repo], count |-> NodeCount]

(* The entry goes under the key read before the build ...                  *)
EntryKey(p) == [mark |-> rd[p].mark, count |-> rd[p].count]

(* Mutant: the entry is added beside the old one.                          *)
InsertIndexBeside(p) ==
    /\ rd[p].pc = "insert"
    /\ cache' = [cache EXCEPT ![rd[p].repo] = @ \cup
                    {[mark |-> EntryKey(p).mark, count |-> EntryKey(p).count,
                      index |-> rd[p].hits, blind |-> rd[p].blind]}]
    /\ holder' = None
    /\ Go(p, [rd[p] EXCEPT !.pc = "resolve"])
    /\ UNCHANGED <<Writerless, scene, requests, missed>>

(* ... in place of the tenant's old one, and the lock is released.         *)
InsertIndex(p) ==
    /\ rd[p].pc = "insert"
    /\ cache' = [cache EXCEPT ![rd[p].repo] =
                    {[mark |-> EntryKey(p).mark, count |-> EntryKey(p).count,
                      index |-> rd[p].hits, blind |-> rd[p].blind]}]
    /\ holder' = None
    /\ Go(p, [rd[p] EXCEPT !.pc = "resolve"])
    /\ UNCHANGED <<Writerless, scene, requests, missed>>

(* search_cached resolves the hits to the nodes stored now.                *)
Resolve(p) ==
    /\ rd[p].pc = "resolve"
    /\ Go(p, [rd[p] EXCEPT !.pc = "answered", !.items = rd[p].hits \cap Stored])
    /\ UNCHANGED <<Writerless, caches, scene, requests, missed>>

(* storyline and the uncached search read the watermark they report last.  *)
ReadMark(p) ==
    /\ rd[p].pc = "mark"
    /\ \E m \in WatermarkOf(rd[p].repo) : Go(p, [rd[p] EXCEPT !.pc = "answered", !.mark = m])
    /\ UNCHANGED <<Writerless, caches, scene, requests, missed>>

(* Mutant: a failed build keeps the lock.                                  *)
RequestFailsHolding(p) ==
    /\ "request" \in world.faults
    /\ rd[p].pc \in {"count", "scan", "spine", "contains", "resolve", "store"}
    /\ Go(p, Idle)
    /\ UNCHANGED <<Writerless, caches, scene, requests, missed>>

(* A read of the store, but that of a watermark, or the embedding of the   *)
(* query fails: the request ends, and its lock with it.                    *)
RequestFails(p) ==
    /\ "request" \in world.faults
    /\ rd[p].pc \in {"count", "scan", "spine", "contains", "resolve", "store"}
    /\ holder' = IF holder = p THEN None ELSE holder
    /\ Go(p, Idle)
    /\ UNCHANGED <<Writerless, cache, scene, requests, missed>>

-----------------------------------------------------------------------------
(* The layout.                                                             *)

(* build_layout: the federation's nodes when there are at least two, else  *)
(* the first LAYOUT_CAP rows, Branch nodes among them.                     *)
Federated(all) == Cardinality({i \in all : RepoOf[i] = Federation}) >= 2

Before(i, all, branches) ==
    Cardinality({j \in all : Rank[j] < Rank[i]}) +
    Cardinality({t \in branches : BranchRank[t] < Rank[i]})

Chosen(all, branches) ==
    IF Federated(all) THEN {i \in all : RepoOf[i] = Federation}
                      ELSE {i \in all : Before(i, all, branches) < LayoutCap}

(* The kept scene, or a scan.                                              *)
LookupScene(p) ==
    /\ rd[p].pc = "lookup"
    /\ Go(p, IF scene # {} THEN [rd[p] EXCEPT !.pc = "answered",
                                              !.items = UNION {kept.items : kept \in scene}]
                           ELSE [rd[p] EXCEPT !.pc = "scan"])
    /\ UNCHANGED <<Writerless, caches, scene, requests, missed>>

StoreScene(p) ==
    /\ rd[p].pc = "store"
    /\ LET items == Chosen(rd[p].all, rd[p].branches)
       IN  /\ scene' = {[items |-> items, scan |-> rd[p].all]}
           /\ Go(p, [rd[p] EXCEPT !.pc = "answered", !.items = items])
    /\ missed' = rd[p].late
    /\ UNCHANGED <<Writerless, caches, requests>>

(* The answer is sent.                                                     *)
Leave(p) ==
    /\ rd[p].pc = "answered"
    /\ Go(p, Idle)
    /\ UNCHANGED <<Writerless, caches, scene, requests, missed>>

-----------------------------------------------------------------------------
Step(p) ==
    \/ ReadCount(p) \/ Hit(p) \/ Miss(p)
    \/ ScanNodes(p) \/ ReadHead(p) \/ ReadSpine(p) \/ ReadContains(p)
    \/ InsertIndex(p) \/ Resolve(p) \/ ReadMark(p)
    \/ LookupScene(p) \/ StoreScene(p) \/ Leave(p)

Write ==
    \/ \E i \in world.routed, vector \in BOOLEAN : AssertPut(i, vector)
    \/ \E i \in world.byom, vector \in BOOLEAN : ByomAssert(i, vector)
    \/ \E i \in pending : AssertAnswer(i)
    \/ \E c \in world.heads : IngestBatch(c)
    \/ IngestStamp
    \/ IngestFails
    \/ \E t \in world.tips : IngestBranch(t)

Next ==
    \/ Write
    \/ \E p \in world.readers, r \in world.repos, kind \in world.kinds :
          Start(p, kind, r)
    \/ \E p \in Readers : Step(p) \/ RequestFails(p)

(* A request is a thread that runs until it answers; the lock is handed    *)
(* over when it is free, and no request comes for ever.                    *)
ReadCachesSpec ==
    ReadCachesInit /\ [][Next]_vars /\ \A p \in Readers : WF_vars(Step(p))

-----------------------------------------------------------------------------
(* Properties.                                                             *)

Answered(p) == rd[p].pc = "answered"

(* What a request reports as canonical was canonical at some time while it *)
(* ran, whatever was written between its reads: no commit of an unmerged   *)
(* branch and no node of another tenant.  The index a search is given may  *)
(* also hold commits that a branch was found to contain by a write that    *)
(* left the key of the cache as it was, and only after a rewrite of the    *)
(* default branch is there such a write.  Nothing is said of a search      *)
(* whose key, or the key of the index it was given, was read as no         *)
(* watermark by an error.                                                  *)
OnlyCanonical ==
    /\ ~rewritten => relabelled = {}
    /\ \A p \in Readers :
         Answered(p) /\ rd[p].kind # "layout" /\ "key" \notin rd[p].blind
             => rd[p].items \subseteq
                   rd[p].seen \cup (IF rd[p].kind = "search" THEN relabelled ELSE {})

(* A search misses no node that was searchable from its first read to its  *)
(* answer (if a branch contains it, with no push in between), unless a     *)
(* write made it so without changing the key of the index cache; and that  *)
(* can only be a claim asserted again, now with an embedding, or after a   *)
(* rewrite a commit that a branch contains.  Where the search, or the one  *)
(* that built its index, failed to read the watermark for the head, it may *)
(* miss commits that a branch contains and nothing else; where one failed  *)
(* to read it for the key, nothing is said.                                *)
SearchComplete ==
    /\ unkeyed \subseteq Claims \cup (IF rewritten THEN Labelled ELSE {})
    /\ \A p \in Readers :
         Answered(p) /\ rd[p].kind \in {"search", "in_flight"} /\ "key" \notin rd[p].blind
             => rd[p].steady \subseteq
                   rd[p].items \cup (IF "head" \in rd[p].blind THEN Labelled ELSE {})

(* The kept scene holds every claim /assert has answered that a scan of    *)
(* today's rows would choose, but those stored between the scan it is made *)
(* of and the moment it was kept, and as long as the federation has not    *)
(* come to two nodes since that scan.                                      *)
SceneCovers ==
    \A kept \in scene :
        (Federated(Stored) => Federated(kept.scan))
            => (acked \ pending) \cap Chosen(Stored, BranchNodes) \subseteq kept.items \cup missed

(* Every request ends: no failed build leaves the cache locked.            *)
RequestsEnd == \A p \in Readers : (rd[p].pc # "idle") ~> (rd[p].pc = "idle")

(* What holds of what is kept for later requests: types, with one index    *)
(* per tenant and one scene, and a scene without gaps in what /assert has  *)
(* answered.                                                               *)
RecallInv == RecallTypeOK /\ SceneCovers
=============================================================================
