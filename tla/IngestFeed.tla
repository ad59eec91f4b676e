------------------------------ MODULE IngestFeed ------------------------------
(***************************************************************************)
(* The change feed that keeps the Derived plane in step with git: the      *)
(* webhook queue, the ingest worker and the reconciler of crates/          *)
(* mem-gateway, the ingest operations of crates/mem-ingest they run, and   *)
(* the canonical / in-flight split that crates/mem-query reads off the     *)
(* result.                                                                 *)
(*                                                                         *)
(* Git is a constant commit graph and, per repository, a default tip and   *)
(* branch tips that developers move.  A store write is one atomic batch,   *)
(* so an ingest is two steps: the commit of its nodes and edges, and the   *)
(* watermark.  Readers hold no lock and see every state.  The write gate   *)
(* only orders the worker with sessions that write other planes, and is    *)
(* left out.                                                               *)
(*                                                                         *)
(* Docs, trailers and embeddings ride in the same batches as the commits   *)
(* and are left out.                                                       *)
(***************************************************************************)
EXTENDS Naturals, FiniteSets

CONSTANTS
    Repos,
    Commits,
    ParentsOf,    \* the commit graph: a set of parents for each commit
    Root,         \* where the default branch of every repository starts
    Branches,     \* names of non-default branches
    None,         \* no commit: no watermark, no such branch, no mirror
    Listed,       \* repositories the manifest or MEM_INGEST_REPOS names
    ForcePush,    \* developers may rewrite the default branch
    MaxPushes,    \* bound on what developers do
    MaxCrashes    \* bound on gateway restarts

ASSUME IngestFeedAssumption ==
    /\ ParentsOf \in [Commits -> SUBSET Commits]
    /\ Root \in Commits
    /\ None \notin Commits
    /\ Listed \subseteq Repos
    /\ ForcePush \in BOOLEAN
    /\ MaxPushes \in Nat /\ MaxCrashes \in Nat

VARIABLES
    remote,      \* per repo: what git ls-remote shows
    mirror,      \* per repo: the worker's clone, as last fetched
    queue,       \* ingest_queue; drained whole and de-duplicated, hence a set
    watermark,   \* per repo: Watermark.head
    branchMark,  \* per repo and branch: the branch watermark's head
    graph,       \* per repo: commit nodes, spine edges, BranchContains edges
    branchNode,  \* per repo: status of the Branch node name@tip
    worker,      \* the drain task
    sweep,       \* the reconciler task
    merged,      \* history, per repo: every commit the default branch ever had
    pushes, crashes

feedVars == <<remote, mirror, queue, watermark, branchMark, graph, branchNode,
              worker, sweep, merged, pushes, crashes>>

Tips == Commits \cup {None}
GitState == [head : Tips, branch : [Branches -> Tips]]
Graph == [commits : SUBSET Commits, spine : SUBSET (Commits \X Commits),
          contains : SUBSET (Branches \X Commits \X Commits)]

Idle == [pc |-> "idle", todo |-> {}, mirrored |-> {}, repo |-> None, left |-> {}]
NoSweep == [running |-> FALSE, todo |-> {}, already |-> {}, active |-> {}]

(* Remote, mirrors, queue, watermarks and the graph keep their types, and  *)
(* the queue only ever names repositories that are served.                 *)
FeedTypeOK ==
    /\ remote \in [Repos -> GitState]
    /\ mirror \in [Repos -> GitState]
    /\ queue \subseteq Repos
    /\ watermark \in [Repos -> Tips]
    /\ branchMark \in [Repos -> [Branches -> Tips]]
    /\ graph \in [Repos -> Graph]
    /\ branchNode \in [Repos -> [Branches \X Commits -> {"Absent", "Active", "Archived"}]]
    /\ worker \in [pc : {"idle", "mirror", "ingest", "stamp", "branches", "branch",
                         "branchStamp", "reap"},
                   todo : SUBSET Repos, mirrored : SUBSET Repos,
                   repo : Repos \cup {None}, left : SUBSET Branches]
    /\ sweep \in [running : BOOLEAN, todo : SUBSET Repos, already : SUBSET Repos,
                  active : SUBSET (Repos \X Branches \X Commits)]
    /\ merged \in [Repos -> SUBSET Commits]
    /\ pushes \in 0 .. MaxPushes /\ crashes \in 0 .. MaxCrashes

-----------------------------------------------------------------------------
(* git                                                                     *)

(* The sets of commits with which each member's parents are members too.   *)
ClosedSets == {S \in SUBSET Commits : \A c \in S : ParentsOf[c] \subseteq S}

(* A commit and everything it is built on: the least such set.             *)
Ancestors == [c \in Commits |-> {d \in Commits : \A S \in ClosedSets : c \in S => d \in S}]

History(tip) == IF tip = None THEN {} ELSE Ancestors[tip]

NoClone == [head |-> None, branch |-> [b \in Branches |-> None]]

-----------------------------------------------------------------------------
(* What ingest derives from a list of commits.                             *)

(* ingest_incremental: the commits since the watermark if that is still an *)
(* ancestor, else (ingest) all of them.                                    *)
RecsSince(since, head) ==
    IF since # None /\ since \in History(head)
    THEN History(head) \ History(since)
    ELSE History(head)

(* The TemporalNext and MergeParent edges of build_graph: only to a parent *)
(* that is in the list itself.  The list is git log --reverse, which has   *)
(* parents first as long as no committer's clock was behind.               *)
SpineOf(recs) == {e \in recs \X recs : e[2] \in ParentsOf[e[1]]}

(* read_commits_between(default, tip)                                      *)
Unmerged(r, b) == History(mirror[r].branch[b]) \ History(mirror[r].head)

(* store.commit of commit nodes with their spine.                          *)
WithCommits(g, recs) ==
    [g EXCEPT !.commits = @ \cup recs, !.spine = @ \cup SpineOf(recs)]

-----------------------------------------------------------------------------
(* Readers: mem-query.                                                     *)

(* canonical_reachable: from the watermark's commit over the stored spine. *)
CanonicalReachable(r) ==
    {c \in Commits :
        /\ watermark[r] \in graph[r].commits
        /\ \A S \in SUBSET Commits :
             /\ watermark[r] \in S
             /\ \A e \in graph[r].spine : e[1] \in S => e[2] \in S
             => c \in S}

(* Mutant: only the branches that are still Active hide their commits.     *)
InFlightActive(r) ==
    {c \in graph[r].commits \ CanonicalReachable(r) :
        \E e \in graph[r].contains : e[3] = c /\ branchNode[r][<<e[1], e[2]>>] = "Active"}

(* in_flight_map: targets of a BranchContains edge that are not canonical. *)
InFlight(r) ==
    {c \in graph[r].commits \ CanonicalReachable(r) :
        \E e \in graph[r].contains : e[3] = c}

(* What tenant_scan returns by default.                                    *)
Canonical(r) == graph[r].commits \ InFlight(r)

-----------------------------------------------------------------------------
FeedInit ==
    /\ remote = [r \in Repos |-> [NoClone EXCEPT !.head = Root]]
    /\ mirror = [r \in Repos |-> NoClone]
    /\ queue = {}
    /\ watermark = [r \in Repos |-> None]
    /\ branchMark = [r \in Repos |-> [b \in Branches |-> None]]
    /\ graph = [r \in Repos |-> [commits |-> {}, spine |-> {}, contains |-> {}]]
    /\ branchNode = [r \in Repos |-> [n \in Branches \X Commits |-> "Absent"]]
    /\ worker = Idle
    /\ sweep = NoSweep
    /\ merged = [r \in Repos |-> History(Root)]
    /\ pushes = 0 /\ crashes = 0

storeVars == <<watermark, branchMark, graph, branchNode>>

(* Developers push to the default branch ...                               *)
PushDefault(r, c) ==
    /\ pushes < MaxPushes
    /\ c # remote[r].head
    /\ ForcePush \/ remote[r].head \in Ancestors[c]
    /\ remote' = [remote EXCEPT ![r].head = c]
    /\ merged' = [merged EXCEPT ![r] = @ \cup History(c)]
    /\ pushes' = pushes + 1
    /\ UNCHANGED <<mirror, queue, storeVars, worker, sweep, crashes>>

(* ... and create, move and delete branches.                               *)
PushBranch(r, b, tip) ==
    /\ pushes < MaxPushes
    /\ tip # remote[r].branch[b]
    /\ remote' = [remote EXCEPT ![r].branch[b] = tip]
    /\ pushes' = pushes + 1
    /\ UNCHANGED <<mirror, queue, storeVars, worker, sweep, merged, crashes>>

(* github_webhook accepts a push event.  Deliveries are lost, repeated and *)
(* late, so one may arrive at any time or never.                           *)
GithubWebhook(r) ==
    /\ r \notin queue
    /\ queue' = queue \cup {r}
    /\ UNCHANGED <<remote, mirror, storeVars, worker, sweep, merged, pushes, crashes>>

-----------------------------------------------------------------------------
(* drain_once                                                              *)

DrainQueue ==
    /\ worker.pc = "idle" /\ queue # {}
    /\ worker' = [Idle EXCEPT !.pc = "mirror", !.todo = queue]
    /\ queue' = {}
    /\ UNCHANGED <<remote, mirror, storeVars, sweep, merged, pushes, crashes>>

(* ensure_mirror: fetch with prune and hard reset to origin/HEAD, or       *)
(* clone.  The remote keeps the default branch it had when it was cloned.  *)
EnsureMirror(r) ==
    /\ worker.pc = "mirror" /\ r \in worker.todo
    /\ mirror' = [mirror EXCEPT ![r] = remote[r]]
    /\ worker' = [worker EXCEPT !.pc = "ingest", !.todo = @ \ {r}, !.repo = r]
    /\ UNCHANGED <<remote, queue, storeVars, sweep, merged, pushes, crashes>>

(* It fails: the event is dropped.                                         *)
MirrorFails(r) ==
    /\ worker.pc = "mirror" /\ r \in worker.todo
    /\ worker' = [worker EXCEPT !.todo = @ \ {r}]
    /\ UNCHANGED <<remote, mirror, queue, storeVars, sweep, merged, pushes, crashes>>

(* ingest_incremental up to the commit of the graph.                       *)
IngestCommits ==
    LET r == worker.repo
    IN  /\ worker.pc = "ingest"
        /\ graph' = [graph EXCEPT ![r] =
                       WithCommits(@, RecsSince(watermark[r], mirror[r].head))]
        /\ worker' = [worker EXCEPT !.pc = "stamp"]
        /\ UNCHANGED <<remote, mirror, queue, watermark, branchMark, branchNode, sweep,
                       merged, pushes, crashes>>

(* Mutant: the watermark is taken from the remote, which has moved on.     *)
StampRemoteHead ==
    LET r == worker.repo
    IN  /\ worker.pc = "stamp"
        /\ watermark' = [watermark EXCEPT ![r] = remote[r].head]
        /\ worker' = [worker EXCEPT !.pc = "mirror", !.mirrored = @ \cup {r}, !.repo = None]
        /\ UNCHANGED <<remote, mirror, queue, branchMark, graph, branchNode, sweep,
                       merged, pushes, crashes>>

(* The watermark, from the clone's HEAD.                                   *)
StampWatermark ==
    LET r == worker.repo
    IN  /\ worker.pc = "stamp"
        /\ watermark' = [watermark EXCEPT ![r] = mirror[r].head]
        /\ worker' = [worker EXCEPT !.pc = "mirror", !.mirrored = @ \cup {r}, !.repo = None]
        /\ UNCHANGED <<remote, mirror, queue, branchMark, graph, branchNode, sweep,
                       merged, pushes, crashes>>

(* The ingest fails before its commit or before its watermark; the branch  *)
(* pass runs all the same.                                                 *)
IngestFails ==
    /\ worker.pc \in {"ingest", "stamp"}
    /\ worker' = [worker EXCEPT !.pc = "mirror", !.mirrored = @ \cup {worker.repo},
                                !.repo = None]
    /\ UNCHANGED <<remote, mirror, queue, storeVars, sweep, merged, pushes, crashes>>

(* The second pass of drain_once, over the repositories that have a clone. *)
BranchPass ==
    /\ worker.pc = "mirror" /\ worker.todo = {}
    /\ worker' = IF worker.mirrored = {} THEN Idle ELSE [worker EXCEPT !.pc = "branches"]
    /\ UNCHANGED <<remote, mirror, queue, storeVars, sweep, merged, pushes, crashes>>

(* ingest_branches lists the clone's branches; a tip that is watermarked   *)
(* is passed over.                                                         *)
ListBranches(r) ==
    /\ worker.pc = "branches" /\ r \in worker.mirrored
    /\ worker' = [worker EXCEPT !.pc = "branch", !.repo = r,
                    !.left = {b \in Branches : mirror[r].branch[b] # None
                                               /\ branchMark[r][b] # mirror[r].branch[b]}]
    /\ UNCHANGED <<remote, mirror, queue, storeVars, sweep, merged, pushes, crashes>>

(* One branch: its unmerged commits, its Branch node and the edges between *)
(* them in one batch; nothing for a branch without work of its own.        *)
CommitBranch(b) ==
    LET r == worker.repo
        recs == Unmerged(r, b)
        tip == mirror[r].branch[b]
        g == WithCommits(graph[r], recs)
    IN  /\ worker.pc = "branch" /\ b \in worker.left
        /\ graph' = [graph EXCEPT ![r] =
                       [g EXCEPT !.contains = @ \cup ({b} \X {tip} \X recs)]]
        /\ branchNode' = IF recs = {} THEN branchNode
                         ELSE [branchNode EXCEPT ![r][<<b, tip>>] = "Active"]
        /\ worker' = [worker EXCEPT !.pc = "branchStamp", !.left = {b}]
        /\ UNCHANGED <<remote, mirror, queue, watermark, branchMark, sweep, merged, pushes, crashes>>

(* Its watermark; the loop goes on with the branches not yet stamped.      *)
StampBranch(b) ==
    LET r == worker.repo
        marks == [branchMark[r] EXCEPT ![b] = mirror[r].branch[b]]
    IN  /\ worker.pc = "branchStamp" /\ b \in worker.left
        /\ branchMark' = [branchMark EXCEPT ![r] = marks]
        /\ worker' = [worker EXCEPT !.pc = "branch",
                        !.left = {x \in Branches : mirror[r].branch[x] # None
                                                   /\ marks[x] # mirror[r].branch[x]}]
        /\ UNCHANGED <<remote, mirror, queue, watermark, graph, branchNode, sweep,
                       merged, pushes, crashes>>

(* ingest_branches is done, or gave up; reap_branches runs in either case. *)
BranchesDone ==
    /\ worker.pc \in {"branch", "branchStamp"}
    /\ worker' = [worker EXCEPT !.pc = "reap", !.left = {}]
    /\ UNCHANGED <<remote, mirror, queue, storeVars, sweep, merged, pushes, crashes>>

(* Active Branch nodes whose branch was deleted, advanced or merged.       *)
Stale(r) ==
    {n \in Branches \X Commits :
        /\ branchNode[r][n] = "Active"
        /\ mirror[r].branch[n[1]] # n[2] \/ n[2] \in History(mirror[r].head)}

(* reap_branches: one set_node_status per node.                            *)
ReapBranch(n) ==
    /\ worker.pc = "reap" /\ n \in Stale(worker.repo)
    /\ branchNode' = [branchNode EXCEPT ![worker.repo][n] = "Archived"]
    /\ UNCHANGED <<remote, mirror, queue, watermark, branchMark, graph, worker, sweep,
                   merged, pushes, crashes>>

(* The reaping is done, or gave up with some of the nodes still Active.    *)
ReapDone ==
    /\ worker.pc = "reap"
    /\ worker' = IF worker.mirrored = {worker.repo} THEN Idle
                 ELSE [worker EXCEPT !.pc = "branches", !.repo = None,
                                     !.mirrored = @ \ {worker.repo}]
    /\ UNCHANGED <<remote, mirror, queue, storeVars, sweep, merged, pushes, crashes>>

-----------------------------------------------------------------------------
(* reconcile_into_queue                                                    *)

(* Mutant: a directory name is taken as it is.                             *)
FederationReposUnchecked == Listed \cup {r \in Repos : mirror[r] # NoClone} \cup {None}

(* federation_repos: what is listed, and what has a mirror.                *)
FederationRepos == Listed \cup {r \in Repos : mirror[r] # NoClone}

(* The queue and the nodes are read once, before the sweep.                *)
SweepStart ==
    /\ ~sweep.running /\ FederationRepos # {}
    /\ sweep' = [running |-> TRUE, todo |-> FederationRepos, already |-> queue,
                 active |-> {t \in Repos \X Branches \X Commits :
                               branchNode[t[1]][<<t[2], t[3]>>] = "Active"}]
    /\ UNCHANGED <<remote, mirror, queue, storeVars, worker, merged, pushes, crashes>>

(* is_drifted                                                              *)
DefaultDrifted(r) == watermark[r] # remote[r].head

(* Mutant: only new and advanced branches are drift.                       *)
BranchDriftedLive(r) ==
    \E b \in Branches : remote[r].branch[b] # None /\ branchMark[r][b] # remote[r].branch[b]

(* branch_drifted: a new or advanced branch, or an Active node (as of the  *)
(* start of the sweep) whose branch is gone.                               *)
BranchDrifted(r) ==
    \/ \E b \in Branches : remote[r].branch[b] # None
                           /\ branchMark[r][b] # remote[r].branch[b]
    \/ \E t \in sweep.active : t[1] = r /\ remote[r].branch[t[2]] = None

(* The sweep goes on to its next repository; the last one ends it.         *)
Swept(r) == IF sweep.todo = {r} THEN NoSweep ELSE [sweep EXCEPT !.todo = @ \ {r}]

(* One repository whose remote answers; "branches" is whether the second   *)
(* question, for the branch heads, was answered too.                       *)
SweepRepo(r, branches) ==
    /\ sweep.running /\ r \in sweep.todo
    /\ sweep' = Swept(r)
    /\ queue' = IF r \notin sweep.already
                   /\ (DefaultDrifted(r) \/ (branches /\ BranchDrifted(r)))
                THEN queue \cup {r} ELSE queue
    /\ UNCHANGED <<remote, mirror, storeVars, worker, merged, pushes, crashes>>

(* ls-remote fails.                                                        *)
SweepSkip(r) ==
    /\ sweep.running /\ r \in sweep.todo
    /\ sweep' = Swept(r)
    /\ UNCHANGED <<remote, mirror, queue, storeVars, worker, merged, pushes, crashes>>

(* The gateway is restarted: the queue is not persistent.                  *)
Restart ==
    /\ crashes < MaxCrashes
    /\ crashes' = crashes + 1
    /\ queue' = {} /\ worker' = Idle /\ sweep' = NoSweep
    /\ UNCHANGED <<remote, mirror, storeVars, merged, pushes>>

-----------------------------------------------------------------------------
WorkerStep ==
    \/ DrainQueue
    \/ \E r \in Repos : EnsureMirror(r) \/ MirrorFails(r) \/ ListBranches(r)
    \/ IngestCommits \/ StampWatermark \/ IngestFails
    \/ BranchPass \/ BranchesDone
    \/ \E b \in Branches : CommitBranch(b) \/ StampBranch(b)
    \/ \E n \in Branches \X Commits : ReapBranch(n)
    \/ ReapDone

SweepStep ==
    \/ SweepStart
    \/ \E r \in Repos : SweepSkip(r) \/ (\E branches \in BOOLEAN : SweepRepo(r, branches))

FeedNext ==
    \/ \E r \in Repos : \/ \E c \in Commits : PushDefault(r, c)
                        \/ \E b \in Branches, tip \in Tips : PushBranch(r, b, tip)
                        \/ GithubWebhook(r)
    \/ WorkerStep
    \/ SweepStep
    \/ Restart

FeedSpec == FeedInit /\ [][FeedNext]_feedVars

(* The two tasks run in loops of their own and never block each other; git *)
(* and the store fail now and then, not for ever.                          *)
FeedFairness ==
    /\ WF_feedVars(WorkerStep)
    /\ WF_feedVars(SweepStep)
    /\ \A r \in Repos : SF_feedVars(EnsureMirror(r)) /\ SF_feedVars(SweepRepo(r, TRUE))
    /\ SF_feedVars(IngestCommits) /\ SF_feedVars(StampWatermark)
    /\ \A b \in Branches : SF_feedVars(CommitBranch(b)) /\ SF_feedVars(StampBranch(b))
    /\ SF_feedVars(\E n \in Branches \X Commits : ReapBranch(n))

FairFeedSpec == FeedSpec /\ FeedFairness

-----------------------------------------------------------------------------
(* Properties.                                                             *)

(* A watermark never claims a commit the store does not hold, whatever     *)
(* fails, restarts or is rewritten between fetch, commit and stamp: what   *)
(* the incremental range of ingest_incremental relies on.                  *)
WatermarkHonest ==
    \A r \in Repos : History(watermark[r]) \subseteq graph[r].commits

(* Default recall never shows a commit that was not merged, in any state   *)
(* between the writes of the worker: it was in the default branch at some  *)
(* time, which is now while that branch only grows (ADR-09, in_flight_map) *)
OnlyMerged ==
    \A r \in Repos : Canonical(r) \subseteq merged[r]

(* The feed has caught up with a repository.                               *)
CaughtUp(r) ==
    /\ watermark[r] = remote[r].head
    /\ \A b \in Branches :
         IF remote[r].branch[b] = None
         THEN \A c \in Commits : branchNode[r][<<b, c>>] # "Active"
         ELSE branchMark[r][b] = remote[r].branch[b]

(* Every repository of the federation is caught up with for good once      *)
(* developers pause, without a single webhook: the completeness backstop   *)
(* of reconcile_into_queue.                                                *)
CatchesUp == \A r \in Listed : <>[]CaughtUp(r)

(* ADR-09's promotion on merge: what is merged is shown, once the feed has *)
(* caught up.                                                              *)
MergedIsCanonical ==
    \A r \in Repos : CaughtUp(r) => History(remote[r].head) \subseteq Canonical(r)

(* What holds between any two writes of the worker: types, and watermarks  *)
(* that claim no more than the store holds.                                *)
FeedInv == FeedTypeOK /\ WatermarkHonest
=============================================================================
