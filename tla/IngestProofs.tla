---------------------------- MODULE IngestProofs ----------------------------
(***************************************************************************)
(* Theorems about the two ingests: IngestFeed, for every commit graph, set *)
(* of repositories and branches, and any number of pushes and restarts;    *)
(* and ChainWalk, for every set of histories, contracts and transactions,  *)
(* and any number of calls, deaths and re-orgs.                            *)
(*                                                                         *)
(* OnlyMerged is about what a reader computes from the stored edges, so it *)
(* needs to know where those came from: every spine edge leads to a        *)
(* parent, every stored commit outside the merged history hangs off a      *)
(* BranchContains edge, and clone and watermark name merged commits only.  *)
(*                                                                         *)
(* CursorHonest and OrphansRetired speak of a walk that may have died at   *)
(* any of its writes; they need to know what the running call has already  *)
(* read and written (WalkInv).                                             *)
(***************************************************************************)
EXTENDS IngestFeed, ChainWalk, SequenceTheorems, TLAPS

-----------------------------------------------------------------------------
(* The feed: the inductive invariant.                                      *)

(* The worker knows its repository whenever a step of it uses one, and     *)
(* stamps only what is stored.                                             *)
WorkerInv ==
    /\ worker.pc \in {"ingest", "stamp", "branch", "branchStamp", "reap"} => worker.repo \in Repos
    /\ worker.pc = "stamp" =>
         History(mirror[worker.repo].head) \subseteq graph[worker.repo].commits

(* What the remote's default branch, the clone and the watermark name was  *)
(* merged at some time.                                                    *)
MergedInv ==
    \A r \in Repos : /\ History(remote[r].head) \subseteq merged[r]
                     /\ History(mirror[r].head) \subseteq merged[r]
                     /\ History(watermark[r]) \subseteq merged[r]

(* Where the spine and the commits of a stored graph come from.            *)
GraphSound(g, m) ==
    /\ \A e \in g.spine : e[2] \in ParentsOf[e[1]]
    /\ \A c \in g.commits : c \in m \/ \E e \in g.contains : e[3] = c

GraphInv == \A r \in Repos : GraphSound(graph[r], merged[r])

FeedIInv == FeedTypeOK /\ WorkerInv /\ WatermarkHonest /\ MergedInv /\ GraphInv

-----------------------------------------------------------------------------
(* git and the graph.                                                      *)

(* The history of a tip: commits only, closed under parents, with the tip. *)
LEMMA HistoryFacts ==
    ASSUME NEW t \in Tips
    PROVE  /\ History(t) \subseteq Commits
           /\ t \in Commits => t \in History(t)
           /\ \A c \in History(t) : ParentsOf[c] \subseteq History(t)
  <1>1. CASE t = None
    BY <1>1, IngestFeedAssumption DEF History
  <1>2. CASE t \in Commits
    <2>1. History(t) = {d \in Commits : \A S \in ClosedSets : t \in S => d \in S}
      BY <1>2, IngestFeedAssumption DEF History, Ancestors
    <2>2. t \in History(t)
      BY <1>2, <2>1
    <2>3. ASSUME NEW c \in History(t), NEW d \in ParentsOf[c]
          PROVE  d \in History(t)
      <3>1. c \in Commits /\ d \in Commits
        BY <2>1, <2>3, IngestFeedAssumption
      <3>2. ASSUME NEW S \in ClosedSets, t \in S
            PROVE  d \in S
        BY <2>1, <2>3, <3>2 DEF ClosedSets
      <3>. QED
        BY <2>1, <3>1, <3>2
    <2>. QED
      BY <2>1, <2>2, <2>3
  <1>. QED
    BY <1>1, <1>2 DEF Tips

(* WithCommits adds the commits, and between them only edges to parents.   *)
LEMMA WithCommitsFacts ==
    ASSUME NEW g \in Graph, NEW recs \in SUBSET Commits
    PROVE  /\ WithCommits(g, recs) \in Graph
           /\ WithCommits(g, recs).commits = g.commits \cup recs
           /\ WithCommits(g, recs).contains = g.contains
           /\ \A e \in WithCommits(g, recs).spine : e \in g.spine \/ e[2] \in ParentsOf[e[1]]
  BY DEF WithCommits, Graph, SpineOf

(* A clone has no tips.                                                    *)
LEMMA NoCloneFacts == NoClone \in GitState /\ NoClone.head = None
  BY DEF NoClone, GitState, Tips

-----------------------------------------------------------------------------
(* The empty store of a fresh tenant.                                      *)
LEMMA FeedInitOK == FeedInit => FeedIInv
  <1> SUFFICES ASSUME FeedInit PROVE FeedIInv
    OBVIOUS
  <1> USE DEF FeedInit
  <1>1. Root \in Tips /\ None \in Tips
    BY IngestFeedAssumption DEF Tips
  <1>2. \A r \in Repos : remote[r].head = Root
    BY NoCloneFacts DEF GitState
  <1>3. FeedTypeOK
    <2>1. remote \in [Repos -> GitState] /\ mirror \in [Repos -> GitState]
      BY <1>1, NoCloneFacts DEF GitState
    <2>2. graph \in [Repos -> Graph]
      BY DEF Graph
    <2>3. merged \in [Repos -> SUBSET Commits]
      BY <1>1, HistoryFacts
    <2>4. /\ watermark \in [Repos -> Tips]
          /\ branchMark \in [Repos -> [Branches -> Tips]]
          /\ branchNode \in [Repos -> [Branches \X Commits -> {"Absent", "Active", "Archived"}]]
      BY <1>1
    <2>5. pushes \in 0 .. MaxPushes /\ crashes \in 0 .. MaxCrashes
      BY IngestFeedAssumption
    <2>. QED
      BY <2>1, <2>2, <2>3, <2>4, <2>5 DEF FeedTypeOK, Idle, NoSweep
  <1>4. WorkerInv
    BY DEF WorkerInv, Idle
  <1>5. History(None) = {}
    BY DEF History
  <1>6. WatermarkHonest
    BY <1>5 DEF WatermarkHonest
  <1>7. MergedInv
    BY <1>2, <1>5, NoCloneFacts DEF MergedInv
  <1>8. GraphInv
    BY DEF GraphInv, GraphSound
  <1>. QED
    BY <1>3, <1>4, <1>6, <1>7, <1>8 DEF FeedIInv

-----------------------------------------------------------------------------
(* Steps.                                                                  *)

(* What the worker's record may hold.                                      *)
WorkerType ==
    [pc : {"idle", "mirror", "ingest", "stamp", "branches", "branch", "branchStamp", "reap"},
     todo : SUBSET Repos, mirrored : SUBSET Repos, repo : Repos \cup {None},
     left : SUBSET Branches]

SweepType ==
    [running : BOOLEAN, todo : SUBSET Repos, already : SUBSET Repos,
     active : SUBSET (Repos \X Branches \X Commits)]

(* Both tasks at rest are of their types.                                  *)
LEMMA RestFacts == Idle \in WorkerType /\ Idle.pc = "idle" /\ NoSweep \in SweepType
  BY DEF Idle, WorkerType, NoSweep, SweepType

(* A step that moves neither git nor what readers see keeps the invariant  *)
(* if it keeps the tasks sound.                                            *)
LEMMA QuietStep ==
    ASSUME FeedIInv, UNCHANGED <<remote, mirror, watermark, graph, merged>>,
           queue' \subseteq Repos, worker' \in WorkerType, sweep' \in SweepType,
           branchMark' \in [Repos -> [Branches -> Tips]],
           branchNode' \in [Repos -> [Branches \X Commits -> {"Absent", "Active", "Archived"}]],
           pushes' \in 0 .. MaxPushes, crashes' \in 0 .. MaxCrashes,
           WorkerInv'
    PROVE  FeedIInv'
  <1>1. FeedTypeOK'
    BY DEF FeedIInv, FeedTypeOK, WorkerType, SweepType
  <1>2. WatermarkHonest'
    BY DEF FeedIInv, WatermarkHonest
  <1>3. MergedInv'
    BY DEF FeedIInv, MergedInv
  <1>4. GraphInv'
    BY DEF FeedIInv, GraphInv
  <1>. QED
    BY <1>1, <1>2, <1>3, <1>4 DEF FeedIInv

(* The same for a step of the worker that writes nothing, and ends where   *)
(* it does not stamp.                                                      *)
LEMMA WorkerOnly ==
    ASSUME FeedIInv, UNCHANGED <<remote, mirror, storeVars, sweep, merged, pushes, crashes>>,
           queue' \subseteq Repos, worker' \in WorkerType,
           worker'.pc # "stamp",
           worker'.pc \in {"ingest", "branch", "branchStamp", "reap"} => worker'.repo \in Repos
    PROVE  FeedIInv'
  <1>1. WorkerInv'
    BY DEF WorkerInv
  <1>2. UNCHANGED <<remote, mirror, watermark, graph, merged>>
    BY DEF storeVars
  <1>3. /\ sweep' \in SweepType
        /\ branchMark' \in [Repos -> [Branches -> Tips]]
        /\ branchNode' \in [Repos -> [Branches \X Commits -> {"Absent", "Active", "Archived"}]]
        /\ pushes' \in 0 .. MaxPushes /\ crashes' \in 0 .. MaxCrashes
    BY DEF FeedIInv, FeedTypeOK, SweepType, storeVars
  <1>. QED
    BY <1>1, <1>2, <1>3, QuietStep

(* A step of the reconciler or a webhook: only the queue and the sweep.    *)
LEMMA QueueOnly ==
    ASSUME FeedIInv, UNCHANGED <<remote, mirror, storeVars, worker, merged, pushes, crashes>>,
           queue' \subseteq Repos, sweep' \in SweepType
    PROVE  FeedIInv'
  <1>1. WorkerInv'
    BY DEF FeedIInv, WorkerInv, storeVars
  <1>2. UNCHANGED <<remote, mirror, watermark, graph, merged>>
    BY DEF storeVars
  <1>3. /\ worker' \in WorkerType
        /\ branchMark' \in [Repos -> [Branches -> Tips]]
        /\ branchNode' \in [Repos -> [Branches \X Commits -> {"Absent", "Active", "Archived"}]]
        /\ pushes' \in 0 .. MaxPushes /\ crashes' \in 0 .. MaxCrashes
    BY DEF FeedIInv, FeedTypeOK, WorkerType, storeVars
  <1>. QED
    BY <1>1, <1>2, <1>3, QuietStep

(* A push to the default branch adds its history to what was merged.       *)
LEMMA PushDefaultStep ==
    ASSUME FeedIInv, NEW r \in Repos, NEW c \in Commits, PushDefault(r, c)
    PROVE  FeedIInv'
  <1>0. c \in Tips /\ History(c) \subseteq Commits
    BY HistoryFacts DEF Tips
  <1>1. /\ remote \in [Repos -> GitState]
        /\ remote' = [remote EXCEPT ![r].head = c]
        /\ merged \in [Repos -> SUBSET Commits]
        /\ merged' = [merged EXCEPT ![r] = @ \cup History(c)]
        /\ pushes < MaxPushes /\ pushes' = pushes + 1 /\ pushes \in 0 .. MaxPushes
        /\ UNCHANGED <<mirror, queue, watermark, branchMark, graph, branchNode, worker, sweep, crashes>>
    BY DEF PushDefault, FeedIInv, FeedTypeOK, storeVars
  <1>2. remote' \in [Repos -> GitState] /\ remote'[r].head = c
        /\ \A x \in Repos \ {r} : remote'[x] = remote[x]
    BY <1>0, <1>1 DEF GitState
  <1>3. /\ merged' \in [Repos -> SUBSET Commits]
        /\ History(c) \subseteq merged'[r]
        /\ \A x \in Repos : merged[x] \subseteq merged'[x]
    BY <1>0, <1>1
  <1>4. pushes' \in 0 .. MaxPushes
    BY <1>1, IngestFeedAssumption
  <1>5. FeedTypeOK'
    BY <1>1, <1>2, <1>3, <1>4 DEF FeedIInv, FeedTypeOK
  <1>6. WorkerInv' /\ WatermarkHonest'
    BY <1>1 DEF FeedIInv, WorkerInv, WatermarkHonest
  <1>7. MergedInv'
    <2> SUFFICES ASSUME NEW x \in Repos
                 PROVE  /\ History(remote'[x].head) \subseteq merged'[x]
                        /\ History(mirror'[x].head) \subseteq merged'[x]
                        /\ History(watermark'[x]) \subseteq merged'[x]
      BY DEF MergedInv
    <2>1. /\ History(remote[x].head) \subseteq merged[x]
          /\ History(mirror[x].head) \subseteq merged[x]
          /\ History(watermark[x]) \subseteq merged[x]
      BY DEF FeedIInv, MergedInv
    <2>. QED
      BY <2>1, <1>1, <1>2, <1>3
  <1>8. GraphInv'
    BY <1>1, <1>3 DEF FeedIInv, GraphInv, GraphSound
  <1>. QED
    BY <1>5, <1>6, <1>7, <1>8 DEF FeedIInv

(* A push to a branch.                                                     *)
LEMMA PushBranchStep ==
    ASSUME FeedIInv, NEW r \in Repos, NEW b \in Branches, NEW tip \in Tips, PushBranch(r, b, tip)
    PROVE  FeedIInv'
  <1>1. /\ remote \in [Repos -> GitState]
        /\ remote' = [remote EXCEPT ![r].branch[b] = tip]
        /\ pushes < MaxPushes /\ pushes' = pushes + 1 /\ pushes \in 0 .. MaxPushes
        /\ UNCHANGED <<mirror, queue, watermark, branchMark, graph, branchNode, worker, sweep,
                       merged, crashes>>
    BY DEF PushBranch, FeedIInv, FeedTypeOK, storeVars
  <1>2. remote' \in [Repos -> GitState] /\ \A x \in Repos : remote'[x].head = remote[x].head
    BY <1>1 DEF GitState
  <1>4. pushes' \in 0 .. MaxPushes
    BY <1>1, IngestFeedAssumption
  <1>5. FeedTypeOK'
    BY <1>1, <1>2, <1>4 DEF FeedIInv, FeedTypeOK
  <1>6. WorkerInv' /\ WatermarkHonest' /\ GraphInv'
    BY <1>1 DEF FeedIInv, WorkerInv, WatermarkHonest, GraphInv
  <1>7. MergedInv'
    BY <1>1, <1>2 DEF FeedIInv, MergedInv
  <1>. QED
    BY <1>5, <1>6, <1>7 DEF FeedIInv

(* ensure_mirror: the clone's tip is the remote's.                         *)
LEMMA EnsureMirrorStep ==
    ASSUME FeedIInv, NEW r \in Repos, EnsureMirror(r)
    PROVE  FeedIInv'
  <1>1. /\ mirror \in [Repos -> GitState] /\ remote \in [Repos -> GitState]
        /\ mirror' = [mirror EXCEPT ![r] = remote[r]]
        /\ worker \in WorkerType
        /\ worker' = [worker EXCEPT !.pc = "ingest", !.todo = @ \ {r}, !.repo = r]
        /\ UNCHANGED <<remote, queue, watermark, branchMark, graph, branchNode, sweep,
                       merged, pushes, crashes>>
    BY DEF EnsureMirror, FeedIInv, FeedTypeOK, WorkerType, storeVars
  <1>2. mirror' \in [Repos -> GitState] /\ mirror'[r] = remote[r]
        /\ \A x \in Repos \ {r} : mirror'[x] = mirror[x]
    BY <1>1
  <1>3. worker' \in WorkerType /\ worker'.pc = "ingest" /\ worker'.repo = r
    BY <1>1 DEF WorkerType
  <1>5. FeedTypeOK'
    BY <1>1, <1>2, <1>3 DEF FeedIInv, FeedTypeOK, WorkerType
  <1>6. WorkerInv' /\ WatermarkHonest' /\ GraphInv'
    BY <1>1, <1>3 DEF FeedIInv, WorkerInv, WatermarkHonest, GraphInv
  <1>7. MergedInv'
    BY <1>1, <1>2 DEF FeedIInv, MergedInv
  <1>. QED
    BY <1>5, <1>6, <1>7 DEF FeedIInv

(* ingest_incremental stores the history of the clone's tip: the part      *)
(* before the watermark is there already.                                  *)
LEMMA IngestCommitsStep ==
    ASSUME FeedIInv, IngestCommits
    PROVE  FeedIInv'
  <1> DEFINE r == worker.repo
             recs == RecsSince(watermark[r], mirror[r].head)
             g == WithCommits(graph[r], recs)
  <1>1. /\ r \in Repos
        /\ graph \in [Repos -> Graph] /\ graph' = [graph EXCEPT ![r] = g]
        /\ worker \in WorkerType /\ worker' = [worker EXCEPT !.pc = "stamp"]
        /\ UNCHANGED <<remote, mirror, queue, watermark, branchMark, branchNode, sweep,
                       merged, pushes, crashes>>
    BY DEF IngestCommits, FeedIInv, FeedTypeOK, WorkerType, WorkerInv
  <1>2. watermark[r] \in Tips /\ mirror[r].head \in Tips
    BY <1>1 DEF FeedIInv, FeedTypeOK, GitState
  <1>3. History(watermark[r]) \subseteq graph[r].commits /\ History(mirror[r].head) \subseteq merged[r]
    BY <1>1 DEF FeedIInv, WatermarkHonest, MergedInv
  <1>4. recs \subseteq History(mirror[r].head)
        /\ History(mirror[r].head) \subseteq History(watermark[r]) \cup recs
    BY DEF RecsSince
  <1>5. recs \in SUBSET Commits
    BY <1>2, <1>4, HistoryFacts
  <1> HIDE DEF recs
  <1>6. /\ g \in Graph
        /\ g.commits = graph[r].commits \cup recs
        /\ g.contains = graph[r].contains
        /\ \A e \in g.spine : e \in graph[r].spine \/ e[2] \in ParentsOf[e[1]]
    BY <1>1, <1>5, WithCommitsFacts
  <1> HIDE DEF g
  <1>7. graph' \in [Repos -> Graph] /\ graph'[r] = g
        /\ \A x \in Repos \ {r} : graph'[x] = graph[x]
    BY <1>1, <1>6
  <1>8. worker' \in WorkerType /\ worker'.pc = "stamp" /\ worker'.repo = r
    BY <1>1 DEF WorkerType
  <1> HIDE DEF r
  <1>9. FeedTypeOK'
    BY <1>1, <1>7, <1>8 DEF FeedIInv, FeedTypeOK, WorkerType
  <1>10. WorkerInv'
    <2>1. History(mirror[r].head) \subseteq g.commits
      BY <1>3, <1>4, <1>6
    <2>. QED
      BY <1>1, <1>7, <1>8, <2>1 DEF WorkerInv
  <1>11. WatermarkHonest'
    BY <1>1, <1>6, <1>7 DEF FeedIInv, WatermarkHonest
  <1>12. MergedInv'
    BY <1>1 DEF FeedIInv, MergedInv
  <1>13. GraphInv'
    <2>1. GraphSound(graph[r], merged[r])
      BY <1>1 DEF FeedIInv, GraphInv
    <2>2. GraphSound(g, merged[r])
      BY <1>3, <1>4, <1>6, <2>1 DEF GraphSound
    <2>. QED
      BY <1>1, <1>7, <2>2 DEF FeedIInv, GraphInv
  <1>. QED
    BY <1>9, <1>10, <1>11, <1>12, <1>13 DEF FeedIInv

(* The watermark is set to the clone's tip, whose history is stored.       *)
LEMMA StampWatermarkStep ==
    ASSUME FeedIInv, StampWatermark
    PROVE  FeedIInv'
  <1> DEFINE r == worker.repo
  <1>1. /\ r \in Repos
        /\ watermark \in [Repos -> Tips] /\ watermark' = [watermark EXCEPT ![r] = mirror[r].head]
        /\ worker \in WorkerType
        /\ worker' = [worker EXCEPT !.pc = "mirror", !.mirrored = @ \cup {r}, !.repo = None]
        /\ UNCHANGED <<remote, mirror, queue, branchMark, graph, branchNode, sweep,
                       merged, pushes, crashes>>
    BY DEF StampWatermark, FeedIInv, FeedTypeOK, WorkerType, WorkerInv
  <1>2. mirror[r].head \in Tips
    BY <1>1 DEF FeedIInv, FeedTypeOK, GitState
  <1>3. History(mirror[r].head) \subseteq graph[r].commits /\ History(mirror[r].head) \subseteq merged[r]
    BY <1>1 DEF FeedIInv, WorkerInv, MergedInv, StampWatermark
  <1>4. watermark' \in [Repos -> Tips] /\ watermark'[r] = mirror[r].head
        /\ \A x \in Repos \ {r} : watermark'[x] = watermark[x]
    BY <1>1, <1>2
  <1>5. worker' \in WorkerType /\ worker'.pc = "mirror"
    BY <1>1 DEF WorkerType
  <1> HIDE DEF r
  <1>6. FeedTypeOK'
    BY <1>1, <1>4, <1>5 DEF FeedIInv, FeedTypeOK, WorkerType
  <1>7. WorkerInv'
    BY <1>5 DEF WorkerInv
  <1>8. WatermarkHonest'
    BY <1>1, <1>3, <1>4 DEF FeedIInv, WatermarkHonest
  <1>9. MergedInv'
    BY <1>1, <1>3, <1>4 DEF FeedIInv, MergedInv
  <1>10. GraphInv'
    BY <1>1 DEF FeedIInv, GraphInv
  <1>. QED
    BY <1>6, <1>7, <1>8, <1>9, <1>10 DEF FeedIInv

(* One branch: its commits arrive together with the edges that mark them.  *)
LEMMA CommitBranchStep ==
    ASSUME FeedIInv, NEW b \in Branches, CommitBranch(b)
    PROVE  FeedIInv'
  <1> DEFINE r == worker.repo
             recs == Unmerged(r, b)
             tip == mirror[r].branch[b]
             g == WithCommits(graph[r], recs)
             h == [g EXCEPT !.contains = @ \cup ({b} \X {tip} \X recs)]
  <1>1. /\ r \in Repos
        /\ graph \in [Repos -> Graph] /\ graph' = [graph EXCEPT ![r] = h]
        /\ branchNode' = IF recs = {} THEN branchNode
                         ELSE [branchNode EXCEPT ![r][<<b, tip>>] = "Active"]
        /\ branchNode \in [Repos -> [Branches \X Commits -> {"Absent", "Active", "Archived"}]]
        /\ worker \in WorkerType /\ worker' = [worker EXCEPT !.pc = "branchStamp", !.left = {b}]
        /\ UNCHANGED <<remote, mirror, queue, watermark, branchMark, sweep, merged, pushes, crashes>>
    BY DEF CommitBranch, FeedIInv, FeedTypeOK, WorkerType, WorkerInv
  <1>2. tip \in Tips
    BY <1>1 DEF FeedIInv, FeedTypeOK, GitState
  <1>3. recs \in SUBSET Commits /\ (recs # {} => tip \in Commits)
    <2>1. recs \subseteq History(tip)
      BY DEF Unmerged
    <2>2. tip = None => History(tip) = {}
      BY DEF History
    <2>. QED
      BY <1>2, <2>1, <2>2, HistoryFacts DEF Tips
  <1> HIDE DEF recs, tip
  <1>4. /\ g \in Graph
        /\ g.commits = graph[r].commits \cup recs
        /\ g.contains = graph[r].contains
        /\ \A e \in g.spine : e \in graph[r].spine \/ e[2] \in ParentsOf[e[1]]
    BY <1>1, <1>3, WithCommitsFacts
  <1> HIDE DEF g
  <1>5. /\ h \in Graph /\ h.commits = g.commits /\ h.spine = g.spine
        /\ h.contains = g.contains \cup ({b} \X {tip} \X recs)
    <2>1. ({b} \X {tip} \X recs) \subseteq Branches \X Commits \X Commits
      BY <1>3
    <2>. QED
      BY <1>4, <2>1 DEF Graph
  <1> HIDE DEF h
  <1>6. graph' \in [Repos -> Graph] /\ graph'[r] = h
        /\ \A x \in Repos \ {r} : graph'[x] = graph[x]
    BY <1>1, <1>5
  <1>7. branchNode' \in [Repos -> [Branches \X Commits -> {"Absent", "Active", "Archived"}]]
    BY <1>1, <1>3
  <1>8. worker' \in WorkerType /\ worker'.pc = "branchStamp" /\ worker'.repo = r
    BY <1>1 DEF WorkerType
  <1> HIDE DEF r
  <1>9. FeedTypeOK'
    BY <1>1, <1>6, <1>7, <1>8 DEF FeedIInv, FeedTypeOK, WorkerType
  <1>10. WorkerInv'
    BY <1>1, <1>8 DEF WorkerInv
  <1>11. WatermarkHonest'
    BY <1>1, <1>4, <1>5, <1>6 DEF FeedIInv, WatermarkHonest
  <1>12. MergedInv'
    BY <1>1 DEF FeedIInv, MergedInv
  <1>13. GraphInv'
    <2>1. GraphSound(graph[r], merged[r])
      BY <1>1 DEF FeedIInv, GraphInv
    <2>2. ASSUME NEW c \in recs
          PROVE  \E e \in h.contains : e[3] = c
      <3>1. <<b, tip, c>> \in h.contains /\ <<b, tip, c>>[3] = c
        BY <1>5, <2>2
      <3>. QED
        BY <3>1
    <2>3. GraphSound(h, merged[r])
      BY <1>4, <1>5, <2>1, <2>2 DEF GraphSound
    <2>. QED
      BY <1>1, <1>6, <2>3 DEF FeedIInv, GraphInv
  <1>. QED
    BY <1>9, <1>10, <1>11, <1>12, <1>13 DEF FeedIInv

(* The branch watermarks and the Branch nodes.                             *)
LEMMA StampBranchStep ==
    ASSUME FeedIInv, NEW b \in Branches, StampBranch(b)
    PROVE  FeedIInv'
  <1> DEFINE r == worker.repo
             marks == [branchMark[r] EXCEPT ![b] = mirror[r].branch[b]]
             next == {x \in Branches : mirror[r].branch[x] # None
                                       /\ marks[x] # mirror[r].branch[x]}
  <1>1. /\ r \in Repos
        /\ branchMark \in [Repos -> [Branches -> Tips]]
        /\ branchMark' = [branchMark EXCEPT ![r] = marks]
        /\ worker \in WorkerType /\ worker' = [worker EXCEPT !.pc = "branch", !.left = next]
        /\ UNCHANGED <<remote, mirror, queue, watermark, graph, branchNode, sweep,
                       merged, pushes, crashes>>
    BY DEF StampBranch, FeedIInv, FeedTypeOK, WorkerType, WorkerInv
  <1>2. mirror[r].branch[b] \in Tips
    BY <1>1 DEF FeedIInv, FeedTypeOK, GitState
  <1>3. marks \in [Branches -> Tips]
    BY <1>1, <1>2
  <1>4. next \in SUBSET Branches
    OBVIOUS
  <1> HIDE DEF marks, next
  <1>5. branchMark' \in [Repos -> [Branches -> Tips]]
    BY <1>1, <1>3
  <1>6. worker' \in WorkerType /\ worker'.pc = "branch" /\ worker'.repo = r
    BY <1>1, <1>4 DEF WorkerType
  <1>7. WorkerInv'
    BY <1>1, <1>6 DEF WorkerInv
  <1>8. /\ queue' \subseteq Repos /\ sweep' \in SweepType
        /\ branchNode' \in [Repos -> [Branches \X Commits -> {"Absent", "Active", "Archived"}]]
        /\ pushes' \in 0 .. MaxPushes /\ crashes' \in 0 .. MaxCrashes
    BY <1>1 DEF FeedIInv, FeedTypeOK, SweepType
  <1>. QED
    BY <1>1, <1>5, <1>6, <1>7, <1>8, QuietStep

(* reap_branches archives Branch nodes, never the edges that mark commits. *)
LEMMA ReapBranchStep ==
    ASSUME FeedIInv, NEW n \in Branches \X Commits, ReapBranch(n)
    PROVE  FeedIInv'
  <1>1. /\ branchNode \in [Repos -> [Branches \X Commits -> {"Absent", "Active", "Archived"}]]
        /\ branchNode' = [branchNode EXCEPT ![worker.repo][n] = "Archived"]
        /\ UNCHANGED <<remote, mirror, queue, watermark, branchMark, graph, worker, sweep,
                       merged, pushes, crashes>>
    BY DEF ReapBranch, FeedIInv, FeedTypeOK
  <1>2. branchNode' \in [Repos -> [Branches \X Commits -> {"Absent", "Active", "Archived"}]]
    BY <1>1
  <1>3. WorkerInv'
    BY <1>1 DEF FeedIInv, WorkerInv
  <1>4. /\ queue' \subseteq Repos /\ sweep' \in SweepType /\ worker' \in WorkerType
        /\ branchMark' \in [Repos -> [Branches -> Tips]]
        /\ pushes' \in 0 .. MaxPushes /\ crashes' \in 0 .. MaxCrashes
    BY <1>1 DEF FeedIInv, FeedTypeOK, SweepType, WorkerType
  <1>. QED
    BY <1>1, <1>2, <1>3, <1>4, QuietStep

(* The steps of the drain task.                                            *)
LEMMA WorkerSteps ==
    ASSUME FeedIInv, WorkerStep
    PROVE  FeedIInv'
  <1>0. worker \in WorkerType /\ queue \subseteq Repos
    BY DEF FeedIInv, FeedTypeOK, WorkerType
  <1>1. CASE DrainQueue
    <2>1. worker' = [Idle EXCEPT !.pc = "mirror", !.todo = queue] /\ queue' = {}
          /\ UNCHANGED <<remote, mirror, storeVars, sweep, merged, pushes, crashes>>
      BY <1>1 DEF DrainQueue
    <2>2. worker' \in WorkerType /\ worker'.pc = "mirror"
      BY <1>0, <2>1, RestFacts DEF WorkerType
    <2>. QED
      BY <2>1, <2>2, WorkerOnly
  <1>2. ASSUME NEW r \in Repos, MirrorFails(r)
        PROVE  FeedIInv'
    <2>1. worker.pc = "mirror" /\ worker' = [worker EXCEPT !.todo = @ \ {r}]
          /\ UNCHANGED <<remote, mirror, queue, storeVars, sweep, merged, pushes, crashes>>
      BY <1>2 DEF MirrorFails
    <2>2. worker' \in WorkerType /\ worker'.pc = "mirror"
      BY <1>0, <2>1 DEF WorkerType
    <2>. QED
      BY <1>0, <2>1, <2>2, WorkerOnly
  <1>3. ASSUME NEW r \in Repos, ListBranches(r)
        PROVE  FeedIInv'
    <2> DEFINE next == {b \in Branches : mirror[r].branch[b] # None
                                         /\ branchMark[r][b] # mirror[r].branch[b]}
    <2>1. worker' = [worker EXCEPT !.pc = "branch", !.repo = r, !.left = next]
          /\ UNCHANGED <<remote, mirror, queue, storeVars, sweep, merged, pushes, crashes>>
      BY <1>3 DEF ListBranches
    <2>2. next \in SUBSET Branches
      OBVIOUS
    <2> HIDE DEF next
    <2>3. worker' \in WorkerType /\ worker'.pc = "branch" /\ worker'.repo = r
      BY <1>0, <2>1, <2>2 DEF WorkerType
    <2>. QED
      BY <1>0, <2>1, <2>3, WorkerOnly
  <1>4. CASE IngestFails
    <2>1. worker.pc \in {"ingest", "stamp"}
          /\ worker' = [worker EXCEPT !.pc = "mirror", !.mirrored = @ \cup {worker.repo}, !.repo = None]
          /\ UNCHANGED <<remote, mirror, queue, storeVars, sweep, merged, pushes, crashes>>
      BY <1>4 DEF IngestFails
    <2>2. worker.repo \in Repos
      BY <2>1 DEF FeedIInv, WorkerInv
    <2>3. worker' \in WorkerType /\ worker'.pc = "mirror"
      BY <1>0, <2>1, <2>2 DEF WorkerType
    <2>. QED
      BY <1>0, <2>1, <2>3, WorkerOnly
  <1>5. CASE BranchPass
    <2>1. worker' = (IF worker.mirrored = {} THEN Idle ELSE [worker EXCEPT !.pc = "branches"])
          /\ UNCHANGED <<remote, mirror, queue, storeVars, sweep, merged, pushes, crashes>>
      BY <1>5 DEF BranchPass
    <2>2. worker' \in WorkerType /\ worker'.pc \in {"idle", "branches"}
      BY <1>0, <2>1, RestFacts DEF WorkerType
    <2>. QED
      BY <1>0, <2>1, <2>2, WorkerOnly
  <1>6. CASE BranchesDone
    <2>1. worker.pc \in {"branch", "branchStamp"}
          /\ worker' = [worker EXCEPT !.pc = "reap", !.left = {}]
          /\ UNCHANGED <<remote, mirror, queue, storeVars, sweep, merged, pushes, crashes>>
      BY <1>6 DEF BranchesDone
    <2>2. worker.repo \in Repos
      BY <2>1 DEF FeedIInv, WorkerInv
    <2>3. worker' \in WorkerType /\ worker'.pc = "reap" /\ worker'.repo = worker.repo
      BY <1>0, <2>1 DEF WorkerType
    <2>. QED
      BY <1>0, <2>1, <2>2, <2>3, WorkerOnly
  <1>7. CASE ReapDone
    <2>1. worker' = (IF worker.mirrored = {worker.repo} THEN Idle
                     ELSE [worker EXCEPT !.pc = "branches", !.repo = None,
                                         !.mirrored = @ \ {worker.repo}])
          /\ UNCHANGED <<remote, mirror, queue, storeVars, sweep, merged, pushes, crashes>>
      BY <1>7 DEF ReapDone
    <2>2. worker' \in WorkerType /\ worker'.pc \in {"idle", "branches"}
      BY <1>0, <2>1, RestFacts DEF WorkerType
    <2>. QED
      BY <1>0, <2>1, <2>2, WorkerOnly
  <1>. QED
    BY <1>1, <1>2, <1>3, <1>4, <1>5, <1>6, <1>7, EnsureMirrorStep, IngestCommitsStep,
       StampWatermarkStep, CommitBranchStep, StampBranchStep, ReapBranchStep DEF WorkerStep

(* The steps of the reconciler.                                            *)
LEMMA SweepSteps ==
    ASSUME FeedIInv, SweepStep
    PROVE  FeedIInv'
  <1>0. sweep \in SweepType /\ queue \subseteq Repos
    BY DEF FeedIInv, FeedTypeOK, SweepType
  <1>1. CASE SweepStart
    <2> DEFINE act == {t \in Repos \X Branches \X Commits :
                        branchNode[t[1]][<<t[2], t[3]>>] = "Active"}
    <2>1. sweep' = [running |-> TRUE, todo |-> FederationRepos, already |-> queue, active |-> act]
          /\ UNCHANGED <<remote, mirror, queue, storeVars, worker, merged, pushes, crashes>>
      BY <1>1 DEF SweepStart
    <2>2. act \in SUBSET (Repos \X Branches \X Commits) /\ FederationRepos \in SUBSET Repos
      BY IngestFeedAssumption DEF FederationRepos
    <2> HIDE DEF act
    <2>3. sweep' \in SweepType
      BY <1>0, <2>1, <2>2 DEF SweepType
    <2>. QED
      BY <1>0, <2>1, <2>3, QueueOnly
  <1>2. ASSUME NEW r \in Repos PROVE Swept(r) \in SweepType
    BY <1>0, RestFacts DEF SweepType, Swept
  <1>3. ASSUME NEW r \in Repos, SweepSkip(r)
        PROVE  FeedIInv'
    <2>1. sweep' = Swept(r)
          /\ UNCHANGED <<remote, mirror, queue, storeVars, worker, merged, pushes, crashes>>
      BY <1>3 DEF SweepSkip
    <2>2. sweep' \in SweepType
      BY <1>0, <1>2, <2>1
    <2>. QED
      BY <1>0, <2>1, <2>2, QueueOnly
  <1>4. ASSUME NEW r \in Repos, NEW branches \in BOOLEAN, SweepRepo(r, branches)
        PROVE  FeedIInv'
    <2>1. sweep' = Swept(r) /\ queue' \in {queue, queue \cup {r}}
          /\ UNCHANGED <<remote, mirror, storeVars, worker, merged, pushes, crashes>>
      BY <1>4 DEF SweepRepo
    <2>2. sweep' \in SweepType /\ queue' \subseteq Repos
      BY <1>0, <1>2, <2>1
    <2>. QED
      BY <2>1, <2>2, QueueOnly
  <1>. QED
    BY <1>1, <1>3, <1>4 DEF SweepStep

(* Every step keeps the invariant.                                         *)
LEMMA FeedStepOK == FeedIInv /\ [FeedNext]_feedVars => FeedIInv'
  <1> SUFFICES ASSUME FeedIInv, [FeedNext]_feedVars PROVE FeedIInv'
    OBVIOUS
  <1>1. ASSUME NEW r \in Repos, GithubWebhook(r)
        PROVE  FeedIInv'
    <2>1. queue' = queue \cup {r}
          /\ UNCHANGED <<remote, mirror, storeVars, worker, sweep, merged, pushes, crashes>>
      BY <1>1 DEF GithubWebhook
    <2>2. queue' \subseteq Repos /\ sweep' \in SweepType
      BY <2>1 DEF FeedIInv, FeedTypeOK, SweepType
    <2>. QED
      BY <2>1, <2>2, QueueOnly
  <1>2. CASE Restart
    <2>1. /\ crashes < MaxCrashes /\ crashes' = crashes + 1
          /\ queue' = {} /\ worker' = Idle /\ sweep' = NoSweep
          /\ UNCHANGED <<remote, mirror, watermark, branchMark, graph, branchNode, merged, pushes>>
      BY <1>2 DEF Restart, storeVars
    <2>2. crashes' \in 0 .. MaxCrashes
      BY <2>1, IngestFeedAssumption DEF FeedIInv, FeedTypeOK
    <2>3. WorkerInv'
      BY <2>1, RestFacts DEF WorkerInv
    <2>4. /\ branchMark' \in [Repos -> [Branches -> Tips]]
          /\ branchNode' \in [Repos -> [Branches \X Commits -> {"Absent", "Active", "Archived"}]]
          /\ pushes' \in 0 .. MaxPushes
      BY <2>1 DEF FeedIInv, FeedTypeOK
    <2>. QED
      BY <2>1, <2>2, <2>3, <2>4, RestFacts, QuietStep
  <1>3. CASE UNCHANGED feedVars
    <2>1. /\ UNCHANGED <<remote, mirror, storeVars, worker, merged, pushes, crashes>>
          /\ queue' = queue /\ sweep' = sweep
      BY <1>3 DEF feedVars, storeVars
    <2>2. queue' \subseteq Repos /\ sweep' \in SweepType
      BY <2>1 DEF FeedIInv, FeedTypeOK, SweepType
    <2>. QED
      BY <2>1, <2>2, QueueOnly
  <1>. QED
    BY <1>1, <1>2, <1>3, PushDefaultStep, PushBranchStep, WorkerSteps, SweepSteps DEF FeedNext

-----------------------------------------------------------------------------
(* The theorems.                                                           *)

(* The inductive invariant of the change feed: clone, watermark and stored *)
(* graph stay in step through failures, rewrites of history and restarts.  *)
THEOREM FeedIInvHolds == FeedSpec => []FeedIInv
  BY FeedInitOK, FeedStepOK, PTL DEF FeedSpec

(* A watermark never claims a commit the store does not hold, which is     *)
(* what the incremental range of ingest_incremental relies on.             *)
THEOREM FeedInvHolds == FeedSpec => []FeedInv
  <1>1. FeedIInv => FeedInv
    BY DEF FeedIInv, FeedInv
  <1>. QED
    BY <1>1, FeedIInvHolds, PTL

(* canonical_reachable stays within the history of the watermark: it walks *)
(* the stored spine, and every edge of that leads to a parent.             *)
LEMMA ReachableIsHistory ==
    ASSUME FeedIInv, NEW r \in Repos
    PROVE  CanonicalReachable(r) \subseteq History(watermark[r])
  <1> SUFFICES ASSUME NEW c \in CanonicalReachable(r)
               PROVE  c \in History(watermark[r])
    OBVIOUS
  <1> DEFINE H == History(watermark[r])
  <1>1. watermark[r] \in Tips /\ graph[r] \in Graph
    BY DEF FeedIInv, FeedTypeOK
  <1>2. watermark[r] \in Commits
    BY <1>1 DEF CanonicalReachable, Graph
  <1>3. /\ H \subseteq Commits /\ watermark[r] \in H
        /\ \A d \in H : ParentsOf[d] \subseteq H
    BY <1>1, <1>2, HistoryFacts
  <1>4. \A e \in graph[r].spine : e[2] \in ParentsOf[e[1]]
    BY DEF FeedIInv, GraphInv, GraphSound
  <1> HIDE DEF H
  <1>5. \A e \in graph[r].spine : e[1] \in H => e[2] \in H
    BY <1>3, <1>4
  <1>6. c \in H
    BY <1>3, <1>5 DEF CanonicalReachable
  <1>. QED
    BY <1>6 DEF H

(* Default recall shows merged commits only, in any state between the      *)
(* writes of the worker (in_flight_map, ADR-09).                           *)
THEOREM OnlyMergedHolds == FeedSpec => []OnlyMerged
  <1>1. ASSUME FeedIInv PROVE OnlyMerged
    <2> SUFFICES ASSUME NEW r \in Repos, NEW c \in Canonical(r)
                 PROVE  c \in merged[r]
      BY DEF OnlyMerged
    <2>1. c \in graph[r].commits /\ c \notin InFlight(r)
      BY DEF Canonical
    <2>2. CASE c \in CanonicalReachable(r)
      BY <1>1, <2>2, ReachableIsHistory DEF FeedIInv, MergedInv
    <2>3. CASE c \notin CanonicalReachable(r)
      <3>1. ~ \E e \in graph[r].contains : e[3] = c
        BY <2>1, <2>3 DEF InFlight
      <3>. QED
        BY <1>1, <2>1, <3>1 DEF FeedIInv, GraphInv, GraphSound
    <2>. QED
      BY <2>2, <2>3
  <1>. QED
    BY <1>1, FeedIInvHolds, PTL

-----------------------------------------------------------------------------
(* The walk: the inductive invariant.                                      *)

Acyclic(sup) == \A e \in sup : ~Reaches(sup, e[2], e[1])

(* Block b is stored with its watched transactions.                        *)
Stored(t, em, b) ==
    /\ t.status[b] # "Absent"
    /\ \A tx \in Watched(b) : <<b, <<tx, Height(b)>>>> \in em

(* A running walk knows every Active checkpoint, or has just put it.  A    *)
(* block in progress is stored, and every rival of it is still to be       *)
(* retired, retired, or cannot be for the block corrects it already.       *)
WalkInv ==
    /\ call.op = "walk" => ActiveNodes(checkpoints) \subseteq call.known
    /\ call.op = "block" =>
         /\ ActiveNodes(checkpoints) \subseteq call.known \cup {call.block}
         /\ Len(call.block) = call.n + 1
         /\ Stored(checkpoints, emits, call.block)
         /\ call.block \notin call.todo
         /\ \A o \in Blocks :
              o # call.block /\ Height(o) = Height(call.block) /\ checkpoints.status[o] = "Active"
                => o \in call.todo \/ Reaches(checkpoints.sup, o, call.block)

ChainIInv == ChainTypeOK /\ CorrectionsAcyclic /\ CursorHonest /\ WalkInv

-----------------------------------------------------------------------------
(* Blocks.                                                                 *)

(* A block is a non-empty sequence no longer than the longest history.     *)
LEMMA BlockFacts ==
    ASSUME NEW b \in Blocks
    PROVE  b \in Seq(Labels) /\ Len(b) \in 1 .. MaxHeight /\ Height(b) \in 0 .. MaxHeight
  <1>1. PICK h \in Histories : b \in {SubSeq(h, 1, n) : n \in 1 .. Len(h)}
    BY DEF Blocks
  <1>2. PICK n \in 1 .. Len(h) : b = SubSeq(h, 1, n)
    BY <1>1
  <1>3. h \in Seq(Labels) /\ Len(h) \in 1 .. MaxHeight /\ MaxHeight \in Nat
    BY ChainWalkAssumption
  <1>4. \A i \in 1 .. n : h[i] \in Labels
    BY <1>2, <1>3
  <1>5. SubSeq(h, 1, n) \in Seq(Labels) /\ Len(SubSeq(h, 1, n)) = n
    BY <1>3, <1>4, SubSeqProperties
  <1>. QED
    BY <1>2, <1>3, <1>5 DEF Height

(* The block the source shows at a height it has.                          *)
LEMMA BlockAtFacts ==
    ASSUME source \in Histories, NEW n \in Nat, n < Len(source)
    PROVE  BlockAt(n) \in Blocks /\ Len(BlockAt(n)) = n + 1
  <1>1. source \in Seq(Labels) /\ Len(source) \in Nat
    BY ChainWalkAssumption
  <1>2. n + 1 \in 1 .. Len(source)
    BY <1>1
  <1>3. BlockAt(n) \in Blocks
    BY <1>2 DEF BlockAt, Blocks
  <1>4. \A i \in 1 .. n + 1 : source[i] \in Labels
    BY <1>1, <1>2
  <1>5. Len(BlockAt(n)) = n + 1
    BY <1>1, <1>2, <1>4, SubSeqProperties DEF BlockAt
  <1>. QED
    BY <1>3, <1>5

-----------------------------------------------------------------------------
(* Supersessions.                                                          *)

(* Which nodes the search is confined to makes no difference.              *)
LEMMA ReachesWithin ==
    ASSUME NEW N, NEW sup \in SUBSET (N \X N), NEW to \in N, NEW from \in N
    PROVE  Reaches(sup, to, from) <=>
             \A S \in SUBSET N : to \in S /\ (\A e \in sup : e[1] \in S => e[2] \in S) => from \in S
  <1> DEFINE E == {{e[1], e[2]} : e \in sup}
             U == (UNION E) \cup {to, from}
  <1>1. Reaches(sup, to, from) <=>
          \A S \in SUBSET U : to \in S /\ (\A e \in sup : e[1] \in S => e[2] \in S) => from \in S
    BY DEF Reaches
  <1>2. \A e \in sup : e[1] \in U /\ e[2] \in U /\ e[1] \in N /\ e[2] \in N
    <2> TAKE e \in sup
    <2>1. {e[1], e[2]} \in E
      OBVIOUS
    <2>2. e[1] \in N /\ e[2] \in N
      OBVIOUS
    <2> HIDE DEF E
    <2>. QED
      BY <2>1, <2>2
  <1>3. to \in U /\ from \in U /\ U \subseteq N
    <2>1. \A X \in E : X \subseteq N
      OBVIOUS
    <2> HIDE DEF E
    <2>2. UNION E \subseteq N
      BY <2>1
    <2>. QED
      BY <2>2
  <1> HIDE DEF U
  <1>4. ASSUME \A S \in SUBSET U : to \in S /\ (\A e \in sup : e[1] \in S => e[2] \in S) => from \in S,
               NEW S \in SUBSET N, to \in S, \A e \in sup : e[1] \in S => e[2] \in S
        PROVE  from \in S
    <2>1. S \cap U \in SUBSET U /\ to \in S \cap U
      BY <1>3, <1>4
    <2>2. \A e \in sup : e[1] \in S \cap U => e[2] \in S \cap U
      BY <1>2, <1>4
    <2>. QED
      BY <1>4, <2>1, <2>2
  <1>. QED
    BY <1>1, <1>3, <1>4

(* With more supersessions, more is reached.                               *)
LEMMA ReachesGrows ==
    ASSUME NEW N, NEW sup \in SUBSET (N \X N), NEW more \in SUBSET (N \X N), sup \subseteq more,
           NEW to \in N, NEW from \in N, Reaches(sup, to, from)
    PROVE  Reaches(more, to, from)
  <1>1. \A S \in SUBSET N : to \in S /\ (\A e \in sup : e[1] \in S => e[2] \in S) => from \in S
    BY ReachesWithin
  <1>2. \A S \in SUBSET N : to \in S /\ (\A e \in more : e[1] \in S => e[2] \in S) => from \in S
    BY <1>1
  <1>. QED
    BY <1>2, ReachesWithin

(* The cycle guard: a supersession whose source is not reachable from its  *)
(* target closes no cycle.                                                 *)
LEMMA GuardedHop ==
    ASSUME NEW N, NEW sup \in SUBSET (N \X N), Acyclic(sup),
           NEW from \in N, NEW to \in N, ~Reaches(sup, to, from)
    PROVE  Acyclic(sup \cup {<<from, to>>})
  <1> DEFINE more == sup \cup {<<from, to>>}
  <1>1. more \in SUBSET (N \X N)
    OBVIOUS
  <1>2. PICK S \in SUBSET N : /\ to \in S /\ from \notin S
                              /\ \A e \in sup : e[1] \in S => e[2] \in S
    BY ReachesWithin
  <1>3. \A e \in more : e \in sup \/ (e[1] = from /\ e[2] = to)
    OBVIOUS
  <1>4. \A e \in more : e[1] \in N /\ e[2] \in N
    BY <1>1
  <1> HIDE DEF more
  <1>5. \A e \in more : e[1] \in S => e[2] \in S
    BY <1>2, <1>3
  <1>6. ASSUME NEW e \in more
        PROVE  \E T \in SUBSET N : /\ e[2] \in T /\ e[1] \notin T
                                   /\ \A d \in more : d[1] \in T => d[2] \in T
    <2>1. CASE e \notin sup
      BY <1>2, <1>3, <1>5, <1>6, <2>1
    <2>2. CASE e \in sup
      <3>1. ~Reaches(sup, e[2], e[1])
        BY <2>2 DEF Acyclic
      <3>2. PICK T \in SUBSET N : /\ e[2] \in T /\ e[1] \notin T
                                  /\ \A d \in sup : d[1] \in T => d[2] \in T
        BY <1>4, <1>6, <3>1, ReachesWithin
      <3>3. CASE e[1] \in S
        <4>1. e[2] \in S
          BY <1>2, <2>2, <3>3
        <4>2. \A d \in more : d[1] \in T \cap S => d[2] \in T \cap S
          BY <1>2, <1>3, <3>2
        <4>. QED
          BY <3>2, <4>1, <4>2
      <3>4. CASE e[1] \notin S
        <4>1. \A d \in more : d[1] \in T \cup S => d[2] \in T \cup S
          BY <1>2, <1>3, <3>2
        <4>. QED
          BY <3>2, <3>4, <4>1
      <3>. QED
        BY <3>3, <3>4
    <2>. QED
      BY <2>1, <2>2
  <1>7. ASSUME NEW e \in more
        PROVE  ~Reaches(more, e[2], e[1])
    BY <1>1, <1>4, <1>6, <1>7, ReachesWithin
  <1>8. Acyclic(more)
    BY <1>7 DEF Acyclic
  <1>. QED
    BY <1>8 DEF more

(* put writes Active rows and touches nothing else.                        *)
LEMMA PutActiveFacts ==
    ASSUME NEW N, NEW t \in Table(N), NEW ns \in SUBSET N
    PROVE  /\ PutActive(t, ns) \in Table(N)
           /\ PutActive(t, ns).sup = t.sup
           /\ \A n \in N : PutActive(t, ns).status[n] = IF n \in ns THEN "Active" ELSE t.status[n]
  BY DEF PutActive, Table, Status

(* apply_supersession keeps a table acyclic and forgets no row; the target *)
(* is retired or the answer was a refusal.                                 *)
LEMMA ApplyFacts ==
    ASSUME NEW N, NEW t \in Table(N), NEW from \in N, NEW to \in N, Acyclic(t.sup)
    PROVE  LET u == ApplySupersession(t, from, to)
           IN  /\ u \in Table(N) /\ Acyclic(u.sup)
               /\ t.sup \subseteq u.sup
               /\ \A n \in N : u.status[n] = "Absent" <=> t.status[n] = "Absent"
               /\ \A n \in N : u.status[n] = "Active" => t.status[n] = "Active"
               /\ u.status[to] # "Active" \/ from = to \/ t.status[from] = "Absent"
                    \/ Reaches(t.sup, to, from)
  <1> DEFINE u == ApplySupersession(t, from, to)
  <1>0. t.status \in [N -> Status] /\ t.sup \in SUBSET (N \X N)
    BY DEF Table
  <1>1. CASE /\ from # to
             /\ t.status[from] # "Absent" /\ t.status[to] # "Absent"
             /\ ~Reaches(t.sup, to, from)
    <2>1. u = [status |-> [t.status EXCEPT ![to] = "Superseded"],
               sup |-> t.sup \cup {<<from, to>>}]
      BY <1>1 DEF ApplySupersession
    <2>2. Acyclic(t.sup \cup {<<from, to>>})
      BY <1>0, <1>1, GuardedHop
    <2>3. u \in Table(N)
      BY <1>0, <2>1 DEF Table, Status
    <2> HIDE DEF u
    <2>4. u.sup = t.sup \cup {<<from, to>>} /\ u.status = [t.status EXCEPT ![to] = "Superseded"]
      BY <2>1
    <2>5. /\ \A n \in N : u.status[n] = "Absent" <=> t.status[n] = "Absent"
          /\ \A n \in N : u.status[n] = "Active" => t.status[n] = "Active"
          /\ u.status[to] # "Active"
      BY <1>0, <1>1, <2>4
    <2>. QED
      BY <2>2, <2>3, <2>4, <2>5 DEF u
  <1>2. CASE ~ (/\ from # to
                /\ t.status[from] # "Absent" /\ t.status[to] # "Absent"
                /\ ~Reaches(t.sup, to, from))
    <2>1. u = t
      BY <1>2 DEF ApplySupersession
    <2>. QED
      BY <1>2, <2>1
  <1>. QED
    BY <1>1, <1>2

-----------------------------------------------------------------------------
(* Calls and frames.                                                       *)

(* The kind of a call says what it carries.                                *)
LEMMA CallFacts ==
    ASSUME call \in Call
    PROVE  /\ call.op = "walk" => call \in WalkCall
           /\ call.op = "block" => call \in BlockCall
           /\ call.op = "catalog" => call \in CatalogCall
  BY DEF Call, NoCall, WalkCall, BlockCall, CatalogCall

(* Both tables are acyclic, apart.                                         *)
LEMMA AcyclicParts ==
    CorrectionsAcyclic <=> Acyclic(checkpoints.sup) /\ Acyclic(contracts.sup)
  BY DEF CorrectionsAcyclic, Acyclic

(* The same of the next state.                                             *)
LEMMA AcyclicPartsNext ==
    CorrectionsAcyclic' <=> Acyclic(checkpoints'.sup) /\ Acyclic(contracts'.sup)
  BY DEF CorrectionsAcyclic, Acyclic

(* A step that leaves the tables and the cursor alone.                     *)
LEMMA TablesKeep ==
    ASSUME ChainIInv, UNCHANGED <<tables, cursor>>, source' \in Histories,
           stamp' \in Catalog \cup {Unset}, call' \in Call, WalkInv'
    PROVE  ChainIInv'
  <1>1. UNCHANGED <<checkpoints, contracts, events, spine, emits, touches, cursor>>
    BY DEF tables
  <1>2. ChainTypeOK'
    BY <1>1 DEF ChainIInv, ChainTypeOK
  <1>3. CorrectionsAcyclic'
    BY <1>1 DEF ChainIInv, CorrectionsAcyclic
  <1>4. CursorHonest'
    BY <1>1 DEF ChainIInv, CursorHonest, Watched
  <1>. QED
    BY <1>2, <1>3, <1>4 DEF ChainIInv

(* A call that ends leaves nothing to know.                                *)
LEMMA CallEnds ==
    ASSUME call' = NoCall
    PROVE  call' \in Call /\ WalkInv'
  BY DEF Call, NoCall, WalkInv

(* A step that only writes contracts, in a catalog call.                   *)
LEMMA ContractsKeep ==
    ASSUME ChainIInv, UNCHANGED <<source, checkpoints, events, spine, emits, touches, cursor, stamp>>,
           contracts' \in Table(Contracts), Acyclic(contracts'.sup), call' \in CatalogCall
    PROVE  ChainIInv'
  <1>1. call' \in Call
    BY DEF Call
  <1>2. ChainTypeOK'
    BY <1>1 DEF ChainIInv, ChainTypeOK
  <1>3. CorrectionsAcyclic'
    BY AcyclicParts, AcyclicPartsNext DEF ChainIInv
  <1>4. CursorHonest'
    BY DEF ChainIInv, CursorHonest, Watched
  <1>5. WalkInv'
    BY DEF CatalogCall, WalkInv
  <1>. QED
    BY <1>2, <1>3, <1>4, <1>5 DEF ChainIInv

(* Nothing has been walked or read yet.                                    *)
LEMMA ChainInitOK == ChainInit => ChainIInv
  <1> SUFFICES ASSUME ChainInit PROVE ChainIInv
    OBVIOUS
  <1> USE DEF ChainInit
  <1>1. ChainTypeOK
    BY ChainWalkAssumption DEF ChainTypeOK, Table, Status, Call
  <1>2. CorrectionsAcyclic
    BY DEF CorrectionsAcyclic
  <1>3. CursorHonest
    BY DEF CursorHonest
  <1>4. WalkInv
    BY DEF WalkInv, NoCall
  <1>. QED
    BY <1>1, <1>2, <1>3, <1>4 DEF ChainIInv

-----------------------------------------------------------------------------
(* Steps.                                                                  *)

(* The catalog's nodes are put and its supersessions collected.            *)
LEMMA StartCatalogStep ==
    ASSUME ChainIInv, NEW cat \in Catalog, StartCatalog(cat)
    PROVE  ChainIInv'
  <1> DEFINE listed == {c \in Contracts : cat[c[1]] = c[2]}
             due == {p \in listed \X Contracts : p[2] \in Prior(p[1][1]) /\ p[2] # p[1]}
  <1>1. /\ contracts' = PutActive(contracts, listed)
        /\ call' = [op |-> "catalog", cat |-> cat, todo |-> due]
        /\ UNCHANGED <<source, checkpoints, events, spine, emits, touches, cursor, stamp>>
    BY DEF StartCatalog
  <1>2. listed \in SUBSET Contracts /\ due \in SUBSET (Contracts \X Contracts)
    OBVIOUS
  <1> HIDE DEF listed, due
  <1>3. contracts \in Table(Contracts) /\ Acyclic(contracts.sup)
    BY AcyclicParts DEF ChainIInv, ChainTypeOK
  <1>4. contracts' \in Table(Contracts) /\ Acyclic(contracts'.sup)
    BY <1>1, <1>2, <1>3, PutActiveFacts
  <1>5. call' \in CatalogCall
    BY <1>1, <1>2 DEF CatalogCall
  <1>. QED
    BY <1>1, <1>4, <1>5, ContractsKeep

(* One supersession of the catalog.                                        *)
LEMMA CatalogSupersedeStep ==
    ASSUME ChainIInv, NEW p \in Contracts \X Contracts, CatalogSupersede(p)
    PROVE  ChainIInv'
  <1>1. /\ call.op = "catalog"
        /\ contracts' = ApplySupersession(contracts, p[1], p[2])
        /\ call' = [call EXCEPT !.todo = @ \ {p}]
        /\ UNCHANGED <<source, checkpoints, events, spine, emits, touches, cursor, stamp>>
    BY DEF CatalogSupersede
  <1>2. contracts \in Table(Contracts) /\ Acyclic(contracts.sup)
    BY AcyclicParts DEF ChainIInv, ChainTypeOK
  <1>3. p[1] \in Contracts /\ p[2] \in Contracts
    OBVIOUS
  <1>4. contracts' \in Table(Contracts) /\ Acyclic(contracts'.sup)
    BY <1>1, <1>2, <1>3, ApplyFacts
  <1>5. call \in CatalogCall
    BY <1>1, CallFacts DEF ChainIInv, ChainTypeOK
  <1>6. call' \in CatalogCall
    BY <1>1, <1>5 DEF CatalogCall
  <1>. QED
    BY <1>1, <1>4, <1>6, ContractsKeep

(* A walk begins: it has read every Active checkpoint.                     *)
LEMMA StartWalkStep ==
    ASSUME ChainIInv, NEW from \in (0 .. MaxHeight - 1) \cup {cursor}, NEW to \in 0 .. MaxHeight - 1,
           StartWalk(from, to)
    PROVE  ChainIInv'
  <1>1. /\ call' = [op |-> "walk", n |-> from, to |-> to, known |-> ActiveNodes(checkpoints),
                    live |-> ActiveNodes(contracts), prev |-> <<>>]
        /\ UNCHANGED <<source, tables, cursor, stamp>>
    BY DEF StartWalk
  <1>2. ActiveNodes(checkpoints) \in SUBSET Blocks /\ ActiveNodes(contracts) \in SUBSET Contracts
    BY DEF ChainIInv, ChainTypeOK, Table, ActiveNodes
  <1>3. from \in 0 .. MaxHeight /\ to \in 0 .. MaxHeight
    BY ChainWalkAssumption DEF ChainIInv, ChainTypeOK
  <1>4. call' \in WalkCall /\ call'.op = "walk" /\ call'.known = ActiveNodes(checkpoints)
    BY <1>1, <1>2, <1>3 DEF WalkCall
  <1>5. checkpoints' = checkpoints
    BY <1>1 DEF tables
  <1>6. WalkInv'
    BY <1>4, <1>5 DEF WalkInv
  <1>7. call' \in Call /\ source' \in Histories /\ stamp' \in Catalog \cup {Unset}
    BY <1>1, <1>4 DEF Call, ChainIInv, ChainTypeOK
  <1>. QED
    BY <1>1, <1>6, <1>7, TablesKeep

(* What is stored stays stored while rows are only added or retired.       *)
LEMMA StoredKeep ==
    ASSUME NEW b, Stored(checkpoints, emits, b), checkpoints'.status[b] # "Absent",
           emits \subseteq emits'
    PROVE  Stored(checkpoints', emits', b)
  BY DEF Stored

(* The cursor stays honest with them.                                      *)
LEMMA CursorKeep ==
    ASSUME CursorHonest, cursor' = cursor, emits \subseteq emits',
           \A b \in Blocks : checkpoints.status[b] # "Absent" => checkpoints'.status[b] # "Absent"
    PROVE  CursorHonest'
  BY DEF CursorHonest

(* A block's batch is committed before anything is retired.                *)
LEMMA WalkBlockStep ==
    ASSUME ChainIInv, WalkBlock
    PROVE  ChainIInv'
  <1> DEFINE b == BlockAt(call.n)
             evs == Watched(b) \X {Height(b)}
             touched == {t \in evs \X Contracts : \E a \in Parties[t[1][1]] : t[2] \in ContractAt(a)}
             rivals == Orphans(call.known, b)
  <1>1. /\ call.op = "walk" /\ call.n < Len(source)
        /\ checkpoints' = PutActive(checkpoints, {b})
        /\ events' = events \cup evs
        /\ spine' = IF call.prev # <<>> /\ call.prev = SubSeq(b, 1, Len(b) - 1)
                    THEN spine \cup {<<b, call.prev>>} ELSE spine
        /\ emits' = emits \cup ({b} \X evs)
        /\ touches' = touches \cup touched
        /\ call' = [op |-> "block", n |-> call.n, to |-> call.to, known |-> call.known,
                    live |-> call.live, block |-> b, todo |-> rivals]
        /\ UNCHANGED <<source, contracts, cursor, stamp>>
    BY DEF WalkBlock
  <1>2. call \in WalkCall
    BY <1>1, CallFacts DEF ChainIInv, ChainTypeOK
  <1>3. call.n \in Nat
    BY <1>2, ChainWalkAssumption DEF WalkCall
  <1>4. b \in Blocks /\ Len(b) = call.n + 1
    BY <1>1, <1>3, BlockAtFacts DEF ChainIInv, ChainTypeOK
  <1> HIDE DEF b
  <1>5. Height(b) \in 0 .. MaxHeight
    BY <1>4, BlockFacts
  <1>6. evs \in SUBSET Event
    BY <1>5 DEF Event, Watched
  <1>7. \A tx \in Watched(b) : <<tx, Height(b)>> \in evs
    OBVIOUS
  <1> HIDE DEF evs
  <1>8. touched \in SUBSET (Event \X Contracts)
    BY <1>6
  <1>9. rivals = {o \in call.known : Height(o) = Height(b) /\ o # b} /\ rivals \in SUBSET Blocks
    BY <1>2 DEF Orphans, WalkCall
  <1> HIDE DEF touched, rivals
  <1>10. /\ checkpoints \in Table(Blocks) /\ checkpoints' \in Table(Blocks)
         /\ checkpoints'.sup = checkpoints.sup
         /\ \A o \in Blocks : checkpoints'.status[o] = IF o = b THEN "Active" ELSE checkpoints.status[o]
    <2>1. checkpoints \in Table(Blocks)
      BY DEF ChainIInv, ChainTypeOK
    <2>2. {b} \in SUBSET Blocks
      BY <1>4
    <2>. QED
      BY <1>1, <2>1, <2>2, PutActiveFacts
  <1>11. /\ call' \in BlockCall /\ call'.op = "block" /\ call'.block = b /\ call'.n = call.n
         /\ call'.known = call.known /\ call'.todo = rivals
    BY <1>1, <1>2, <1>4, <1>9 DEF WalkCall, BlockCall
  <1>12. ChainTypeOK'
    <2>1. events' \subseteq Event /\ emits' \subseteq Blocks \X Event
      BY <1>1, <1>4, <1>6 DEF ChainIInv, ChainTypeOK
    <2>2. touches' \subseteq Event \X Contracts
      BY <1>1, <1>8 DEF ChainIInv, ChainTypeOK
    <2>3. spine' \subseteq Blocks \X Blocks
      <3>1. call.prev # <<>> => call.prev \in Blocks
        BY <1>2 DEF WalkCall
      <3>. QED
        BY <1>1, <1>4, <3>1 DEF ChainIInv, ChainTypeOK
    <2>4. call' \in Call
      BY <1>11 DEF Call
    <2>. QED
      BY <1>1, <1>10, <2>1, <2>2, <2>3, <2>4 DEF ChainIInv, ChainTypeOK
  <1>13. CorrectionsAcyclic'
    BY <1>1, <1>10, AcyclicParts, AcyclicPartsNext DEF ChainIInv
  <1>14. CursorHonest'
    <2>1. \A o \in Blocks : checkpoints.status[o] # "Absent" => checkpoints'.status[o] # "Absent"
      BY <1>10
    <2>. QED
      BY <1>1, <2>1, CursorKeep DEF ChainIInv
  <1>15. WalkInv'
    <2>1. ActiveNodes(checkpoints) \subseteq call.known
      BY <1>1 DEF ChainIInv, WalkInv
    <2>2. \A o \in Blocks : checkpoints.status[o] = "Active" => o \in call.known
      BY <1>10, <2>1 DEF ActiveNodes, Table
    <2>3. \A o \in ActiveNodes(checkpoints') : o \in Blocks /\ checkpoints'.status[o] = "Active"
      BY <1>10 DEF ActiveNodes, Table
    <2>4. ActiveNodes(checkpoints') \subseteq call.known \cup {b}
      BY <1>10, <2>2, <2>3
    <2>5. Stored(checkpoints', emits', b)
      <3>1. checkpoints'.status[b] # "Absent"
        BY <1>4, <1>10
      <3>2. \A tx \in Watched(b) : <<b, <<tx, Height(b)>>>> \in emits'
        BY <1>1, <1>7
      <3>. QED
        BY <3>1, <3>2 DEF Stored
    <2>6. \A o \in Blocks : o # b /\ Height(o) = Height(b) /\ checkpoints'.status[o] = "Active"
                                => o \in rivals
      BY <1>9, <1>10, <2>2
    <2>7. b \notin rivals
      BY <1>9
    <2>. QED
      BY <1>4, <1>11, <2>4, <2>5, <2>6, <2>7 DEF WalkInv, Stored
  <1>. QED
    BY <1>12, <1>13, <1>14, <1>15 DEF ChainIInv

(* One orphan: it is retired, or the block corrects it already.            *)
LEMMA WalkSupersedeStep ==
    ASSUME ChainIInv, NEW o \in Blocks, WalkSupersede(o)
    PROVE  ChainIInv'
  <1> DEFINE b == call.block
  <1>1. /\ call.op = "block" /\ o \in call.todo
        /\ checkpoints' = ApplySupersession(checkpoints, b, o)
        /\ call' = [call EXCEPT !.todo = @ \ {o}]
        /\ UNCHANGED <<source, contracts, events, spine, emits, touches, cursor, stamp>>
    BY DEF WalkSupersede
  <1>2. call \in BlockCall
    BY <1>1, CallFacts DEF ChainIInv, ChainTypeOK
  <1>3. b \in Blocks
    BY <1>2 DEF BlockCall
  <1>4. /\ ActiveNodes(checkpoints) \subseteq call.known \cup {b}
        /\ Len(b) = call.n + 1
        /\ Stored(checkpoints, emits, b)
        /\ b \notin call.todo
        /\ \A x \in Blocks : x # b /\ Height(x) = Height(b) /\ checkpoints.status[x] = "Active"
                => x \in call.todo \/ Reaches(checkpoints.sup, x, b)
    BY <1>1 DEF ChainIInv, WalkInv
  <1>5. /\ call' \in BlockCall /\ call'.op = "block" /\ call'.block = b /\ call'.n = call.n
        /\ call'.known = call.known /\ call'.todo = call.todo \ {o}
    BY <1>1, <1>2 DEF BlockCall
  <1> HIDE DEF b
  <1>6. checkpoints \in Table(Blocks) /\ Acyclic(checkpoints.sup)
    BY AcyclicParts DEF ChainIInv, ChainTypeOK
  <1>7. /\ checkpoints' \in Table(Blocks) /\ Acyclic(checkpoints'.sup)
        /\ checkpoints.sup \subseteq checkpoints'.sup
        /\ \A x \in Blocks : checkpoints'.status[x] = "Absent" <=> checkpoints.status[x] = "Absent"
        /\ \A x \in Blocks : checkpoints'.status[x] = "Active" => checkpoints.status[x] = "Active"
        /\ checkpoints'.status[o] # "Active" \/ b = o \/ checkpoints.status[b] = "Absent"
             \/ Reaches(checkpoints.sup, o, b)
    <2> DEFINE u == ApplySupersession(checkpoints, b, o)
    <2>1. /\ u \in Table(Blocks) /\ Acyclic(u.sup)
          /\ checkpoints.sup \subseteq u.sup
          /\ \A x \in Blocks : u.status[x] = "Absent" <=> checkpoints.status[x] = "Absent"
          /\ \A x \in Blocks : u.status[x] = "Active" => checkpoints.status[x] = "Active"
          /\ u.status[o] # "Active" \/ b = o \/ checkpoints.status[b] = "Absent"
               \/ Reaches(checkpoints.sup, o, b)
      BY <1>3, <1>6, ApplyFacts
    <2>2. checkpoints' = u
      BY <1>1
    <2> HIDE DEF u
    <2>. QED
      BY <2>1, <2>2
  <1>8. ChainTypeOK'
    <2>1. call' \in Call
      BY <1>5 DEF Call
    <2>. QED
      BY <1>1, <1>7, <2>1 DEF ChainIInv, ChainTypeOK
  <1>9. CorrectionsAcyclic'
    BY <1>1, <1>7, AcyclicParts, AcyclicPartsNext DEF ChainIInv
  <1>10. CursorHonest'
    BY <1>1, <1>7, CursorKeep DEF ChainIInv
  <1>11. WalkInv'
    <2>1. ActiveNodes(checkpoints') \subseteq ActiveNodes(checkpoints)
      BY <1>6, <1>7 DEF ActiveNodes, Table
    <2>2. Stored(checkpoints', emits', b)
      BY <1>1, <1>3, <1>4, <1>7, StoredKeep DEF Stored
    <2>3. ASSUME NEW x \in Blocks, x # b, Height(x) = Height(b), checkpoints'.status[x] = "Active"
          PROVE  x \in call.todo \ {o} \/ Reaches(checkpoints'.sup, x, b)
      <3>1. x \in call.todo \/ Reaches(checkpoints.sup, x, b)
        BY <1>4, <1>7, <2>3
      <3>2. x = o => Reaches(checkpoints.sup, x, b)
        BY <1>1, <1>4, <1>7, <2>3 DEF Stored
      <3>3. checkpoints.sup \in SUBSET (Blocks \X Blocks) /\ checkpoints'.sup \in SUBSET (Blocks \X Blocks)
        BY <1>6, <1>7 DEF Table
      <3>4. Reaches(checkpoints.sup, x, b) => Reaches(checkpoints'.sup, x, b)
        BY <1>3, <1>7, <3>3, ReachesGrows
      <3>. QED
        BY <3>1, <3>2, <3>4
    <2>. QED
      BY <1>4, <1>5, <2>1, <2>2, <2>3 DEF WalkInv
  <1>. QED
    BY <1>8, <1>9, <1>10, <1>11 DEF ChainIInv

(* The cursor moves past a block that is stored.                           *)
LEMMA WalkCursorStep ==
    ASSUME ChainIInv, WalkCursor
    PROVE  ChainIInv'
  <1> DEFINE b == call.block
  <1>1. /\ call.op = "block"
        /\ cursor' = Height(b) + 1
        /\ call' = [op |-> "walk", n |-> call.n + 1, to |-> call.to,
                    known |-> call.known \cup {b}, live |-> call.live, prev |-> b]
        /\ UNCHANGED <<source, checkpoints, contracts, events, spine, emits, touches, stamp>>
    BY DEF WalkCursor, tables
  <1>2. call \in BlockCall
    BY <1>1, CallFacts DEF ChainIInv, ChainTypeOK
  <1>3. b \in Blocks
    BY <1>2 DEF BlockCall
  <1>4. ActiveNodes(checkpoints) \subseteq call.known \cup {b} /\ Len(b) = call.n + 1 /\ Stored(checkpoints, emits, b)
    BY <1>1 DEF ChainIInv, WalkInv
  <1> HIDE DEF b
  <1>5. Len(b) \in 1 .. MaxHeight /\ Height(b) + 1 = Len(b) /\ Height(b) \in Nat
    BY <1>3, BlockFacts, ChainWalkAssumption DEF Height
  <1>6. cursor' \in 0 .. MaxHeight /\ call.n + 1 \in 0 .. MaxHeight
    BY <1>1, <1>4, <1>5, ChainWalkAssumption
  <1>7. call' \in WalkCall /\ call'.op = "walk" /\ call'.known = call.known \cup {b}
    BY <1>1, <1>2, <1>3, <1>6 DEF WalkCall, BlockCall
  <1>8. ChainTypeOK'
    <2>1. call' \in Call
      BY <1>7 DEF Call
    <2>. QED
      BY <1>1, <1>6, <2>1 DEF ChainIInv, ChainTypeOK
  <1>9. CorrectionsAcyclic'
    BY <1>1 DEF ChainIInv, CorrectionsAcyclic
  <1>10. CursorHonest'
    <2>1. Height(b) = cursor' - 1
      BY <1>1, <1>5
    <2>2. checkpoints'.status[b] # "Absent"
          /\ \A tx \in Watched(b) : <<b, <<tx, Height(b)>>>> \in emits'
      BY <1>1, <1>4 DEF Stored
    <2>. QED
      BY <1>3, <2>1, <2>2 DEF CursorHonest
  <1>11. WalkInv'
    BY <1>1, <1>4, <1>7 DEF WalkInv
  <1>. QED
    BY <1>8, <1>9, <1>10, <1>11 DEF ChainIInv

(* Every step keeps the invariant.                                         *)
LEMMA ChainStepOK == ChainIInv /\ [ChainNext]_chainVars => ChainIInv'
  <1> SUFFICES ASSUME ChainIInv, [ChainNext]_chainVars PROVE ChainIInv'
    OBVIOUS
  <1>0. source \in Histories /\ stamp \in Catalog \cup {Unset} /\ call \in Call /\ WalkInv
    BY DEF ChainIInv, ChainTypeOK
  <1>1. ASSUME NEW h \in Histories, SourceMoves(h)
        PROVE  ChainIInv'
    <2>1. source' = h /\ UNCHANGED <<tables, cursor, stamp, call>>
      BY <1>1 DEF SourceMoves
    <2>2. WalkInv'
      BY <1>0, <2>1 DEF WalkInv, Stored, Watched, tables
    <2>. QED
      BY <1>0, <2>1, <2>2, TablesKeep
  <1>2. CASE CatalogStamp
    <2>1. call.op = "catalog" /\ stamp' = call.cat /\ call' = NoCall
          /\ UNCHANGED <<source, tables, cursor>>
      BY <1>2 DEF CatalogStamp
    <2>2. stamp' \in Catalog
      BY <1>0, <2>1, CallFacts DEF CatalogCall
    <2>. QED
      BY <1>0, <2>1, <2>2, CallEnds, TablesKeep
  <1>3. CASE WalkEnd \/ CallDies
    <2>1. call' = NoCall /\ UNCHANGED <<source, tables, cursor, stamp>>
      BY <1>3 DEF WalkEnd, CallDies
    <2>. QED
      BY <1>0, <2>1, CallEnds, TablesKeep
  <1>4. CASE UNCHANGED chainVars
    <2>1. UNCHANGED <<source, tables, cursor, stamp, call>>
      BY <1>4 DEF chainVars
    <2>2. WalkInv'
      BY <1>0, <2>1 DEF WalkInv, Stored, Watched, tables
    <2>. QED
      BY <1>0, <2>1, <2>2, TablesKeep
  <1>. QED
    BY <1>1, <1>2, <1>3, <1>4, StartCatalogStep, CatalogSupersedeStep, StartWalkStep,
       WalkBlockStep, WalkSupersedeStep, WalkCursorStep DEF ChainNext

-----------------------------------------------------------------------------
(* The theorems.                                                           *)

(* The inductive invariant of chain-state ingest: what a call has read and *)
(* written stays in step with the tables, whenever it dies.                *)
THEOREM ChainIInvHolds == ChainSpec => []ChainIInv
  BY ChainInitOK, ChainStepOK, PTL DEF ChainSpec

(* Corrections stay acyclic although re-orgs and catalogs go back and      *)
(* forth, and the cursor passes no height at which no block was committed. *)
THEOREM ChainInvHolds == ChainSpec => []ChainInv
  <1>1. ChainIInv => ChainInv
    BY DEF ChainIInv, ChainInv
  <1>. QED
    BY <1>1, ChainIInvHolds, PTL

(* Before the cursor passes a block, its rivals are retired, whatever the  *)
(* walks before left behind, or the block corrects them already.           *)
THEOREM OrphansRetiredHolds == ChainSpec => []OrphansRetired
  <1>1. ChainIInv => OrphansRetired
    BY DEF ChainIInv, WalkInv, OrphansRetired
  <1>. QED
    BY <1>1, ChainIInvHolds, PTL
=============================================================================
