-------------------------- MODULE ReadCachesProofs --------------------------
(***************************************************************************)
(* Proofs about ReadCaches, for every repository, every set of claims and  *)
(* readers and every bound: what is kept for later requests stays typed    *)
(* and covers what /assert answered, a request reports only what was       *)
(* canonical while it ran, and a search misses nothing that stayed         *)
(* searchable, with the exceptions the two properties name.                *)
(***************************************************************************)
EXTENDS ReadCaches, FiniteSetTheorems, TLAPS

-----------------------------------------------------------------------------
(* The inductive invariant.                                                *)

(* The store at one instant, with the history of its writes.               *)
View ==
    [stored |-> Stored, embedded |-> Embedded, contains |-> contains, spine |-> spine,
     marks |-> marks, count |-> NodeCount, labelled |-> Labelled, merged |-> Merged,
     canonical |-> Canonical, searchable |-> Searchable,
     unkeyed |-> unkeyed, relabelled |-> relabelled]

Scanned == {"head", "spine", "contains"}
Active(u) == u.pc \notin {"idle", "answered"}

(* What a scan will report whatever is written, and what it may add when   *)
(* it has read the head or the spine.                                      *)
Partial(s, u) ==
    {i \in Ids :
        \/ /\ u.pc \in Scanned
           /\ i \in u.all /\ RepoOf[i] = u.repo
           /\ \/ \A t \in u.branches : i \notin s.contains[t]
              \/ u.pc = "spine" /\ \E h \in u.reach : i \in Ancestors(h)
              \/ u.pc = "contains" /\ i \in u.reach
        \/ u.pc = "insert" /\ i \in u.hits}

(* What a scan will not miss as long as it stays searchable.               *)
Covered(s, u) ==
    {i \in Ids :
        \/ /\ u.pc \in Scanned
           /\ i \in u.all /\ i \in u.embedded /\ RepoOf[i] = u.repo
           /\ \/ i \notin s.labelled
              \/ u.pc = "head" /\ s.marks[Tenant].head \in u.all
              \/ u.pc = "spine" /\ \E h \in u.reach : i \in Reachable(u.all, h, s.spine)
              \/ u.pc = "contains" /\ i \in u.reach
        \/ u.pc \in {"insert", "resolve"} /\ i \in u.hits
        \/ u.pc \in {"mark", "answered"} /\ i \in u.items}

(* With what an unread head may make it miss, of a request or of an index  *)
(* that is kept.                                                           *)
Excused(s, u) == IF "head" \in u.blind THEN s.labelled ELSE {}
Holds(s, u) == Covered(s, u) \cup Excused(s, u)
IndexHolds(s, e) == e.index \cup Excused(s, e)

(* Whether the key was read.                                               *)
Keyed(u) == "key" \notin u.blind

(* A watermark that was read is the tenant's or older.                     *)
Older(s, r, m) == m.at <= s.marks[r].at /\ (m.at = s.marks[r].at => m = s.marks[r])

(* One request: what it holds against what it has lived through.           *)
ReaderOK(s, u) ==
    /\ u.pc \in {"count", "lock", "insert", "resolve"} => u.kind = "search"
    /\ u.pc \in {"lookup", "store"} => u.kind = "layout"
    /\ u.pc \in Scanned => u.kind # "layout"
    /\ u.pc = "mark" => u.kind \in {"in_flight", "storyline"}
    /\ u.pc \in Scanned \cup {"store"} => u.all \subseteq s.stored
    /\ Active(u) => /\ Of(u.repo, s.canonical) \subseteq u.seen
                    /\ u.steady \subseteq Of(u.repo, s.searchable)
    /\ Partial(s, u) \subseteq u.seen
    /\ u.pc = "resolve" /\ Keyed(u) => u.hits \subseteq u.seen \cup s.relabelled
    /\ u.pc = "mark" => u.items \subseteq u.seen
    /\ u.pc = "answered" /\ u.kind # "layout" /\ Keyed(u) =>
          u.items \subseteq u.seen \cup (IF u.kind = "search" THEN s.relabelled ELSE {})
    /\ u.pc \in Scanned \cup {"insert", "resolve", "mark", "answered"}
       /\ u.kind \in {"search", "in_flight"} /\ Keyed(u) => u.steady \subseteq Holds(s, u)
    /\ Active(u) /\ u.kind = "search" /\ u.pc # "resolve" /\ Keyed(u) => Older(s, u.repo, u.mark)
    /\ Active(u) /\ u.kind = "search" /\ u.pc \notin {"resolve", "count"} => u.count <= s.count
    /\ u.pc = "store" => /\ s.stored \cap Claims \subseteq u.all \cup u.late
                         /\ \A t \in u.branches : s.contains[t] # {}
    /\ u.late \subseteq Claims

(* A request that may still be given an index with this key.               *)
Waits(s, u, r, m, c) ==
    /\ u.repo = r /\ u.mark = m /\ Keyed(u)
    /\ \/ u.pc = "count" /\ c = s.count
       \/ u.pc = "lock" /\ c = u.count

(* An index under a key, or one that is built for it: has is what it may   *)
(* hold, holds what it will not miss.                                      *)
Source(s, all, r, m, c, has, holds) ==
    /\ Older(s, r, m) /\ c <= s.count
    /\ has \subseteq Of(r, Ids)
    /\ m = s.marks[r] /\ c = s.count =>
          /\ has \subseteq s.canonical \cup s.relabelled
          /\ Of(r, s.searchable) \ s.unkeyed \subseteq holds
    /\ \A p \in Readers : Waits(s, all[p], r, m, c) =>
          /\ has \subseteq all[p].seen \cup s.relabelled
          /\ all[p].steady \subseteq holds

Building(u) == u.kind = "search" /\ u.pc \in Scanned \cup {"insert"} /\ Keyed(u)

(* The tables: spine edges lead to parents, and no branch is ingested      *)
(* before the default branch.                                              *)
StoreOK ==
    /\ \A e \in spine : e[2] \in ParentsOf[e[1]]
    /\ \A c \in Commits : rows[c] # "plain"
    /\ marks[Tenant].head = NoCommit => \A t \in Tips : contains[t] = {}
    /\ acked \cup pending \subseteq Stored

(* Without a rewrite no label changes under an old key, since a Branch     *)
(* node contains whatever of its tip is not merged.                        *)
HistoryOK ==
    /\ unkeyed \subseteq Claims \cup (IF rewritten THEN Labelled ELSE {})
    /\ ~rewritten =>
         /\ relabelled = {}
         /\ \A t \in Tips : contains[t] # {} => Ancestors(t) \ Merged \subseteq contains[t]
         /\ ingesting # NoCommit /\ marks[Tenant].head # NoCommit
               => marks[Tenant].head \in Ancestors(ingesting)

(* The scene was chosen from rows that are stored, all answered claims but *)
(* the missed ones among them.                                             *)
SceneFrom(kept, stored, branches, answered, late) ==
    /\ kept.scan \subseteq stored
    /\ \E B \in SUBSET branches : kept.items = Chosen(kept.scan, B)
    /\ answered \subseteq kept.scan \cup late

SceneOK ==
    \A kept \in scene : SceneFrom(kept, Stored, BranchNodes, acked \ pending, missed)

ReadersOK == \A p \in Readers : ReaderOK(View, rd[p])

(* Every index that is kept or being built under a key that was read is    *)
(* right for it.                                                           *)
SourcesOK ==
    /\ \A q \in Readers : Building(rd[q]) =>
          Source(View, rd, rd[q].repo, rd[q].mark, rd[q].count,
                 Partial(View, rd[q]), Holds(View, rd[q]))
    /\ \A r \in Repos : \A e \in cache[r] : Keyed(e) =>
          Source(View, rd, r, e.mark, e.count, e.index, IndexHolds(View, e))

RecallIInv ==
    RecallTypeOK /\ StoreOK /\ HistoryOK /\ SceneOK /\ ReadersOK /\ SourcesOK

-----------------------------------------------------------------------------
(* Ancestors and the spine.                                                *)

(* Ancestors(c) is the least set that holds c and is closed under parents. *)
LEMMA AncestorsLeast ==
    ASSUME NEW c \in Commits
    PROVE  /\ Ancestors(c) \subseteq Commits
           /\ c \in Ancestors(c)
           /\ \A a \in Ancestors(c) : ParentsOf[a] \subseteq Ancestors(c)
           /\ \A S \in SUBSET Commits :
                 c \in S /\ (\A x \in S : ParentsOf[x] \subseteq S) => Ancestors(c) \subseteq S
<1>1. Ancestors(c) \subseteq Commits
  BY DEF Ancestors
<1>2. c \in Ancestors(c)
  BY DEF Ancestors
<1>3. ASSUME NEW a \in Ancestors(c), NEW b \in ParentsOf[a]
      PROVE  b \in Ancestors(c)
  <2>1. a \in Commits /\ b \in Commits
    BY <1>1, <1>3, ReadCachesAssumption
  <2>2. SUFFICES ASSUME NEW S \in SUBSET Commits, c \in S,
                        \A x \in S : ParentsOf[x] \subseteq S
                 PROVE  b \in S
    BY <2>1 DEF Ancestors
  <2>3. a \in S
    BY <1>3, <2>2 DEF Ancestors
  <2> QED
    BY <1>3, <2>2, <2>3
<1>4. ASSUME NEW S \in SUBSET Commits, c \in S, \A x \in S : ParentsOf[x] \subseteq S
      PROVE  Ancestors(c) \subseteq S
  BY <1>4 DEF Ancestors
<1> QED
  BY <1>1, <1>2, <1>3, <1>4

(* An ancestor's ancestors are ancestors.                                  *)
LEMMA AncestorsTransitive ==
    ASSUME NEW c \in Commits, NEW a \in Ancestors(c)
    PROVE  Ancestors(a) \subseteq Ancestors(c)
<1>1. Ancestors(c) \in SUBSET Commits /\ a \in Commits
  BY AncestorsLeast
<1>2. \A x \in Ancestors(c) : ParentsOf[x] \subseteq Ancestors(c)
  BY AncestorsLeast
<1> QED
  BY <1>1, <1>2, AncestorsLeast

(* What the spine reaches are ancestors.                                   *)
LEMMA ReachableIsAncestor ==
    ASSUME NEW all, NEW h \in Commits, NEW edges \in SUBSET (Commits \X Commits),
           \A e \in edges : e[2] \in ParentsOf[e[1]]
    PROVE  Reachable(all, h, edges) \subseteq Ancestors(h)
<1>1. Ancestors(h) \in SUBSET Commits /\ h \in Ancestors(h)
  BY AncestorsLeast
<1>2. \A e \in edges : e[1] \in Ancestors(h) => e[2] \in Ancestors(h)
  BY AncestorsLeast
<1> QED
  BY <1>1, <1>2 DEF Reachable

(* More edges reach more, and only the head need be in the scan.           *)
LEMMA ReachableGrows ==
    ASSUME NEW all, NEW more, NEW h, h \in all => h \in more, NEW edges, NEW added,
           edges \subseteq added
    PROVE  Reachable(all, h, edges) \subseteq Reachable(more, h, added)
BY DEF Reachable

(* A head in both scans reaches the same.                                  *)
LEMMA ReachableAnyScan ==
    ASSUME NEW all, NEW more, NEW h, h \in all, h \in more, NEW edges
    PROVE  Reachable(all, h, edges) = Reachable(more, h, edges)
BY DEF Reachable

(* Edges that start outside the history of the head change nothing.        *)
LEMMA ReachableFrame ==
    ASSUME NEW all, NEW more, NEW h \in Commits, h \in all, 
           NEW edges \in SUBSET (Commits \X Commits), NEW added,
           \A e \in edges : e[2] \in ParentsOf[e[1]],
           \A e \in added : e \in edges \/ e[1] \notin Ancestors(h)
    PROVE  Reachable(more, h, added) \subseteq Reachable(all, h, edges)
<1> DEFINE R == Reachable(all, h, edges)
<1>1. R \subseteq Ancestors(h)
  BY ReachableIsAncestor
<1>2. R \in SUBSET Commits /\ h \in R
  BY DEF Reachable
<1>3. \A e \in edges : e[1] \in R => e[2] \in R
  <2> SUFFICES ASSUME NEW e \in edges, e[1] \in R
               PROVE  e[2] \in R
    OBVIOUS
  <2>1. e[2] \in Commits
    OBVIOUS
  <2>2. ASSUME NEW S \in SUBSET Commits, h \in S,
               \A d \in edges : d[1] \in S => d[2] \in S
        PROVE  e[2] \in S
    BY <2>2 DEF Reachable
  <2> QED
    BY <2>1, <2>2 DEF Reachable
<1>4. \A e \in added : e[1] \in R => e[2] \in R
  BY <1>1, <1>3
<1> HIDE DEF R
<1>5. Reachable(more, h, added) \subseteq R
  BY <1>2, <1>4 DEF Reachable
<1> QED
  BY <1>5 DEF R

-----------------------------------------------------------------------------
(* A write, as the requests and the kept indexes see it.                   *)

SameKey(s, t, r) == t.marks[r] = s.marks[r] /\ t.count = s.count

(* What every write of the store does to a view of it.                     *)
Grows(s, t, written) ==
    /\ s.marks \in [Repos -> Watermark] /\ t.marks \in [Repos -> Watermark]
    /\ s.count \in Nat /\ t.count \in Nat /\ s.count <= t.count
    /\ s.stored \subseteq t.stored /\ t.stored \cap Claims \subseteq s.stored \cup written
    /\ written \subseteq Claims
    /\ \A b \in Tips : s.contains[b] \subseteq t.contains[b]
    /\ s.spine \subseteq t.spine
    /\ \A r \in Repos : t.marks[r] = s.marks[r] \/ t.marks[r].at > s.marks[r].at
    /\ \A r \in Repos : r = Tenant \/ t.marks[r] = s.marks[r]
    /\ t.labelled \subseteq Commits /\ s.labelled \subseteq t.labelled
    /\ t.searchable \subseteq Ids
    /\ \A i \in t.searchable : i \in t.labelled => i \in s.labelled
    /\ t.unkeyed = {i \in t.searchable : /\ SameKey(s, t, RepoOf[i])
                                         /\ i \in s.unkeyed \/ i \notin s.searchable}
    /\ t.relabelled = s.relabelled \cup
          {i \in s.canonical \ t.canonical : SameKey(s, t, RepoOf[i])}

(* What a write does to a request: nothing but its history.                *)
Carried(s, t, u, v, written) ==
    /\ v.pc = u.pc /\ v.kind = u.kind /\ v.repo = u.repo /\ v.mark = u.mark
    /\ v.count = u.count /\ v.all = u.all /\ v.embedded = u.embedded
    /\ v.branches = u.branches /\ v.reach = u.reach /\ v.hits = u.hits /\ v.items = u.items
    /\ v.blind = u.blind
    /\ ~Active(u) => v.seen = u.seen /\ v.steady = u.steady /\ v.late = u.late
    /\ Active(u) => /\ v.seen = u.seen \cup Of(u.repo, t.canonical)
                    /\ v.steady = (u.steady \cap t.searchable) \
                                  (IF t.marks = s.marks THEN {} ELSE t.labelled)
                    /\ v.late = u.late \cup written

(* A write takes nothing into what a scan reports.                         *)
LEMMA PartialShrinks ==
    ASSUME NEW s, NEW t, NEW u \in Reader, NEW v, NEW w, Grows(s, t, w), Carried(s, t, u, v, w)
    PROVE  Partial(t, v) \subseteq Partial(s, u)
<1>1. u.branches \subseteq Tips
  BY DEF Reader
<1> QED
  BY <1>1 DEF Partial, Grows, Carried

(* A scan keeps what stays searchable, but for the commits of a branch     *)
(* when the watermark moves.                                               *)
LEMMA CoveredKept ==
    ASSUME NEW s, NEW t, NEW u \in Reader, NEW v, NEW w, Grows(s, t, w), Carried(s, t, u, v, w),
           NEW i \in Covered(s, u), i \in t.searchable, t.marks = s.marks \/ i \notin t.labelled
    PROVE  i \in Covered(t, v)
<1>1. i \in t.labelled => i \in s.labelled
  BY DEF Grows
<1>2. \A h : Reachable(u.all, h, s.spine) \subseteq Reachable(u.all, h, t.spine)
  BY ReachableGrows DEF Grows
<1>3. i \in Ids
  BY DEF Covered
<1>4. CASE u.pc \in Scanned
  <2>1. /\ i \in u.all /\ i \in u.embedded /\ RepoOf[i] = u.repo
        /\ \/ i \notin s.labelled
           \/ u.pc = "head" /\ s.marks[Tenant].head \in u.all
           \/ u.pc = "spine" /\ \E h \in u.reach : i \in Reachable(u.all, h, s.spine)
           \/ u.pc = "contains" /\ i \in u.reach
    BY <1>4 DEF Covered, Scanned
  <2>2. \/ i \notin t.labelled
        \/ u.pc = "head" /\ t.marks[Tenant].head \in u.all
        \/ u.pc = "spine" /\ \E h \in u.reach : i \in Reachable(u.all, h, t.spine)
        \/ u.pc = "contains" /\ i \in u.reach
    BY <1>1, <1>2, <2>1
  <2> QED
    BY <1>3, <1>4, <2>1, <2>2 DEF Covered, Carried
<1>5. CASE u.pc \notin Scanned
  BY <1>3, <1>5 DEF Covered, Carried
<1> QED
  BY <1>4, <1>5

(* And what it is excused from stays so.                                   *)
LEMMA HoldsKept ==
    ASSUME NEW s, NEW t, NEW u \in Reader, NEW v, NEW w, Grows(s, t, w), Carried(s, t, u, v, w),
           NEW i \in Holds(s, u), i \in t.searchable, t.marks = s.marks \/ i \notin t.labelled
    PROVE  i \in Holds(t, v)
<1>1. Excused(s, u) \subseteq Excused(t, v)
  BY DEF Excused, Grows, Carried
<1> QED
  BY <1>1, CoveredKept DEF Holds

(* A watermark once read stays the tenant's or older, and is the tenant's  *)
(* after a write only if the write left it as it was.                      *)
LEMMA OlderKept ==
    ASSUME NEW s, NEW t, NEW w, Grows(s, t, w), NEW r \in Repos, NEW m \in Watermark,
           Older(s, r, m)
    PROVE  /\ Older(t, r, m)
           /\ m = t.marks[r] => m = s.marks[r] /\ t.marks[r] = s.marks[r]
<1>1. s.marks[r] \in Watermark /\ t.marks[r] \in Watermark
  BY DEF Grows
<1>2. s.marks[r].at \in Nat /\ t.marks[r].at \in Nat /\ m.at \in Nat
  BY <1>1 DEF Watermark
<1>3. t.marks[r] = s.marks[r] \/ t.marks[r].at > s.marks[r].at
  BY DEF Grows
<1> QED
  BY <1>2, <1>3 DEF Older

(* A write keeps what holds of a request.                                  *)
LEMMA WriteKeepsReader ==
    ASSUME NEW s, NEW t, NEW u \in Reader, NEW v \in Reader, NEW w,
           Grows(s, t, w), Carried(s, t, u, v, w), ReaderOK(s, u)
    PROVE  ReaderOK(t, v)
<1>1. Partial(t, v) \subseteq Partial(s, u)
  BY PartialShrinks
<1>2. Active(v) <=> Active(u)
  BY DEF Active, Carried
<1>3. u.seen \subseteq v.seen /\ v.steady \subseteq u.steady /\ s.relabelled \subseteq t.relabelled
  BY DEF Carried, Grows
<1>4. Active(v) => /\ Of(v.repo, t.canonical) \subseteq v.seen
                   /\ v.steady \subseteq Of(v.repo, t.searchable)
  BY <1>2 DEF Carried, ReaderOK, Of
<1>5. ASSUME v.pc \in Scanned \cup {"insert", "resolve", "mark", "answered"},
             v.kind \in {"search", "in_flight"}, Keyed(v), NEW i \in v.steady
      PROVE  i \in Holds(t, v)
  <2>1. i \in Holds(s, u)
    BY <1>3, <1>5 DEF ReaderOK, Carried, Keyed
  <2>2. CASE Active(u)
    <3>1. i \in t.searchable /\ (t.marks = s.marks \/ i \notin t.labelled)
      BY <1>5, <2>2 DEF Carried
    <3> QED
      BY <2>1, <3>1, HoldsKept
  <2>3. CASE ~Active(u)
    <3>1. u.pc = "answered"
      BY <1>5, <2>3 DEF Active, Carried, Scanned
    <3> QED
      BY <2>1, <3>1 DEF Holds, Excused, Covered, Carried, Grows, Scanned
  <2> QED
    BY <2>2, <2>3
<1>6. u.repo \in Repos /\ u.mark \in Watermark /\ u.count \in Nat
  BY DEF Reader
<1>7. Active(v) /\ v.kind = "search" /\ v.pc # "resolve" /\ Keyed(v) => Older(t, v.repo, v.mark)
  BY <1>2, <1>6, OlderKept DEF ReaderOK, Carried, Keyed
<1>8. Active(v) /\ v.kind = "search" /\ v.pc \notin {"resolve", "count"} => v.count <= t.count
  BY <1>2, <1>6 DEF ReaderOK, Carried, Grows
<1>9. v.pc = "store" => /\ t.stored \cap Claims \subseteq v.all \cup v.late
                        /\ \A b \in v.branches : t.contains[b] # {}
  <2>1. u.branches \subseteq Tips
    BY DEF Reader
  <2> QED
    BY <2>1 DEF ReaderOK, Carried, Grows, Active
<1>10. v.late \subseteq Claims
  BY DEF ReaderOK, Carried, Grows
<1>11. v.pc \in Scanned \cup {"store"} => v.all \subseteq t.stored
  BY DEF ReaderOK, Carried, Grows
<1>12. /\ v.pc \in {"count", "lock", "insert", "resolve"} => v.kind = "search"
       /\ v.pc \in {"lookup", "store"} => v.kind = "layout"
       /\ v.pc \in Scanned => v.kind # "layout"
       /\ v.pc = "mark" => v.kind \in {"in_flight", "storyline"}
  BY DEF ReaderOK, Carried
<1>13. /\ v.pc = "resolve" /\ Keyed(v) => v.hits \subseteq v.seen \cup t.relabelled
       /\ v.pc = "mark" => v.items \subseteq v.seen
       /\ v.pc = "answered" /\ v.kind # "layout" /\ Keyed(v) =>
            v.items \subseteq v.seen \cup (IF v.kind = "search" THEN t.relabelled ELSE {})
       /\ Partial(s, u) \subseteq v.seen
  BY <1>3 DEF ReaderOK, Carried, Keyed
<1> QED
  BY <1>1, <1>4, <1>5, <1>7, <1>8, <1>9, <1>10, <1>11, <1>12, <1>13 DEF ReaderOK

(* A write keeps what holds of an index: under a key that is no longer the *)
(* tenant's nothing is claimed but for the requests that read that key.    *)
LEMMA WriteKeepsSource ==
    ASSUME NEW s, NEW t, NEW w, Grows(s, t, w),
           NEW before \in [Readers -> Reader], NEW after \in [Readers -> Reader],
           \A p \in Readers : Carried(s, t, before[p], after[p], w),
           NEW r \in Repos, NEW m \in Watermark, NEW c \in Nat,
           NEW has, NEW less, less \subseteq has, NEW holds, NEW kept,
           \A i \in holds : i \in t.searchable /\ (t.marks = s.marks \/ i \notin t.labelled)
                             => i \in kept,
           Source(s, before, r, m, c, has, holds)
    PROVE  Source(t, after, r, m, c, less, kept)
<1>1. Older(t, r, m) /\ (m = t.marks[r] => m = s.marks[r] /\ t.marks[r] = s.marks[r])
  BY OlderKept DEF Source
<1>2. s.count \in Nat /\ t.count \in Nat /\ s.count <= t.count /\ c <= s.count
  BY DEF Grows, Source
<1>3. c <= t.count /\ (c = t.count => c = s.count /\ t.count = s.count)
  BY <1>2
<1>4. less \subseteq Of(r, Ids)
  BY DEF Source
<1>5. ASSUME m = t.marks[r], c = t.count
      PROVE  /\ less \subseteq t.canonical \cup t.relabelled
             /\ Of(r, t.searchable) \ t.unkeyed \subseteq kept
  <2>1. SameKey(s, t, r) /\ m = s.marks[r] /\ c = s.count
    BY <1>1, <1>3, <1>5 DEF SameKey
  <2>2. less \subseteq s.canonical \cup s.relabelled
    BY <2>1 DEF Source
  <2>3. Of(r, s.searchable) \ s.unkeyed \subseteq holds
    BY <2>1 DEF Source
  <2>4. less \subseteq t.canonical \cup t.relabelled
    BY <1>4, <2>1, <2>2 DEF Grows, Of
  <2>5. ASSUME NEW i \in Of(r, t.searchable) \ t.unkeyed
        PROVE  i \in kept
    <3>1. i \in t.searchable /\ RepoOf[i] = r /\ i \notin t.unkeyed /\ i \in Ids
      BY <2>5 DEF Of, Grows
    <3>2. i \in s.searchable /\ i \notin s.unkeyed
      BY <2>1, <3>1 DEF Grows
    <3>3. i \in holds
      BY <2>3, <3>1, <3>2 DEF Of
    <3>4. CASE r = Tenant
      <4>1. \A x \in Repos : t.marks[x] = s.marks[x]
        BY <2>1, <3>4 DEF Grows, SameKey
      <4>2. t.marks = s.marks
        BY <4>1 DEF Grows
      <4> QED
        BY <3>1, <3>3, <4>2
    <3>5. CASE r # Tenant
      <4>1. i \notin Commits
        BY <3>1, <3>5, ReadCachesAssumption
      <4> QED
        BY <3>1, <3>3, <4>1 DEF Grows
    <3> QED
      BY <3>4, <3>5
  <2> QED
    BY <2>4, <2>5
<1>6. ASSUME NEW p \in Readers, Waits(t, after[p], r, m, c)
      PROVE  /\ less \subseteq after[p].seen \cup t.relabelled
             /\ after[p].steady \subseteq kept
  <2>1. Waits(s, before[p], r, m, c) /\ Active(before[p])
    BY <1>3, <1>6 DEF Waits, Carried, Active, Keyed
  <2>2. less \subseteq before[p].seen \cup s.relabelled /\ before[p].steady \subseteq holds
    BY <2>1 DEF Source
  <2>3. /\ after[p].seen = before[p].seen \cup Of(before[p].repo, t.canonical)
        /\ after[p].steady = (before[p].steady \cap t.searchable) \
                                (IF t.marks = s.marks THEN {} ELSE t.labelled)
    BY <2>1 DEF Carried
  <2>4. s.relabelled \subseteq t.relabelled
    BY DEF Grows
  <2> QED
    BY <2>2, <2>3, <2>4
<1> QED
  BY <1>1, <1>3, <1>4, <1>5, <1>6 DEF Source

-----------------------------------------------------------------------------
(* A step of a request; the store is as it was.                            *)

(* What holds of every view.                                               *)
Sane(s) ==
    /\ s.stored \subseteq Ids /\ s.embedded \subseteq s.stored
    /\ s.marks \in [Repos -> Watermark] /\ s.count \in Nat
    /\ s.spine \in SUBSET (Commits \X Commits)
    /\ \A e \in s.spine : e[2] \in ParentsOf[e[1]]
    /\ s.labelled \subseteq Commits
    /\ \A i : i \in s.labelled <=> \E b \in Tips : i \in s.contains[b]
    /\ s.marks[Tenant].head # NoCommit => s.merged = Ancestors(s.marks[Tenant].head)
    /\ s.canonical = s.stored \ (s.labelled \ s.merged)
    /\ s.searchable \subseteq s.embedded
    /\ \A i \in s.searchable : i \in s.labelled =>
          /\ s.marks[Tenant].head \in s.stored
          /\ i \in Reachable(s.stored, s.marks[Tenant].head, s.spine)

(* A request comes to wait for an index when it begins, and then waits     *)
(* with the key it reads.                                                  *)
Joins(s, u, v) ==
    v.pc \in {"count", "lock"} /\ Keyed(v) =>
        \/ /\ v.pc = "count" /\ v.mark = s.marks[v.repo]
           /\ v.seen = Of(v.repo, s.canonical)
           /\ v.steady = Of(v.repo, s.searchable) \ s.unkeyed
        \/ /\ u.pc = "count" /\ v.pc = "lock" /\ v.count = s.count /\ Keyed(u)
           /\ v.repo = u.repo /\ v.mark = u.mark /\ v.seen = u.seen /\ v.steady = u.steady

(* The requests and what they build.                                       *)
AllOK(s, all) ==
    /\ Sane(s)
    /\ all \in [Readers -> Reader]
    /\ \A p \in Readers : ReaderOK(s, all[p])
    /\ \A q \in Readers : Building(all[q]) =>
          Source(s, all, all[q].repo, all[q].mark, all[q].count,
                 Partial(s, all[q]), Holds(s, all[q]))

(* What a request may become.                                              *)
Fits(s, all, p, v) ==
    /\ v \in Reader
    /\ ReaderOK(s, v)
    /\ Joins(s, all[p], v)
    /\ Building(v) => Source(s, all, v.repo, v.mark, v.count, Partial(s, v), Holds(s, v))

(* What holds of an index still does when a request has moved.             *)
LEMMA MoveKeepsSource ==
    ASSUME NEW s, NEW before \in [Readers -> Reader], NEW p \in Readers, NEW u \in Reader,
           NEW after, after = [before EXCEPT ![p] = u], Joins(s, before[p], u),
           NEW r, NEW m, NEW c, NEW has, NEW holds, Source(s, before, r, m, c, has, holds)
    PROVE  Source(s, after, r, m, c, has, holds)
<1>1. ASSUME NEW q \in Readers, Waits(s, after[q], r, m, c)
      PROVE  has \subseteq after[q].seen \cup s.relabelled /\ after[q].steady \subseteq holds
  <2>1. CASE q # p
    BY <1>1, <2>1 DEF Source
  <2>2. CASE q = p
    <3>1. after[q] = u
      BY <2>2
    <3>2. /\ u.repo = r /\ u.mark = m /\ Keyed(u)
          /\ \/ u.pc = "count" /\ c = s.count
             \/ u.pc = "lock" /\ c = u.count
      BY <1>1, <3>1 DEF Waits
    <3>3. CASE /\ u.pc = "count" /\ u.mark = s.marks[u.repo]
               /\ u.seen = Of(u.repo, s.canonical)
               /\ u.steady = Of(u.repo, s.searchable) \ s.unkeyed
      <4>1. /\ has \subseteq s.canonical \cup s.relabelled
            /\ Of(r, s.searchable) \ s.unkeyed \subseteq holds
        BY <3>2, <3>3 DEF Source
      <4>2. has \subseteq Of(r, Ids)
        BY DEF Source
      <4> QED
        BY <3>1, <3>2, <3>3, <4>1, <4>2 DEF Of
    <3>4. CASE /\ before[p].pc = "count" /\ u.pc = "lock" /\ u.count = s.count /\ Keyed(before[p])
               /\ u.repo = before[p].repo /\ u.mark = before[p].mark
               /\ u.seen = before[p].seen /\ u.steady = before[p].steady
      <4>1. Waits(s, before[p], r, m, c)
        BY <3>2, <3>4 DEF Waits
      <4> QED
        BY <3>1, <3>4, <4>1 DEF Source
    <3> QED
      BY <3>2, <3>3, <3>4 DEF Joins
  <2> QED
    BY <2>1, <2>2
<1> QED
  BY <1>1 DEF Source

(* A build may take up what is canonical and drop what is not searchable.  *)
LEMMA SourceAdvances ==
    ASSUME NEW s, NEW all, AllOK(s, all), NEW r, NEW m, NEW c,
           NEW has, NEW more, more \subseteq has \cup Of(r, s.canonical),
           NEW holds, NEW kept, holds \cap Of(r, s.searchable) \subseteq kept,
           Source(s, all, r, m, c, has, holds)
    PROVE  Source(s, all, r, m, c, more, kept)
<1>1. s.canonical \subseteq Ids /\ more \subseteq Of(r, Ids)
  BY DEF AllOK, Sane, Source, Of
<1>2. m = s.marks[r] /\ c = s.count =>
          /\ more \subseteq s.canonical \cup s.relabelled
          /\ Of(r, s.searchable) \ s.unkeyed \subseteq kept
  BY DEF Source, Of
<1>3. ASSUME NEW p \in Readers, Waits(s, all[p], r, m, c)
      PROVE  more \subseteq all[p].seen \cup s.relabelled /\ all[p].steady \subseteq kept
  <2>1. all[p].repo = r /\ Active(all[p]) /\ ReaderOK(s, all[p])
    BY <1>3 DEF Waits, Active, AllOK
  <2>2. Of(r, s.canonical) \subseteq all[p].seen /\ all[p].steady \subseteq Of(r, s.searchable)
    BY <2>1 DEF ReaderOK
  <2>3. has \subseteq all[p].seen \cup s.relabelled /\ all[p].steady \subseteq holds
    BY <1>3 DEF Source
  <2> QED
    BY <2>2, <2>3
<1> QED
  BY <1>1, <1>2, <1>3 DEF Source

(* Before its scan a build promises nothing.                               *)
LEMMA SourceBegins ==
    ASSUME NEW s, NEW all, AllOK(s, all), NEW r, NEW m, NEW c, Older(s, r, m), c <= s.count
    PROVE  Source(s, all, r, m, c, {}, Ids)
<1>1. s.searchable \subseteq Ids
  BY DEF AllOK, Sane
<1>2. \A p \in Readers : all[p].steady \subseteq Ids
  <2>1. \A p \in Readers : all[p] \in Reader
    BY DEF AllOK
  <2> QED
    BY <2>1 DEF Reader
<1> QED
  BY <1>1, <1>2 DEF Source, Of

(* No request is idle in vain: nothing is asked of it.                     *)
LEMMA IdleFits ==
    ASSUME NEW s, NEW all, NEW p
    PROVE  Fits(s, all, p, Idle)
<1> DEFINE v == Idle
<1>1. v \in Reader
  <2>1. Tenant \in Repos
    BY ReadCachesAssumption
  <2>2. NoMark \in Watermark
    BY DEF Watermark, NoMark
  <2> QED
    BY <2>1, <2>2 DEF Idle, Reader, Kinds, Blindness
<1>2. v.pc = "idle" /\ v.late = {}
  BY DEF Idle
<1> HIDE DEF v
<1>3. Partial(s, v) = {}
  BY <1>2 DEF Partial, Scanned
<1>4. ReaderOK(s, v)
  BY <1>2, <1>3 DEF ReaderOK, Active, Scanned
<1>5. Joins(s, all[p], v) /\ ~Building(v)
  BY <1>2 DEF Joins, Building, Scanned
<1> QED
  BY <1>1, <1>4, <1>5 DEF Fits, v

(* Start.                                                                  *)
LEMMA StartFits ==
    ASSUME NEW s, NEW all, AllOK(s, all), NEW p \in Readers, NEW kind \in Kinds, NEW r \in Repos,
           NEW m \in Watermark, NEW blind \in Blindness, m # s.marks[r] => "key" \in blind,
           NEW v, v = [Idle EXCEPT !.pc = CASE kind = "search" -> "count"
                                            [] kind = "layout" -> "lookup"
                                            [] OTHER -> "scan",
                                   !.kind = kind, !.repo = r,
                                   !.mark = IF kind = "search" THEN m ELSE @,
                                   !.blind = IF kind = "search" THEN blind ELSE @,
                                   !.seen = Of(r, s.canonical),
                                   !.steady = Of(r, s.searchable) \ s.unkeyed]
    PROVE  Fits(s, all, p, v)
<1>1. s.marks[r] \in Watermark /\ s.canonical \subseteq Ids /\ s.searchable \subseteq Ids
  BY DEF AllOK, Sane
<1>2. Idle \in Reader /\ Idle.late = {}
  BY IdleFits DEF Fits, Idle
<1>3. /\ v \in Reader
      /\ v.pc = CASE kind = "search" -> "count" [] kind = "layout" -> "lookup" [] OTHER -> "scan"
      /\ v.kind = kind /\ v.repo = r /\ v.late = {}
      /\ kind = "search" => v.mark = m /\ (Keyed(v) => v.mark = s.marks[r])
      /\ v.seen = Of(r, s.canonical) /\ v.steady = Of(r, s.searchable) \ s.unkeyed
  BY <1>1, <1>2 DEF Reader, Of, Keyed
<1>4. /\ v.pc \in {"count", "lookup", "scan"} /\ (v.pc = "count" <=> v.kind = "search")
      /\ v.pc = "lookup" <=> v.kind = "layout"
  BY <1>3 DEF Kinds
<1>5. Partial(s, v) = {}
  BY <1>4 DEF Partial, Scanned
<1>6. v.kind = "search" /\ Keyed(v) => Older(s, v.repo, v.mark)
  BY <1>1, <1>3 DEF Older, Watermark
<1>7. ReaderOK(s, v)
  BY <1>3, <1>4, <1>5, <1>6 DEF ReaderOK, Active, Scanned
<1>8. Joins(s, all[p], v) /\ ~Building(v)
  BY <1>3, <1>4 DEF Joins, Building, Scanned
<1> QED
  BY <1>3, <1>7, <1>8 DEF Fits

(* ReadCount.                                                              *)
LEMMA CountFits ==
    ASSUME NEW s, NEW all, AllOK(s, all), NEW p \in Readers, NEW v, all[p].pc = "count",
           v = [all[p] EXCEPT !.pc = "lock", !.count = s.count]
    PROVE  Fits(s, all, p, v)
<1> DEFINE u == all[p]
<1>1. u \in Reader /\ ReaderOK(s, u) /\ s.count \in Nat
  BY DEF AllOK, Sane
<1>2. /\ v \in Reader /\ v.pc = "lock" /\ v.count = s.count
      /\ v.kind = u.kind /\ v.repo = u.repo /\ v.mark = u.mark /\ v.seen = u.seen
      /\ v.steady = u.steady /\ v.late = u.late /\ (Keyed(v) <=> Keyed(u))
  BY <1>1 DEF Reader, Keyed
<1> HIDE DEF u
<1>3. Partial(s, v) = {}
  BY <1>2 DEF Partial, Scanned
<1>4. u.pc = "count"
  BY DEF u
<1>5. ReaderOK(s, v)
  BY <1>1, <1>2, <1>3, <1>4 DEF ReaderOK, Active, Scanned
<1>6. Joins(s, u, v) /\ ~Building(v)
  BY <1>2, <1>4 DEF Joins, Building, Scanned
<1> QED
  BY <1>2, <1>5, <1>6 DEF Fits, u

(* Hit: what holds of an index for a request that waits for its key.       *)
LEMMA HitFits ==
    ASSUME NEW s, NEW all, AllOK(s, all), NEW p \in Readers, NEW v, all[p].pc = "lock",
           NEW e \in Entry,
           Keyed(e) => Source(s, all, all[p].repo, all[p].mark, all[p].count,
                              e.index, IndexHolds(s, e)),
           v = [all[p] EXCEPT !.pc = "resolve", !.hits = e.index, !.blind = @ \cup e.blind]
    PROVE  Fits(s, all, p, v)
<1> DEFINE u == all[p]
<1>1. u \in Reader /\ ReaderOK(s, u) /\ e.index \subseteq Ids /\ e.blind \in Blindness
  BY DEF AllOK, Entry
<1>2. /\ v \in Reader /\ v.pc = "resolve" /\ v.hits = e.index /\ v.blind = u.blind \cup e.blind
      /\ v.kind = u.kind /\ v.repo = u.repo /\ v.seen = u.seen
      /\ v.steady = u.steady /\ v.late = u.late
  BY <1>1 DEF Reader, Blindness
<1>3. Keyed(v) => Keyed(u) /\ Keyed(e)
  BY <1>2 DEF Keyed
<1>4. Keyed(u) => Waits(s, u, u.repo, u.mark, u.count)
  BY DEF Waits
<1>5. Keyed(v) => e.index \subseteq u.seen \cup s.relabelled /\ u.steady \subseteq IndexHolds(s, e)
  BY <1>3, <1>4 DEF Source
<1>6. u.pc = "lock"
  OBVIOUS
<1> HIDE DEF u
<1>7. Partial(s, v) = {} /\ Covered(s, v) = e.index
  BY <1>1, <1>2 DEF Partial, Covered, Scanned
<1>8. IndexHolds(s, e) \subseteq Holds(s, v)
  BY <1>2, <1>7 DEF IndexHolds, Holds, Excused
<1>9. Keyed(v) => v.steady \subseteq Holds(s, v)
  BY <1>2, <1>5, <1>8
<1>10. ReaderOK(s, v)
  BY <1>1, <1>2, <1>5, <1>6, <1>7, <1>9 DEF ReaderOK, Active, Scanned
<1>11. Joins(s, u, v) /\ ~Building(v)
  BY <1>2 DEF Joins, Building, Scanned
<1> QED
  BY <1>2, <1>10, <1>11 DEF Fits, u

(* Miss, and a layout that finds no scene.                                 *)
LEMMA GoesToScan ==
    ASSUME NEW s, NEW all, AllOK(s, all), NEW p \in Readers, NEW v,
           all[p].pc \in {"lock", "lookup"}, v = [all[p] EXCEPT !.pc = "scan"]
    PROVE  Fits(s, all, p, v)
<1> DEFINE u == all[p]
<1>1. u \in Reader /\ ReaderOK(s, u) /\ u.pc \in {"lock", "lookup"}
  BY DEF AllOK
<1>2. /\ v \in Reader /\ v.pc = "scan"
      /\ v.kind = u.kind /\ v.repo = u.repo /\ v.mark = u.mark /\ v.count = u.count
      /\ v.seen = u.seen /\ v.steady = u.steady /\ v.late = u.late /\ (Keyed(v) <=> Keyed(u))
  BY <1>1 DEF Reader, Keyed
<1> HIDE DEF u
<1>3. Partial(s, v) = {}
  BY <1>2 DEF Partial, Scanned
<1>4. ReaderOK(s, v)
  BY <1>1, <1>2, <1>3 DEF ReaderOK, Active, Scanned
<1>5. Joins(s, u, v) /\ ~Building(v)
  BY <1>2 DEF Joins, Building, Scanned
<1> QED
  BY <1>2, <1>4, <1>5 DEF Fits, u

(* ScanNodes: what no branch of the scan contains is canonical, and what   *)
(* is searchable is in the scan, with the head if a branch contains it.    *)
LEMMA ScanFits ==
    ASSUME NEW s, NEW all, AllOK(s, all), NEW p \in Readers, NEW v, all[p].pc = "scan",
           NEW branches \in SUBSET Tips,
           \A b \in Tips : b \notin branches <=> s.contains[b] = {},
           v = [all[p] EXCEPT !.pc = IF all[p].kind = "layout" THEN "store" ELSE "head",
                              !.all = s.stored, !.embedded = s.embedded,
                              !.branches = branches, !.late = {}]
    PROVE  Fits(s, all, p, v)
<1> DEFINE u == all[p]
<1>1. u \in Reader /\ ReaderOK(s, u) /\ u.pc = "scan" /\ Sane(s)
  BY DEF AllOK
<1>2. s.stored \subseteq Ids /\ s.embedded \subseteq Ids
  BY <1>1 DEF Sane
<1>3. /\ v \in Reader /\ v.pc = IF u.kind = "layout" THEN "store" ELSE "head"
      /\ v.kind = u.kind /\ v.repo = u.repo /\ v.mark = u.mark /\ v.count = u.count
      /\ v.all = s.stored /\ v.embedded = s.embedded /\ v.branches = branches
      /\ v.seen = u.seen /\ v.steady = u.steady /\ v.late = {} /\ (Keyed(v) <=> Keyed(u))
  BY <1>1, <1>2 DEF Reader, Keyed
<1> HIDE DEF u
<1>4. Active(u) /\ Active(v)
  BY <1>1, <1>3 DEF Active
<1>5. Partial(s, v) \subseteq Of(u.repo, s.canonical)
  <2> SUFFICES ASSUME NEW i \in Partial(s, v)
               PROVE  i \in s.canonical /\ RepoOf[i] = u.repo
    BY DEF Of
  <2>1. v.pc \in Scanned /\ v.pc = "head"
    BY <1>3 DEF Partial, Scanned
  <2>2. i \in s.stored /\ RepoOf[i] = u.repo /\ \A b \in branches : i \notin s.contains[b]
    BY <1>3, <2>1 DEF Partial
  <2>3. i \notin s.labelled
    BY <1>1, <2>2 DEF Sane
  <2> QED
    BY <1>1, <2>2, <2>3 DEF Sane
<1>6. Of(u.repo, s.canonical) \subseteq u.seen /\ u.steady \subseteq Of(u.repo, s.searchable)
  BY <1>1, <1>4 DEF ReaderOK
<1>7. v.pc = "head" => Of(u.repo, s.searchable) \subseteq Covered(s, v)
  <2> SUFFICES ASSUME v.pc = "head", NEW i \in s.searchable, RepoOf[i] = u.repo
               PROVE  i \in Covered(s, v)
    BY DEF Of
  <2>1. i \in s.stored /\ i \in s.embedded /\ i \in Ids
    BY <1>1, <1>2 DEF Sane
  <2>2. i \notin s.labelled \/ s.marks[Tenant].head \in s.stored
    BY <1>1 DEF Sane
  <2> QED
    BY <1>3, <2>1, <2>2 DEF Covered, Scanned
<1>8. ReaderOK(s, v)
  <2>1. v.kind # "layout" => v.pc = "head"
    BY <1>3
  <2>2. v.pc \in {"head", "store"} /\ (v.pc = "store" <=> v.kind = "layout")
    BY <1>3
  <2>3. v.kind = "search" => (Keyed(v) => Older(s, v.repo, v.mark)) /\ v.count <= s.count
    BY <1>1, <1>3, <1>4 DEF ReaderOK
  <2>4. Partial(s, v) \subseteq v.seen
    BY <1>3, <1>5, <1>6
  <2>5. v.pc = "head" => v.steady \subseteq Holds(s, v)
    BY <1>3, <1>6, <1>7 DEF Holds
  <2>6. Of(v.repo, s.canonical) \subseteq v.seen /\ v.steady \subseteq Of(v.repo, s.searchable)
    BY <1>3, <1>6
  <2> QED
    BY <1>3, <2>2, <2>3, <2>4, <2>5, <2>6 DEF ReaderOK, Active, Scanned
<1>9. ASSUME Building(v)
      PROVE  Source(s, all, v.repo, v.mark, v.count, Partial(s, v), Holds(s, v))
  <2>1. v.pc = "head" /\ v.kind = "search" /\ Keyed(v)
    BY <1>3, <1>9 DEF Building
  <2>2. Older(s, v.repo, v.mark) /\ v.count <= s.count
    BY <1>4, <1>8, <2>1 DEF ReaderOK
  <2>3. Source(s, all, v.repo, v.mark, v.count, {}, Ids)
    BY <2>2, SourceBegins
  <2>4. Partial(s, v) \subseteq {} \cup Of(v.repo, s.canonical)
    BY <1>3, <1>5
  <2>5. Ids \cap Of(v.repo, s.searchable) \subseteq Holds(s, v)
    BY <1>3, <1>7, <2>1 DEF Holds
  <2> QED
    BY <2>3, <2>4, <2>5, SourceAdvances
<1>10. Joins(s, u, v)
  BY <1>3 DEF Joins
<1> QED
  BY <1>3, <1>8, <1>9, <1>10 DEF Fits, u

(* A build that moves on: what it takes up is canonical now, and what it   *)
(* drops is not searchable now.                                            *)
LEMMA BuildMoves ==
    ASSUME NEW s, NEW all, AllOK(s, all), NEW p \in Readers,
           NEW v \in Reader, NEW u \in Reader, u = all[p], u.pc \in Scanned,
           v.pc \in Scanned \cup {"insert", "mark"}, 
           v.pc = "insert" => u.kind = "search", v.pc = "mark" => u.kind \in {"in_flight", "storyline"},
           v.kind = u.kind, v.repo = u.repo, v.seen = u.seen, v.steady = u.steady, v.late = u.late,
           u.blind \subseteq v.blind,
           u.kind = "search" => v.mark = u.mark /\ v.count = u.count,
           v.pc \in Scanned => v.all = u.all,
           v.pc = "mark" => v.items \subseteq Partial(s, u),
           Partial(s, v) \subseteq Partial(s, u) \cup Of(u.repo, s.canonical),
           u.kind \in {"search", "in_flight"} =>
              Covered(s, u) \cap Of(u.repo, s.searchable) \subseteq Holds(s, v)
    PROVE  Fits(s, all, p, v)
<1>1. ReaderOK(s, u) /\ Sane(s) /\ Active(u) /\ Active(v)
  BY DEF AllOK, Active, Scanned
<1>2. Of(u.repo, s.canonical) \subseteq u.seen /\ u.steady \subseteq Of(u.repo, s.searchable)
  BY <1>1 DEF ReaderOK
<1>3. Partial(s, u) \subseteq u.seen /\ u.kind # "layout" /\ u.all \subseteq s.stored
  BY <1>1 DEF ReaderOK
<1>4. (Keyed(v) => Keyed(u)) /\ Excused(s, u) \subseteq Excused(s, v)
  BY DEF Keyed, Excused
<1>5. u.kind \in {"search", "in_flight"} =>
          Holds(s, u) \cap Of(u.repo, s.searchable) \subseteq Holds(s, v)
  BY <1>4 DEF Holds
<1>6. v.kind \in {"search", "in_flight"} /\ Keyed(v) => v.steady \subseteq Holds(s, v)
  <2>1. u.kind \in {"search", "in_flight"} /\ Keyed(u) => u.steady \subseteq Holds(s, u)
    BY <1>1 DEF ReaderOK
  <2> QED
    BY <1>2, <1>4, <1>5, <2>1
<1>7. v.kind = "search" => (Keyed(v) => Older(s, v.repo, v.mark)) /\ v.count <= s.count
  <2>1. u.kind = "search" => (Keyed(u) => Older(s, u.repo, u.mark)) /\ u.count <= s.count
    BY <1>1 DEF ReaderOK, Scanned
  <2> QED
    BY <1>4, <2>1
<1>8. Partial(s, v) \subseteq v.seen /\ (v.pc = "mark" => v.items \subseteq v.seen)
  BY <1>2, <1>3
<1>9. ReaderOK(s, v)
  <2>1. v.late \subseteq Claims
    BY <1>1 DEF ReaderOK
  <2>2. v.pc \notin {"count", "lock", "resolve", "lookup", "store", "answered"}
    BY DEF Scanned
  <2> QED
    BY <1>2, <1>3, <1>6, <1>7, <1>8, <2>1, <2>2 DEF ReaderOK, Scanned
<1>10. Joins(s, all[p], v)
  BY DEF Joins, Scanned
<1>11. ASSUME Building(v)
      PROVE  Source(s, all, v.repo, v.mark, v.count, Partial(s, v), Holds(s, v))
  <2>1. u.kind = "search" /\ Building(u)
    BY <1>11, <1>4 DEF Building
  <2>2. Source(s, all, u.repo, u.mark, u.count, Partial(s, u), Holds(s, u))
    BY <2>1 DEF AllOK
  <2>3. Source(s, all, u.repo, u.mark, u.count, Partial(s, v), Holds(s, v))
    BY <1>5, <2>1, <2>2, SourceAdvances
  <2> QED
    BY <2>1, <2>3
<1> QED
  BY <1>9, <1>10, <1>11 DEF Fits

(* ReadHead: the head's ancestors are canonical.                           *)
LEMMA HeadFits ==
    ASSUME NEW s, NEW all, AllOK(s, all), NEW p \in Readers, NEW v, all[p].pc = "head",
           NEW m, m = s.marks[Tenant] \/ m = NoMark,
           NEW blind \in Blindness, all[p].blind \subseteq blind,
           m # s.marks[Tenant] => "head" \in blind,
           v = [all[p] EXCEPT !.pc = "spine", !.reach = {m.head} \cap all[p].all, !.blind = blind]
    PROVE  Fits(s, all, p, v)
<1> DEFINE h == m.head
<1>1. PICK u \in Reader : u = all[p]
  BY DEF AllOK
<1>2. ReaderOK(s, u) /\ Sane(s) /\ u.pc = "head" /\ u.all \subseteq s.stored /\ u.all \subseteq Ids
  BY <1>1 DEF AllOK, ReaderOK, Scanned, Reader
<1>3. h \in Commits \cup {NoCommit} /\ (m # s.marks[Tenant] => h = NoCommit)
  BY <1>2, ReadCachesAssumption DEF Sane, Watermark, NoMark
<1>4. h \in u.all => h \in Commits /\ s.merged = Ancestors(h) /\ h = s.marks[Tenant].head
  BY <1>2, <1>3, ReadCachesAssumption DEF Sane
<1>5. {h} \cap u.all \subseteq Commits
  BY <1>4
<1>6. /\ v \in Reader /\ v.pc = "spine" /\ v.reach = {h} \cap u.all
      /\ v.kind = u.kind /\ v.repo = u.repo /\ v.mark = u.mark /\ v.count = u.count
      /\ v.all = u.all /\ v.embedded = u.embedded /\ v.branches = u.branches
      /\ v.seen = u.seen /\ v.steady = u.steady /\ v.late = u.late /\ v.blind = blind
  BY <1>1, <1>5 DEF Reader
<1> HIDE DEF h
<1>7. Partial(s, v) \subseteq Partial(s, u) \cup Of(u.repo, s.canonical)
  <2> SUFFICES ASSUME NEW i \in Partial(s, v), i \notin Partial(s, u)
               PROVE  i \in s.canonical /\ RepoOf[i] = u.repo
    BY DEF Of
  <2>1. /\ i \in Ids /\ i \in u.all /\ RepoOf[i] = u.repo
        /\ \/ \A t \in u.branches : i \notin s.contains[t]
           \/ \E g \in v.reach : i \in Ancestors(g)
    BY <1>6 DEF Partial
  <2>2. \E g \in v.reach : i \in Ancestors(g)
    BY <1>2, <2>1 DEF Partial, Scanned
  <2>3. i \in s.merged /\ i \in s.stored
    BY <1>2, <1>4, <1>6, <2>1, <2>2
  <2> QED
    BY <1>2, <2>1, <2>3 DEF Sane
<1>8. Covered(s, u) \cap Of(u.repo, s.searchable) \subseteq Holds(s, v)
  <2> SUFFICES ASSUME NEW i \in Covered(s, u), i \in s.searchable, i \notin Excused(s, v)
               PROVE  i \in Covered(s, v)
    BY DEF Of, Holds
  <2>1. /\ i \in Ids /\ i \in u.all /\ i \in u.embedded /\ RepoOf[i] = u.repo
        /\ i \notin s.labelled \/ s.marks[Tenant].head \in u.all
    BY <1>2 DEF Covered, Scanned
  <2>2. CASE i \in s.labelled
    <3>1. m = s.marks[Tenant]
      BY <1>6, <2>2 DEF Excused
    <3>2. h \in u.all /\ h \in s.stored /\ i \in Reachable(s.stored, h, s.spine)
      BY <1>2, <2>1, <2>2, <3>1 DEF Sane, h
    <3>3. i \in Reachable(u.all, h, s.spine) /\ h \in v.reach
      BY <1>6, <3>2, ReachableAnyScan
    <3> QED
      BY <1>6, <2>1, <3>3 DEF Covered, Scanned
  <2>3. CASE i \notin s.labelled
    BY <1>6, <2>1, <2>3 DEF Covered, Scanned
  <2> QED
    BY <2>2, <2>3
<1>9. u.pc \in Scanned /\ v.pc \in Scanned /\ v.pc # "mark" /\ v.pc # "insert"
  BY <1>2, <1>6 DEF Scanned
<1> QED
  BY <1>1, <1>6, <1>7, <1>8, <1>9, BuildMoves

(* ReadSpine: the spine reaches ancestors only, and still what it reached  *)
(* when the head was read.                                                 *)
LEMMA SpineFits ==
    ASSUME NEW s, NEW all, AllOK(s, all), NEW p \in Readers, NEW v, all[p].pc = "spine",
           v = [all[p] EXCEPT !.pc = "contains",
                              !.reach = UNION {Reachable(all[p].all, h, s.spine) : h \in all[p].reach}]
    PROVE  Fits(s, all, p, v)
<1>1. PICK u \in Reader : u = all[p]
  BY DEF AllOK
<1>2. ReaderOK(s, u) /\ Sane(s) /\ u.pc = "spine" /\ u.reach \subseteq Commits
  BY <1>1 DEF AllOK, Reader
<1>3. \A h \in u.reach : Reachable(u.all, h, s.spine) \subseteq Ancestors(h)
  BY <1>2, ReachableIsAncestor DEF Sane
<1>4. \A h \in u.reach : Reachable(u.all, h, s.spine) \subseteq Commits
  BY DEF Reachable
<1> DEFINE reached == UNION {Reachable(u.all, h, s.spine) : h \in u.reach}
<1>5. reached \subseteq Commits /\ \A i : i \in reached <=> \E h \in u.reach : i \in Reachable(u.all, h, s.spine)
  BY <1>4
<1>6. v = [u EXCEPT !.pc = "contains", !.reach = reached]
  BY <1>1
<1> HIDE DEF reached
<1>7. /\ v \in Reader /\ v.pc = "contains" /\ v.reach = reached
      /\ v.kind = u.kind /\ v.repo = u.repo /\ v.mark = u.mark /\ v.count = u.count
      /\ v.all = u.all /\ v.embedded = u.embedded /\ v.branches = u.branches
      /\ v.seen = u.seen /\ v.steady = u.steady /\ v.late = u.late /\ v.blind = u.blind
  BY <1>5, <1>6 DEF Reader
<1>8. Partial(s, v) \subseteq Partial(s, u)
  <2> SUFFICES ASSUME NEW i \in Partial(s, v)
               PROVE  i \in Partial(s, u)
    OBVIOUS
  <2>1. /\ i \in Ids /\ i \in u.all /\ RepoOf[i] = u.repo
        /\ \/ \A t \in u.branches : i \notin s.contains[t]
           \/ i \in reached
    BY <1>7 DEF Partial
  <2>2. i \in reached => \E h \in u.reach : i \in Ancestors(h)
    BY <1>3, <1>5
  <2> QED
    BY <1>2, <2>1, <2>2 DEF Partial, Scanned
<1>9. Covered(s, u) \subseteq Covered(s, v)
  <2> SUFFICES ASSUME NEW i \in Covered(s, u)
               PROVE  i \in Covered(s, v)
    OBVIOUS
  <2>1. /\ i \in Ids /\ i \in u.all /\ i \in u.embedded /\ RepoOf[i] = u.repo
        /\ i \notin s.labelled \/ \E h \in u.reach : i \in Reachable(u.all, h, s.spine)
    BY <1>2 DEF Covered, Scanned
  <2>2. i \notin s.labelled \/ i \in reached
    BY <1>5, <2>1
  <2> QED
    BY <1>7, <2>1, <2>2 DEF Covered, Scanned
<1>10. u.pc \in Scanned /\ v.pc \in Scanned /\ v.pc # "mark" /\ v.pc # "insert"
  BY <1>2, <1>7 DEF Scanned
<1> QED
  BY <1>1, <1>7, <1>8, <1>9, <1>10, BuildMoves DEF Holds

(* ReadContains: the tenant's nodes of the scan that are not in flight ... *)
KeptOf(s, u) ==
    Of(u.repo, u.all) \ ((UNION {s.contains[t] : t \in u.branches}) \ u.reach)

(* ... are what the scan was to report, and what it was not to miss.       *)
LEMMA KeptFacts ==
    ASSUME NEW s, Sane(s), NEW u \in Reader, u.pc = "contains"
    PROVE  /\ KeptOf(s, u) = Partial(s, u) /\ KeptOf(s, u) \subseteq Ids
           /\ Covered(s, u) \subseteq KeptOf(s, u) \cap u.embedded
<1> DEFINE kept == KeptOf(s, u)
<1>2. u.pc \in Scanned /\ u.all \subseteq Ids /\ u.branches \subseteq Tips
  BY DEF Reader, Scanned
<1>3. kept = Partial(s, u)
  <2>1. \A i : i \in kept <=> /\ i \in u.all /\ RepoOf[i] = u.repo
                              /\ (\A t \in u.branches : i \notin s.contains[t]) \/ i \in u.reach
    BY DEF Of, KeptOf
  <2> HIDE DEF kept
  <2> QED
    BY <1>2, <2>1 DEF Partial
<1>4. kept \subseteq Ids
  BY <1>3 DEF Partial
<1>5. Covered(s, u) \subseteq kept \cap u.embedded
  <2> SUFFICES ASSUME NEW i \in Covered(s, u)
               PROVE  i \in Partial(s, u) /\ i \in u.embedded
    BY <1>3
  <2>1. /\ i \in Ids /\ i \in u.all /\ i \in u.embedded /\ RepoOf[i] = u.repo
        /\ i \notin s.labelled \/ i \in u.reach
    BY <1>2 DEF Covered, Scanned
  <2>2. i \notin s.labelled => \A t \in u.branches : i \notin s.contains[t]
    BY <1>2 DEF Sane
  <2> QED
    BY <1>2, <2>1, <2>2 DEF Partial
<1> QED
  BY <1>3, <1>4, <1>5

(* The index of a cached search.                                           *)
LEMMA BuiltFits ==
    ASSUME NEW s, NEW all, AllOK(s, all), NEW p \in Readers, NEW u \in Reader, u = all[p],
           u.pc = "contains", u.kind = "search",
           NEW hits \in SUBSET Ids, hits = KeptOf(s, u) \cap u.embedded,
           NEW v, v = [u EXCEPT !.pc = "insert", !.hits = hits, !.all = {},
                                !.embedded = {}, !.branches = {}, !.reach = {}]
    PROVE  Fits(s, all, p, v)
<1>1. Sane(s)
  BY DEF AllOK
<1>2. /\ v \in Reader /\ v.pc = "insert" /\ v.hits = hits
      /\ v.kind = u.kind /\ v.repo = u.repo /\ v.mark = u.mark /\ v.count = u.count
      /\ v.seen = u.seen /\ v.steady = u.steady /\ v.late = u.late /\ v.blind = u.blind
  BY DEF Reader
<1>3. hits \subseteq Partial(s, u) /\ Covered(s, u) \subseteq hits
  BY <1>1, KeptFacts
<1>4. Partial(s, v) \subseteq Partial(s, u) /\ Covered(s, u) \subseteq Covered(s, v)
  BY <1>2, <1>3 DEF Partial, Covered, Scanned
<1>5. u.pc \in Scanned /\ v.pc \in Scanned \cup {"insert", "mark"} /\ v.pc \notin Scanned
  BY <1>2 DEF Scanned
<1> QED
  BY <1>2, <1>4, <1>5, BuildMoves DEF Holds

(* The items of an uncached request.                                       *)
LEMMA ItemsFit ==
    ASSUME NEW s, NEW all, AllOK(s, all), NEW p \in Readers, NEW u \in Reader, u = all[p],
           u.pc = "contains", u.kind # "search",
           NEW items \in SUBSET Ids, items \subseteq KeptOf(s, u),
           u.kind = "in_flight" => items = KeptOf(s, u) \cap u.embedded,
           NEW v, v = [u EXCEPT !.pc = "mark", !.items = items]
    PROVE  Fits(s, all, p, v)
<1>1. Sane(s) /\ u.kind \in {"in_flight", "storyline"}
  BY DEF AllOK, ReaderOK, Reader, Kinds, Scanned
<1>2. /\ v \in Reader /\ v.pc = "mark" /\ v.items = items
      /\ v.kind = u.kind /\ v.repo = u.repo /\ v.mark = u.mark /\ v.count = u.count
      /\ v.seen = u.seen /\ v.steady = u.steady /\ v.late = u.late /\ v.blind = u.blind
  BY DEF Reader
<1>3. v.items \subseteq Partial(s, u) /\ (u.kind = "in_flight" => Covered(s, u) \subseteq v.items)
  BY <1>1, <1>2, KeptFacts
<1>4. Partial(s, v) = {} /\ Covered(s, v) = v.items
  BY <1>2 DEF Partial, Covered, Scanned
<1>5. u.pc \in Scanned /\ v.pc \in Scanned \cup {"insert", "mark"} /\ v.pc \notin Scanned
  BY <1>2 DEF Scanned
<1>6. /\ v.pc = "insert" => u.kind = "search"
      /\ v.pc = "mark" => u.kind \in {"in_flight", "storyline"}
      /\ u.kind = "search" => v.mark = u.mark /\ v.count = u.count
      /\ v.pc \in Scanned => v.all = u.all
      /\ v.pc = "mark" => v.items \subseteq Partial(s, u)
  BY <1>1, <1>2, <1>3, <1>5
<1>7. /\ Partial(s, v) \subseteq Partial(s, u) \cup Of(u.repo, s.canonical)
      /\ u.kind \in {"search", "in_flight"} =>
            Covered(s, u) \cap Of(u.repo, s.searchable) \subseteq Holds(s, v)
  BY <1>3, <1>4 DEF Holds
<1> QED
  BY <1>2, <1>5, <1>6, <1>7, BuildMoves

(* InsertIndex: the request that built the index has its own hits.         *)
LEMMA InsertFits ==
    ASSUME NEW s, NEW all, AllOK(s, all), NEW p \in Readers, NEW v, all[p].pc = "insert",
           v = [all[p] EXCEPT !.pc = "resolve"]
    PROVE  /\ Fits(s, all, p, v)
           /\ Keyed(all[p]) => Source(s, all, all[p].repo, all[p].mark, all[p].count,
                                      all[p].hits, all[p].hits \cup Excused(s, all[p]))
<1>1. PICK u \in Reader : u = all[p]
  BY DEF AllOK
<1>2. /\ ReaderOK(s, u) /\ u.pc = "insert" /\ u.hits \subseteq Ids /\ u.kind = "search"
      /\ Active(u)
  BY <1>1 DEF AllOK, Reader, ReaderOK, Active
<1>3. /\ v \in Reader /\ v.pc = "resolve" /\ v.hits = u.hits
      /\ v.kind = u.kind /\ v.repo = u.repo /\ v.seen = u.seen
      /\ v.steady = u.steady /\ v.late = u.late /\ v.blind = u.blind
  BY <1>1 DEF Reader
<1>4. /\ Partial(s, u) = u.hits /\ Covered(s, u) = u.hits
      /\ Partial(s, v) = {} /\ Covered(s, v) = u.hits
  BY <1>2, <1>3 DEF Partial, Covered, Scanned
<1>5. Holds(s, u) = u.hits \cup Excused(s, u) /\ Holds(s, v) = Holds(s, u)
  BY <1>3, <1>4 DEF Holds, Excused
<1>6. u.hits \subseteq u.seen /\ (Keyed(u) => u.steady \subseteq Holds(s, u)) /\ (Keyed(v) <=> Keyed(u))
  BY <1>2, <1>3, <1>4 DEF ReaderOK, Keyed
<1>7. ReaderOK(s, v)
  BY <1>2, <1>3, <1>4, <1>5, <1>6 DEF ReaderOK, Active, Scanned
<1>8. Joins(s, all[p], v) /\ ~Building(v)
  BY <1>3 DEF Joins, Building, Scanned
<1>9. Keyed(u) => Source(s, all, u.repo, u.mark, u.count, Partial(s, u), Holds(s, u))
  BY <1>1, <1>2 DEF AllOK, Building
<1> QED
  BY <1>1, <1>3, <1>4, <1>5, <1>7, <1>8, <1>9 DEF Fits

(* Resolve, ReadMark, and the answers of the layout.                       *)
LEMMA AnswerFits ==
    ASSUME NEW s, NEW all, AllOK(s, all), NEW p \in Readers, NEW v \in Reader, NEW u \in Reader,
           u = all[p], Active(u), v.pc = "answered", v.kind = u.kind, v.seen = u.seen,
           v.steady = u.steady, v.late = u.late, v.blind = u.blind,
           \/ u.pc = "resolve" /\ v.items = u.hits \cap s.stored
           \/ u.pc = "mark" /\ v.items = u.items
           \/ u.kind = "layout"
    PROVE  Fits(s, all, p, v)
<1>1. ReaderOK(s, u) /\ Sane(s) /\ v.items \subseteq Ids
  BY DEF AllOK, Reader
<1>2. u.steady \subseteq s.stored
  BY <1>1 DEF ReaderOK, Of, Sane
<1>3. /\ Partial(s, v) = {} /\ Covered(s, v) = v.items
      /\ Excused(s, v) = Excused(s, u) /\ (Keyed(v) <=> Keyed(u))
  BY <1>1 DEF Partial, Covered, Scanned, Excused, Keyed
<1>4. CASE u.pc = "resolve" /\ v.items = u.hits \cap s.stored
  <2>1. u.kind = "search" /\ (Keyed(u) => u.hits \subseteq u.seen \cup s.relabelled)
    BY <1>1, <1>4 DEF ReaderOK
  <2>2. Keyed(u) => u.steady \subseteq Holds(s, u)
    BY <1>1, <1>4, <2>1 DEF ReaderOK
  <2>3. Keyed(u) => u.steady \subseteq u.hits \cup Excused(s, u)
    BY <1>4, <2>2 DEF Holds, Covered, Scanned
  <2>4. Keyed(v) => v.steady \subseteq Holds(s, v)
    BY <1>2, <1>3, <1>4, <2>3 DEF Holds
  <2>5. ReaderOK(s, v)
    BY <1>1, <1>3, <1>4, <2>1, <2>4 DEF ReaderOK, Active, Scanned
  <2> QED
    BY <2>5 DEF Fits, Joins, Building, Scanned
<1>5. CASE u.pc = "mark" /\ v.items = u.items
  <2>1. u.kind \in {"in_flight", "storyline"} /\ u.items \subseteq u.seen
    BY <1>1, <1>5 DEF ReaderOK
  <2>2. u.kind = "in_flight" /\ Keyed(u) => u.steady \subseteq u.items \cup Excused(s, u)
    BY <1>1, <1>5 DEF ReaderOK, Holds, Covered, Scanned
  <2>3. v.kind = "in_flight" /\ Keyed(v) => v.steady \subseteq Holds(s, v)
    BY <1>3, <1>5, <2>2 DEF Holds
  <2>4. ReaderOK(s, v)
    BY <1>1, <1>3, <1>5, <2>1, <2>3 DEF ReaderOK, Active, Scanned
  <2> QED
    BY <2>4 DEF Fits, Joins, Building, Scanned
<1>6. CASE u.kind = "layout"
  <2>1. ReaderOK(s, v)
    BY <1>1, <1>3, <1>6 DEF ReaderOK, Active, Scanned
  <2> QED
    BY <2>1 DEF Fits, Joins, Building, Scanned
<1> QED
  BY <1>4, <1>5, <1>6

-----------------------------------------------------------------------------
(* The store behind a view.                                                *)

(* The fields of the view.                                                 *)
LEMMA ViewFields ==
    /\ View.stored = Stored /\ View.embedded = Embedded /\ View.contains = contains
    /\ View.spine = spine /\ View.marks = marks /\ View.count = NodeCount
    /\ View.labelled = Labelled /\ View.merged = Merged /\ View.canonical = Canonical
    /\ View.searchable = Searchable /\ View.unkeyed = unkeyed /\ View.relabelled = relabelled
BY DEF View

(* The rows and the Branch nodes are finitely many.                        *)
LEMMA CountIsNat ==
    ASSUME RecallTypeOK
    PROVE  /\ IsFiniteSet(Ids) /\ IsFiniteSet(Stored) /\ IsFiniteSet(BranchNodes)
           /\ Cardinality(Stored) \in Nat /\ Cardinality(BranchNodes) \in Nat
           /\ NodeCount \in Nat
<1>1. IsFiniteSet(Ids)
  BY ReadCachesAssumption, FS_Union DEF Ids
<1>2. Stored \subseteq Ids /\ BranchNodes \subseteq Commits
  BY ReadCachesAssumption DEF Stored, BranchNodes
<1>3. IsFiniteSet(Stored) /\ IsFiniteSet(BranchNodes)
  BY <1>1, <1>2, ReadCachesAssumption, FS_Subset
<1>4. Cardinality(Stored) \in Nat /\ Cardinality(BranchNodes) \in Nat
  BY <1>3, FS_CardinalityType
<1> QED
  BY <1>1, <1>3, <1>4 DEF NodeCount

(* What is searchable although a branch contains it is reached.            *)
LEMMA SearchableReached ==
    ASSUME RecallTypeOK, NEW i \in Searchable, i \in Labelled
    PROVE  /\ marks[Tenant].head \in Stored
           /\ i \in Reachable(Stored, marks[Tenant].head, spine)
<1>1. PICK t \in Tips : i \in contains[t]
  BY DEF Labelled
<1>2. t \in BranchNodes
  BY <1>1 DEF BranchNodes
<1>3. i \in UNION {contains[b] : b \in BranchNodes}
  BY <1>1, <1>2
<1>4. i \in Reachable(Stored, marks[Tenant].head, spine)
  BY <1>3 DEF Searchable, Recallable, InFlight
<1> QED
  BY <1>4 DEF Reachable

(* A view is sane.                                                         *)
LEMMA ViewSane ==
    ASSUME RecallTypeOK, StoreOK
    PROVE  Sane(View)
<1>1. Stored \subseteq Ids /\ Embedded \subseteq Stored
  BY DEF Stored, Embedded
<1>2. marks \in [Repos -> Watermark] /\ spine \in SUBSET (Commits \X Commits)
  BY DEF RecallTypeOK
<1>3. \A e \in spine : e[2] \in ParentsOf[e[1]]
  BY DEF StoreOK
<1>4. Labelled \subseteq Commits
  BY DEF RecallTypeOK, Labelled
<1>5. \A i : i \in Labelled <=> \E b \in Tips : i \in contains[b]
  BY DEF Labelled
<1>6. marks[Tenant].head # NoCommit => Merged = Ancestors(marks[Tenant].head)
  BY DEF Merged
<1>7. Canonical = Stored \ (Labelled \ Merged)
  BY DEF Canonical
<1>8. Searchable \subseteq Embedded
  BY DEF Searchable
<1>9. NodeCount \in Nat
  BY CountIsNat
<1> QED
  BY <1>1, <1>2, <1>3, <1>4, <1>5, <1>6, <1>7, <1>8, <1>9, SearchableReached, ViewFields DEF Sane

(* The requests, as the lemmas about them take them.                       *)
LEMMA AllFine ==
    ASSUME RecallIInv
    PROVE  AllOK(View, rd)
BY ViewSane DEF RecallIInv, RecallTypeOK, ReadersOK, SourcesOK, AllOK

(* A step that leaves the store leaves the view.                           *)
LEMMA ViewUnchanged ==
    ASSUME UNCHANGED <<rows, contains, spine, marks, unkeyed, relabelled>>
    PROVE  /\ View' = View /\ Stored' = Stored /\ Labelled' = Labelled /\ Merged' = Merged
           /\ NodeCount' = NodeCount /\ Canonical' = Canonical /\ Searchable' = Searchable
           /\ BranchNodes' = BranchNodes
<1>1. Stored' = Stored /\ Embedded' = Embedded /\ BranchNodes' = BranchNodes
  BY DEF Stored, Embedded, BranchNodes
<1>2. NodeCount' = NodeCount
  BY <1>1 DEF NodeCount
<1>3. Labelled' = Labelled
  BY DEF Labelled
<1>4. Merged' = Merged
  BY DEF Merged
<1>5. Canonical' = Canonical
  BY <1>1, <1>3, <1>4 DEF Canonical
<1>6. Reachable(Stored, marks[Tenant].head, spine)' = Reachable(Stored, marks[Tenant].head, spine)
  BY <1>1 DEF Reachable
<1>7. Recallable' = Recallable
  BY <1>1, <1>6 DEF Recallable, InFlight
<1>8. Searchable' = Searchable
  BY <1>1, <1>7 DEF Searchable
<1> QED
  BY <1>1, <1>2, <1>3, <1>4, <1>5, <1>8 DEF View

-----------------------------------------------------------------------------
(* The steps of the requests.                                              *)

(* A request that moves to where it fits keeps everything.                 *)
LEMMA MoveKeeps ==
    ASSUME RecallIInv, NEW p \in Readers, NEW v, Go(p, v), Fits(View, rd, p, v),
           UNCHANGED Writerless,
           cache' \in [Repos -> SUBSET Entry], \A r \in Repos : Cardinality(cache'[r]) <= 1,
           \A r \in Repos : \A e \in cache'[r] : Keyed(e) =>
              Source(View, rd, r, e.mark, e.count, e.index, IndexHolds(View, e)),
           holder' \in Readers \cup {None}, requests' \in 0 .. world.requests,
           scene' \in SUBSET Scene, Cardinality(scene') <= 1, missed' \subseteq Claims,
           \A kept \in scene' : SceneFrom(kept, Stored, BranchNodes, acked \ pending, missed')
    PROVE  RecallIInv'
<1>1. UNCHANGED <<rows, contains, spine, marks, branchTip, ingesting, pending, acked,
                  unkeyed, relabelled, rewritten, puts, world>>
  BY DEF Writerless, store
<1>2. /\ View' = View /\ Stored' = Stored /\ Labelled' = Labelled /\ Merged' = Merged
      /\ BranchNodes' = BranchNodes
  BY <1>1, ViewUnchanged
<1>3. rd \in [Readers -> Reader] /\ v \in Reader
  BY DEF RecallIInv, RecallTypeOK, Fits
<1>4. rd' = [rd EXCEPT ![p] = v] /\ rd' \in [Readers -> Reader]
  BY <1>3 DEF Go
<1>5. rd'[p] = v /\ \A q \in Readers : q # p => rd'[q] = rd[q]
  BY <1>3, <1>4
<1>6. RecallTypeOK'
  BY <1>1, <1>4 DEF RecallIInv, RecallTypeOK
<1>7. StoreOK'
  BY <1>1, <1>2 DEF RecallIInv, StoreOK
<1>8. HistoryOK'
  BY <1>1, <1>2 DEF RecallIInv, HistoryOK
<1>9. SceneOK'
  BY <1>1, <1>2 DEF SceneOK
<1>10. ReadersOK'
  BY <1>2, <1>5 DEF RecallIInv, ReadersOK, Fits
<1>11. \A r, m, c, has, holds :
          Source(View, rd, r, m, c, has, holds) => Source(View, rd', r, m, c, has, holds)
  BY <1>3, <1>4, MoveKeepsSource DEF Fits
<1>12. \A q \in Readers : Building(rd'[q]) =>
          Source(View, rd', rd'[q].repo, rd'[q].mark, rd'[q].count,
                 Partial(View, rd'[q]), Holds(View, rd'[q]))
  <2> SUFFICES ASSUME NEW q \in Readers, Building(rd'[q])
               PROVE  Source(View, rd', rd'[q].repo, rd'[q].mark, rd'[q].count,
                             Partial(View, rd'[q]), Holds(View, rd'[q]))
    OBVIOUS
  <2>1. CASE q = p
    <3>1. Source(View, rd, v.repo, v.mark, v.count, Partial(View, v), Holds(View, v))
      BY <1>5, <2>1 DEF Fits
    <3> QED
      BY <1>5, <1>11, <2>1, <3>1
  <2>2. CASE q # p
    <3>1. Source(View, rd, rd[q].repo, rd[q].mark, rd[q].count,
                 Partial(View, rd[q]), Holds(View, rd[q]))
      BY <1>5, <2>2 DEF RecallIInv, SourcesOK
    <3> QED
      BY <1>5, <1>11, <2>2, <3>1
  <2> QED
    BY <2>1, <2>2
<1>13. \A r \in Repos : \A e \in cache'[r] : Keyed(e) =>
          Source(View, rd', r, e.mark, e.count, e.index, IndexHolds(View, e))
  BY <1>11
<1>14. SourcesOK'
  BY <1>2, <1>12, <1>13 DEF SourcesOK
<1> QED
  BY <1>6, <1>7, <1>8, <1>9, <1>10, <1>14 DEF RecallIInv

(* The same when neither the indexes nor the scene change.                 *)
LEMMA PlainMove ==
    ASSUME RecallIInv, NEW p \in Readers, NEW v, Go(p, v), Fits(View, rd, p, v),
           UNCHANGED <<Writerless, cache, scene, missed>>,
           holder' \in Readers \cup {None}, requests' \in 0 .. world.requests
    PROVE  RecallIInv'
<1>1. /\ cache' = cache /\ scene' = scene /\ missed' = missed
      /\ UNCHANGED Writerless
  OBVIOUS
<1>2. /\ cache \in [Repos -> SUBSET Entry] /\ \A r \in Repos : Cardinality(cache[r]) <= 1
      /\ scene \in SUBSET Scene /\ Cardinality(scene) <= 1 /\ missed \subseteq Claims
  BY DEF RecallIInv, RecallTypeOK
<1>3. \A r \in Repos : \A e \in cache[r] : Keyed(e) =>
          Source(View, rd, r, e.mark, e.count, e.index, IndexHolds(View, e))
  BY DEF RecallIInv, SourcesOK
<1>4. \A kept \in scene : SceneFrom(kept, Stored, BranchNodes, acked \ pending, missed)
  BY DEF RecallIInv, SceneOK
<1> QED
  BY <1>1, <1>2, <1>3, <1>4, MoveKeeps

(* A request begins.                                                       *)
LEMMA StepStart ==
    ASSUME RecallIInv, NEW p \in world.readers, NEW r \in world.repos, NEW kind \in world.kinds,
           Start(p, kind, r)
    PROVE  RecallIInv'
<1>1. p \in Readers /\ r \in Repos /\ kind \in Kinds /\ world.requests \in Nat
  BY ReadCachesAssumption DEF RecallIInv, RecallTypeOK
<1>2. PICK m \in WatermarkOf(r) :
         Go(p, [Idle EXCEPT !.pc = CASE kind = "search" -> "count"
                                     [] kind = "layout" -> "lookup"
                                     [] OTHER -> "scan",
                            !.kind = kind, !.repo = r,
                            !.mark = IF kind = "search" THEN m ELSE @,
                            !.blind = IF kind = "search" THEN Unseen(m, r, "key") ELSE @,
                            !.seen = Of(r, Canonical),
                            !.steady = Of(r, Searchable) \ unkeyed])
  BY DEF Start
<1>3. m \in Watermark
  <2>1. marks[r] \in Watermark /\ NoMark \in Watermark
    BY <1>1 DEF RecallIInv, RecallTypeOK, Watermark, NoMark
  <2> QED
    BY <2>1 DEF WatermarkOf
<1>4. PICK blind \in Blindness : blind = Unseen(m, r, "key")
  BY DEF Unseen, Blindness
<1>5. m # marks[r] => "key" \in blind
  BY <1>4 DEF Unseen
<1>6. PICK v : v = [Idle EXCEPT !.pc = CASE kind = "search" -> "count"
                                         [] kind = "layout" -> "lookup"
                                         [] OTHER -> "scan",
                                !.kind = kind, !.repo = r,
                                !.mark = IF kind = "search" THEN m ELSE @,
                                !.blind = IF kind = "search" THEN blind ELSE @,
                                !.seen = Of(r, Canonical),
                                !.steady = Of(r, Searchable) \ unkeyed]
  OBVIOUS
<1>7. Fits(View, rd, p, v)
  BY <1>1, <1>3, <1>5, <1>6, AllFine, StartFits, ViewFields
<1>8. Go(p, v) /\ UNCHANGED <<Writerless, cache, scene, missed>> /\ holder' = holder
  BY <1>2, <1>4, <1>6 DEF Start, caches
<1>9. requests' \in 0 .. world.requests /\ holder' \in Readers \cup {None}
  BY <1>1, <1>8 DEF Start, RecallIInv, RecallTypeOK
<1> QED
  BY <1>1, <1>7, <1>8, <1>9, PlainMove

(* The key is read.                                                        *)
LEMMA StepReadCount ==
    ASSUME RecallIInv, NEW p \in Readers, ReadCount(p)
    PROVE  RecallIInv'
<1>1. PICK v : v = [rd[p] EXCEPT !.pc = "lock", !.count = NodeCount]
  OBVIOUS
<1>2. Fits(View, rd, p, v)
  BY <1>1, AllFine, CountFits, ViewFields DEF ReadCount
<1>3. Go(p, v) /\ UNCHANGED <<Writerless, cache, scene, missed>> /\ holder' = holder /\ requests' = requests
  BY <1>1 DEF ReadCount, caches
<1>4. requests' \in 0 .. world.requests /\ holder' \in Readers \cup {None}
  BY <1>3 DEF RecallIInv, RecallTypeOK
<1> QED
  BY <1>2, <1>3, <1>4, PlainMove

(* An index under the key is used.                                         *)
LEMMA StepHit ==
    ASSUME RecallIInv, NEW p \in Readers, Hit(p)
    PROVE  RecallIInv'
<1>1. PICK e \in cache[rd[p].repo] :
          /\ Matches(e, p)
          /\ Go(p, [rd[p] EXCEPT !.pc = "resolve", !.hits = e.index, !.blind = @ \cup e.blind])
  BY DEF Hit
<1>2. PICK v : v = [rd[p] EXCEPT !.pc = "resolve", !.hits = e.index, !.blind = @ \cup e.blind]
  OBVIOUS
<1>3. rd[p].repo \in Repos /\ e \in Entry
  <2>1. rd[p] \in Reader
    BY DEF RecallIInv, RecallTypeOK
  <2>2. rd[p].repo \in Repos
    BY <2>1 DEF Reader
  <2> QED
    BY <1>1, <2>2 DEF RecallIInv, RecallTypeOK
<1>4. Keyed(e) => Source(View, rd, rd[p].repo, rd[p].mark, rd[p].count,
                         e.index, IndexHolds(View, e))
  BY <1>1, <1>3 DEF RecallIInv, SourcesOK, Matches
<1>5. rd[p].pc = "lock" /\ AllOK(View, rd)
  BY AllFine DEF Hit
<1>6. Fits(View, rd, p, v)
  BY <1>2, <1>3, <1>4, <1>5, HitFits
<1>7. Go(p, v) /\ UNCHANGED <<Writerless, cache, scene, missed>> /\ holder' = holder /\ requests' = requests
  BY <1>1, <1>2 DEF Hit, caches
<1>8. requests' \in 0 .. world.requests /\ holder' \in Readers \cup {None}
  BY <1>7 DEF RecallIInv, RecallTypeOK
<1> QED
  BY <1>6, <1>7, <1>8, PlainMove

(* The lock is taken for a build.                                          *)
LEMMA StepMiss ==
    ASSUME RecallIInv, NEW p \in Readers, Miss(p)
    PROVE  RecallIInv'
<1>1. PICK v : v = [rd[p] EXCEPT !.pc = "scan"]
  OBVIOUS
<1>2. Fits(View, rd, p, v)
  BY <1>1, AllFine, GoesToScan DEF Miss
<1>3. Go(p, v) /\ UNCHANGED <<Writerless, cache, scene, missed>> /\ holder' = p /\ requests' = requests
  BY <1>1 DEF Miss
<1>4. requests' \in 0 .. world.requests /\ holder' \in Readers \cup {None}
  BY <1>3 DEF RecallIInv, RecallTypeOK
<1> QED
  BY <1>2, <1>3, <1>4, PlainMove

(* The scan.                                                               *)
LEMMA StepScanNodes ==
    ASSUME RecallIInv, NEW p \in Readers, ScanNodes(p)
    PROVE  RecallIInv'
<1>1. PICK v : v = [rd[p] EXCEPT !.pc = IF rd[p].kind = "layout" THEN "store" ELSE "head",
                                 !.all = Stored, !.embedded = Embedded,
                                 !.branches = BranchNodes, !.late = {}]
  OBVIOUS
<1>2. BranchNodes \in SUBSET Tips /\ \A b \in Tips : b \notin BranchNodes <=> contains[b] = {}
  BY DEF BranchNodes
<1>3. Fits(View, rd, p, v)
  BY <1>1, <1>2, AllFine, ScanFits, ViewFields DEF ScanNodes
<1>4. Go(p, v) /\ UNCHANGED <<Writerless, cache, scene, missed>> /\ holder' = holder /\ requests' = requests
  BY <1>1 DEF ScanNodes, caches
<1>5. requests' \in 0 .. world.requests /\ holder' \in Readers \cup {None}
  BY <1>4 DEF RecallIInv, RecallTypeOK
<1> QED
  BY <1>3, <1>4, <1>5, PlainMove

(* The head.                                                               *)
LEMMA StepReadHead ==
    ASSUME RecallIInv, NEW p \in Readers, ReadHead(p)
    PROVE  RecallIInv'
<1>1. PICK m \in WatermarkOf(Tenant) :
         Go(p, [rd[p] EXCEPT !.pc = "spine", !.reach = {m.head} \cap rd[p].all,
                             !.blind = @ \cup Unseen(m, Tenant, "head")])
  BY DEF ReadHead
<1>2. PICK blind \in Blindness : blind = rd[p].blind \cup Unseen(m, Tenant, "head")
  <2>1. rd[p] \in Reader
    BY DEF RecallIInv, RecallTypeOK
  <2>2. rd[p].blind \in Blindness
    BY <2>1 DEF Reader
  <2> QED
    BY <2>2 DEF Unseen, Blindness
<1>3. /\ m = marks[Tenant] \/ m = NoMark
      /\ m # marks[Tenant] => "head" \in blind
      /\ rd[p].blind \subseteq blind
  BY <1>2 DEF WatermarkOf, Unseen
<1>4. PICK v : v = [rd[p] EXCEPT !.pc = "spine", !.reach = {m.head} \cap rd[p].all, !.blind = blind]
  OBVIOUS
<1>5. rd[p].pc = "head" /\ AllOK(View, rd)
  BY AllFine DEF ReadHead
<1>6. Fits(View, rd, p, v)
  BY <1>3, <1>4, <1>5, HeadFits, ViewFields
<1>7. Go(p, v) /\ UNCHANGED <<Writerless, cache, scene, missed>> /\ holder' = holder /\ requests' = requests
  BY <1>1, <1>2, <1>4 DEF ReadHead, caches
<1>8. requests' \in 0 .. world.requests /\ holder' \in Readers \cup {None}
  BY <1>7 DEF RecallIInv, RecallTypeOK
<1> QED
  BY <1>6, <1>7, <1>8, PlainMove

(* The spine.                                                              *)
LEMMA StepReadSpine ==
    ASSUME RecallIInv, NEW p \in Readers, ReadSpine(p)
    PROVE  RecallIInv'
<1>1. PICK v : v = [rd[p] EXCEPT !.pc = "contains",
                       !.reach = UNION {Reachable(rd[p].all, h, spine) : h \in rd[p].reach}]
  OBVIOUS
<1>2. Fits(View, rd, p, v)
  BY <1>1, AllFine, SpineFits, ViewFields DEF ReadSpine
<1>3. Go(p, v) /\ UNCHANGED <<Writerless, cache, scene, missed>> /\ holder' = holder /\ requests' = requests
  BY <1>1 DEF ReadSpine, caches
<1>4. requests' \in 0 .. world.requests /\ holder' \in Readers \cup {None}
  BY <1>3 DEF RecallIInv, RecallTypeOK
<1> QED
  BY <1>2, <1>3, <1>4, PlainMove

(* The BranchContains edges.                                               *)
LEMMA StepReadContains ==
    ASSUME RecallIInv, NEW p \in Readers, ReadContains(p)
    PROVE  RecallIInv'
<1>1. PICK u \in Reader : u = rd[p]
  BY DEF RecallIInv, RecallTypeOK
<1>2. u.pc = "contains" /\ AllOK(View, rd) /\ Sane(View)
  BY <1>1, AllFine DEF ReadContains, AllOK
<1>3. Kept(p) = KeptOf(View, u)
  BY <1>1, ViewFields DEF Kept, KeptOf, InFlight
<1>4. KeptOf(View, u) \subseteq Ids
  BY <1>2, KeptFacts
<1>5. /\ UNCHANGED <<Writerless, cache, scene, missed>> /\ holder' = holder /\ requests' = requests
      /\ Go(p, CASE u.kind = "search" ->
                    [u EXCEPT !.pc = "insert", !.hits = Kept(p) \cap u.embedded, !.all = {},
                              !.embedded = {}, !.branches = {}, !.reach = {}]
                 [] u.kind = "in_flight" ->
                    [u EXCEPT !.pc = "mark", !.items = Kept(p) \cap u.embedded]
                 [] OTHER -> [u EXCEPT !.pc = "mark", !.items = Kept(p)])
  BY <1>1 DEF ReadContains, caches
<1>6. requests' \in 0 .. world.requests /\ holder' \in Readers \cup {None}
  BY <1>5 DEF RecallIInv, RecallTypeOK
<1>7. CASE u.kind = "search"
  <2>1. PICK hits \in SUBSET Ids : hits = KeptOf(View, u) \cap u.embedded
    BY <1>4
  <2>2. PICK v : v = [u EXCEPT !.pc = "insert", !.hits = hits, !.all = {},
                               !.embedded = {}, !.branches = {}, !.reach = {}]
    OBVIOUS
  <2>3. Fits(View, rd, p, v)
    BY <1>1, <1>2, <1>7, <2>1, <2>2, BuiltFits
  <2>4. Go(p, v)
    BY <1>3, <1>5, <1>7, <2>1, <2>2
  <2> QED
    BY <1>5, <1>6, <2>3, <2>4, PlainMove
<1>8. CASE u.kind # "search"
  <2>1. PICK items \in SUBSET Ids :
             items = IF u.kind = "in_flight" THEN KeptOf(View, u) \cap u.embedded ELSE KeptOf(View, u)
    BY <1>4
  <2>2. PICK v : v = [u EXCEPT !.pc = "mark", !.items = items]
    OBVIOUS
  <2>3. Fits(View, rd, p, v)
    BY <1>1, <1>2, <1>8, <2>1, <2>2, ItemsFit
  <2>4. Go(p, v)
    BY <1>3, <1>5, <1>8, <2>1, <2>2
  <2> QED
    BY <1>5, <1>6, <2>3, <2>4, PlainMove
<1> QED
  BY <1>7, <1>8

(* The index is kept under the key that was read before the build.         *)
LEMMA StepInsertIndex ==
    ASSUME RecallIInv, NEW p \in Readers, InsertIndex(p)
    PROVE  RecallIInv'
<1>1. PICK u \in Reader : u = rd[p]
  BY DEF RecallIInv, RecallTypeOK
<1>2. PICK v : v = [rd[p] EXCEPT !.pc = "resolve"]
  OBVIOUS
<1>3. PICK e : e = [mark |-> u.mark, count |-> u.count, index |-> u.hits, blind |-> u.blind]
  OBVIOUS
<1>4. /\ e \in Entry /\ e.mark = u.mark /\ e.count = u.count /\ e.index = u.hits
      /\ e.blind = u.blind /\ u.repo \in Repos
  BY <1>3 DEF Entry, Reader
<1>5. /\ Fits(View, rd, p, v)
      /\ Keyed(u) => Source(View, rd, u.repo, u.mark, u.count, u.hits, u.hits \cup Excused(View, u))
  BY <1>1, <1>2, AllFine, InsertFits DEF InsertIndex
<1>6. Keyed(e) => Source(View, rd, u.repo, e.mark, e.count, e.index, IndexHolds(View, e))
  BY <1>4, <1>5 DEF Keyed, IndexHolds, Excused
<1>7. /\ cache \in [Repos -> SUBSET Entry] /\ \A r \in Repos : Cardinality(cache[r]) <= 1
      /\ scene \in SUBSET Scene /\ Cardinality(scene) <= 1 /\ missed \subseteq Claims
      /\ requests \in 0 .. world.requests
  BY DEF RecallIInv, RecallTypeOK
<1>8. cache' = [cache EXCEPT ![u.repo] = {e}]
  BY <1>1, <1>3 DEF InsertIndex, EntryKey
<1>9. Cardinality({e}) = 1
  BY FS_Singleton
<1>10. cache' \in [Repos -> SUBSET Entry] /\ \A r \in Repos : Cardinality(cache'[r]) <= 1
  BY <1>4, <1>7, <1>8, <1>9
<1>11. \A r \in Repos : \A d \in cache'[r] : Keyed(d) =>
          Source(View, rd, r, d.mark, d.count, d.index, IndexHolds(View, d))
  BY <1>4, <1>7, <1>8, <1>6 DEF RecallIInv, SourcesOK
<1>12. /\ Go(p, v) /\ UNCHANGED Writerless /\ scene' = scene /\ missed' = missed
       /\ requests' = requests /\ holder' = None
  BY <1>2 DEF InsertIndex
<1>13. \A kept \in scene : SceneFrom(kept, Stored, BranchNodes, acked \ pending, missed)
  BY DEF RecallIInv, SceneOK
<1> QED
  BY <1>5, <1>7, <1>10, <1>11, <1>12, <1>13, MoveKeeps

(* The hits are resolved.                                                  *)
LEMMA StepResolve ==
    ASSUME RecallIInv, NEW p \in Readers, Resolve(p)
    PROVE  RecallIInv'
<1>1. PICK u \in Reader : u = rd[p]
  BY DEF RecallIInv, RecallTypeOK
<1>2. PICK v : v = [u EXCEPT !.pc = "answered", !.items = u.hits \cap Stored]
  OBVIOUS
<1>3. /\ v \in Reader /\ v.pc = "answered" /\ v.kind = u.kind /\ v.seen = u.seen
      /\ v.steady = u.steady /\ v.late = u.late /\ v.blind = u.blind /\ v.items = u.hits \cap Stored
  BY <1>2 DEF Reader
<1>4. u.pc = "resolve" /\ Active(u)
  BY <1>1 DEF Resolve, Active
<1>5. Fits(View, rd, p, v)
  BY <1>1, <1>3, <1>4, AllFine, AnswerFits, ViewFields
<1>6. Go(p, v) /\ UNCHANGED <<Writerless, cache, scene, missed>> /\ holder' = holder /\ requests' = requests
  BY <1>1, <1>2 DEF Resolve, caches
<1>7. requests' \in 0 .. world.requests /\ holder' \in Readers \cup {None}
  BY <1>6 DEF RecallIInv, RecallTypeOK
<1> QED
  BY <1>5, <1>6, <1>7, PlainMove

(* The watermark that is reported.                                         *)
LEMMA StepReadMark ==
    ASSUME RecallIInv, NEW p \in Readers, ReadMark(p)
    PROVE  RecallIInv'
<1>1. PICK u \in Reader : u = rd[p]
  BY DEF RecallIInv, RecallTypeOK
<1>2. PICK m \in WatermarkOf(u.repo) : Go(p, [u EXCEPT !.pc = "answered", !.mark = m])
  BY <1>1 DEF ReadMark
<1>3. PICK v : v = [u EXCEPT !.pc = "answered", !.mark = m]
  OBVIOUS
<1>4. m \in Watermark
  <2>1. marks[u.repo] \in Watermark /\ NoMark \in Watermark
    BY DEF RecallIInv, RecallTypeOK, Reader, Watermark, NoMark
  <2> QED
    BY <2>1 DEF WatermarkOf
<1>5. /\ v \in Reader /\ v.pc = "answered" /\ v.kind = u.kind /\ v.seen = u.seen
      /\ v.steady = u.steady /\ v.late = u.late /\ v.blind = u.blind /\ v.items = u.items
  BY <1>3, <1>4 DEF Reader
<1>6. u.pc = "mark" /\ Active(u)
  BY <1>1 DEF ReadMark, Active
<1>7. Fits(View, rd, p, v)
  BY <1>1, <1>5, <1>6, AllFine, AnswerFits
<1>8. Go(p, v) /\ UNCHANGED <<Writerless, cache, scene, missed>> /\ holder' = holder /\ requests' = requests
  BY <1>3, <1>2 DEF ReadMark, caches
<1>9. requests' \in 0 .. world.requests /\ holder' \in Readers \cup {None}
  BY <1>8 DEF RecallIInv, RecallTypeOK
<1> QED
  BY <1>7, <1>8, <1>9, PlainMove

(* A request ends, answered or failed.                                     *)
LEMMA StepEnds ==
    ASSUME RecallIInv, NEW p \in Readers, RequestFails(p) \/ Leave(p)
    PROVE  RecallIInv'
<1>1. Go(p, Idle) /\ UNCHANGED <<Writerless, cache, scene, missed>> /\ requests' = requests
  BY DEF RequestFails, Leave, caches
<1>2. holder' \in {holder, None}
  BY DEF RequestFails, Leave, caches
<1>3. requests' \in 0 .. world.requests /\ holder' \in Readers \cup {None}
  BY <1>1, <1>2 DEF RecallIInv, RecallTypeOK
<1>4. Fits(View, rd, p, Idle)
  BY IdleFits
<1> QED
  BY <1>1, <1>3, <1>4, PlainMove

(* A layout is answered from the kept scene, or goes on to scan.           *)
LEMMA StepLookupScene ==
    ASSUME RecallIInv, NEW p \in Readers, LookupScene(p)
    PROVE  RecallIInv'
<1>1. PICK u \in Reader : u = rd[p]
  BY DEF RecallIInv, RecallTypeOK
<1>2. UNCHANGED <<Writerless, cache, scene, missed>> /\ holder' = holder /\ requests' = requests
  BY DEF LookupScene, caches
<1>3. requests' \in 0 .. world.requests /\ holder' \in Readers \cup {None}
  BY <1>2 DEF RecallIInv, RecallTypeOK
<1>4. u.pc = "lookup" /\ AllOK(View, rd)
  BY <1>1, AllFine DEF LookupScene
<1>5. u.kind = "layout" /\ Active(u)
  BY <1>1, <1>4 DEF AllOK, ReaderOK, Active
<1>6. CASE scene # {}
  <2>1. PICK items \in SUBSET Ids : items = UNION {kept.items : kept \in scene}
    <3>1. scene \in SUBSET Scene
      BY DEF RecallIInv, RecallTypeOK
    <3> QED
      BY <3>1 DEF Scene
  <2>2. PICK v : v = [u EXCEPT !.pc = "answered", !.items = items]
    OBVIOUS
  <2>3. /\ v \in Reader /\ v.pc = "answered" /\ v.kind = u.kind /\ v.seen = u.seen
        /\ v.steady = u.steady /\ v.late = u.late /\ v.blind = u.blind
    BY <2>2 DEF Reader
  <2>4. Fits(View, rd, p, v)
    BY <1>1, <1>4, <1>5, <2>3, AnswerFits
  <2>5. Go(p, v)
    BY <1>1, <1>6, <2>1, <2>2 DEF LookupScene
  <2> QED
    BY <1>2, <1>3, <2>4, <2>5, PlainMove
<1>7. CASE scene = {}
  <2>1. PICK v : v = [rd[p] EXCEPT !.pc = "scan"]
    OBVIOUS
  <2>2. Fits(View, rd, p, v)
    BY <1>1, <1>4, <2>1, GoesToScan
  <2>3. Go(p, v)
    BY <1>7, <2>1 DEF LookupScene
  <2> QED
    BY <1>2, <1>3, <2>2, <2>3, PlainMove
<1> QED
  BY <1>6, <1>7

(* A scene is kept: what was answered before the scan is in it, and what   *)
(* was stored since is recorded as missed.                                 *)
LEMMA StepStoreScene ==
    ASSUME RecallIInv, NEW p \in Readers, StoreScene(p)
    PROVE  RecallIInv'
<1>1. PICK u \in Reader : u = rd[p]
  BY DEF RecallIInv, RecallTypeOK
<1>2. PICK items : items = Chosen(u.all, u.branches)
  OBVIOUS
<1>3. u.pc = "store" /\ AllOK(View, rd) /\ ReaderOK(View, u)
  BY <1>1, AllFine DEF StoreScene, AllOK
<1>4. /\ u.kind = "layout" /\ Active(u) /\ u.all \subseteq Stored
      /\ Stored \cap Claims \subseteq u.all \cup u.late /\ u.late \subseteq Claims
      /\ u.branches \in SUBSET BranchNodes
  <2>1. u.branches \subseteq Tips
    BY DEF Reader
  <2> QED
    BY <1>3, <2>1, ViewFields DEF ReaderOK, Active, BranchNodes
<1>5. items \in SUBSET Ids /\ u.all \in SUBSET Ids
  BY <1>2 DEF Chosen, Reader
<1>6. PICK v : v = [u EXCEPT !.pc = "answered", !.items = items]
  OBVIOUS
<1>7. /\ v \in Reader /\ v.pc = "answered" /\ v.kind = u.kind /\ v.seen = u.seen
      /\ v.steady = u.steady /\ v.late = u.late /\ v.blind = u.blind
  BY <1>5, <1>6 DEF Reader
<1>8. Fits(View, rd, p, v)
  BY <1>1, <1>3, <1>4, <1>7, AnswerFits
<1>9. PICK kept : kept = [items |-> items, scan |-> u.all]
  OBVIOUS
<1>10. kept \in Scene /\ kept.items = items /\ kept.scan = u.all
  BY <1>5, <1>9 DEF Scene
<1>11. /\ Go(p, v) /\ UNCHANGED Writerless /\ cache' = cache /\ holder' = holder
      /\ requests' = requests /\ scene' = {kept} /\ missed' = u.late
  BY <1>1, <1>2, <1>6, <1>9 DEF StoreScene, caches
<1>12. Cardinality({kept}) = 1
  BY FS_Singleton
<1>13. acked \ pending \subseteq u.all \cup u.late
  BY <1>4 DEF RecallIInv, RecallTypeOK, StoreOK
<1>14. /\ cache' \in [Repos -> SUBSET Entry] /\ \A r \in Repos : Cardinality(cache'[r]) <= 1
       /\ holder' \in Readers \cup {None} /\ requests' \in 0 .. world.requests
       /\ \A r \in Repos : \A e \in cache'[r] : Keyed(e) =>
             Source(View, rd, r, e.mark, e.count, e.index, IndexHolds(View, e))
  BY <1>11 DEF RecallIInv, RecallTypeOK, SourcesOK
<1>15. SceneFrom(kept, Stored, BranchNodes, acked \ pending, u.late)
  BY <1>2, <1>4, <1>13, <1>10 DEF SceneFrom
<1>16. /\ scene' \in SUBSET Scene /\ Cardinality(scene') <= 1 /\ missed' \subseteq Claims
       /\ \A k \in scene' : SceneFrom(k, Stored, BranchNodes, acked \ pending, missed')
  BY <1>4, <1>11, <1>12, <1>10, <1>15
<1> QED
  BY <1>8, <1>11, <1>14, <1>16, MoveKeeps

-----------------------------------------------------------------------------
(* The writes.                                                             *)

(* What a write of the store does, whichever it is.                        *)
Wrote(written) ==
    /\ Stored \subseteq Stored' /\ Stored' \cap Claims \subseteq Stored \cup written
    /\ written \subseteq Claims
    /\ \A t \in Tips : contains[t] \subseteq contains'[t]
    /\ spine \subseteq spine'
    /\ \A r \in Repos : r # Tenant => marks'[r] = marks[r]
    /\ marks'[Tenant] = marks[Tenant] \/ marks'[Tenant].at > marks[Tenant].at
    /\ \A i \in Labelled' \ Labelled : i \notin Merged'
    /\ rewritten => rewritten'
    /\ ~rewritten' /\ marks' = marks /\ marks[Tenant].head # NoCommit =>
          \A e \in spine' : e \in spine \/ e[1] \notin Ancestors(marks[Tenant].head)
    /\ ~rewritten' /\ marks' = marks /\ BranchNodes' = BranchNodes => Labelled' \subseteq Labelled
    /\ UNCHANGED cache
    /\ Observe(written)

(* What is searchable although a branch contains it is merged.             *)
LEMMA SearchableMerged ==
    RecallTypeOK /\ StoreOK => \A i \in Searchable : i \in Labelled =>
        i \in Merged /\ i \in Reachable(Stored, marks[Tenant].head, spine)
<1> SUFFICES ASSUME RecallTypeOK, StoreOK, NEW i \in Searchable, i \in Labelled
             PROVE  i \in Merged /\ i \in Reachable(Stored, marks[Tenant].head, spine)
  OBVIOUS
<1> DEFINE h == marks[Tenant].head
<1>1. h \in Stored /\ i \in Reachable(Stored, h, spine)
  BY SearchableReached
<1>2. h \in Commits /\ h # NoCommit
  <2>1. marks[Tenant] \in Watermark
    BY ReadCachesAssumption DEF RecallTypeOK
  <2>2. h \in Commits \cup {NoCommit} /\ h \in Ids
    BY <1>1, <2>1 DEF Watermark, Stored
  <2> QED
    BY <2>2, ReadCachesAssumption
<1>3. spine \in SUBSET (Commits \X Commits) /\ \A e \in spine : e[2] \in ParentsOf[e[1]]
  BY DEF RecallTypeOK, StoreOK
<1>4. Reachable(Stored, h, spine) \subseteq Ancestors(h)
  BY <1>2, <1>3, ReachableIsAncestor
<1> QED
  BY <1>1, <1>2, <1>4 DEF Merged

(* The fields of the next view.                                            *)
LEMMA NextViewFields ==
    /\ View'.stored = Stored' /\ View'.embedded = Embedded' /\ View'.contains = contains'
    /\ View'.spine = spine' /\ View'.marks = marks' /\ View'.count = NodeCount'
    /\ View'.labelled = Labelled' /\ View'.merged = Merged' /\ View'.canonical = Canonical'
    /\ View'.searchable = Searchable' /\ View'.unkeyed = unkeyed' /\ View'.relabelled = relabelled'
BY DEF View

(* A write counts no fewer nodes, and as many only if it stores none.      *)
LEMMA CountGrows ==
    ASSUME RecallTypeOK, RecallTypeOK', Stored \subseteq Stored',
           \A t \in Tips : contains[t] \subseteq contains'[t]
    PROVE  /\ NodeCount \in Nat /\ NodeCount' \in Nat /\ NodeCount <= NodeCount'
           /\ NodeCount' = NodeCount => Stored' = Stored /\ BranchNodes' = BranchNodes
<1>1. BranchNodes \subseteq BranchNodes'
  BY DEF BranchNodes
<1>2. /\ IsFiniteSet(Stored) /\ IsFiniteSet(BranchNodes) /\ NodeCount \in Nat
      /\ Cardinality(Stored) \in Nat /\ Cardinality(BranchNodes) \in Nat
  BY CountIsNat
<1>3. /\ IsFiniteSet(Ids) /\ Stored' \subseteq Ids /\ BranchNodes' \subseteq Commits
  BY CountIsNat, ReadCachesAssumption DEF Stored, BranchNodes
<1>4. IsFiniteSet(Stored') /\ IsFiniteSet(BranchNodes')
  BY <1>3, ReadCachesAssumption, FS_Subset
<1>5. Cardinality(Stored') \in Nat /\ Cardinality(BranchNodes') \in Nat
  BY <1>4, FS_CardinalityType
<1>6. /\ Cardinality(Stored) <= Cardinality(Stored')
      /\ Cardinality(Stored') = Cardinality(Stored) => Stored' = Stored
  BY <1>4, FS_Subset
<1>7. /\ Cardinality(BranchNodes) <= Cardinality(BranchNodes')
      /\ Cardinality(BranchNodes') = Cardinality(BranchNodes) => BranchNodes' = BranchNodes
  BY <1>1, <1>4, FS_Subset
<1> QED
  BY <1>2, <1>5, <1>6, <1>7 DEF NodeCount

(* The same in the next state.                                             *)
LEMMA NextSearchableMerged ==
    ASSUME RecallTypeOK', StoreOK'
    PROVE  (\A i \in Searchable : i \in Labelled =>
               i \in Merged /\ i \in Reachable(Stored, marks[Tenant].head, spine))'
<1>1. (RecallTypeOK /\ StoreOK => \A i \in Searchable : i \in Labelled =>
          i \in Merged /\ i \in Reachable(Stored, marks[Tenant].head, spine))'
  BY SearchableMerged, PTL
<1> QED
  BY <1>1

(* The key of a tenant is what SameKey compares.                           *)
LEMMA KeyIsSame ==
    ASSUME NEW r \in Repos
    PROVE  Key'[r] = Key[r] <=> SameKey(View, View', r)
BY ViewFields, NextViewFields DEF Key, SameKey

(* A write carries the history of every request along.                     *)
LEMMA ObserveCarries ==
    ASSUME RecallTypeOK, NEW written \in SUBSET Claims, Observe(written)
    PROVE  /\ rd' \in [Readers -> Reader]
           /\ \A p \in Readers : Carried(View, View', rd[p], rd'[p], written)
           /\ unkeyed' \subseteq Ids /\ relabelled' \subseteq Ids
<1>1. Canonical' \subseteq Ids /\ Canonical \subseteq Ids /\ Searchable' \subseteq Ids
  BY DEF Canonical, Searchable, Recallable, Stored
<1>2. unkeyed' \subseteq Ids /\ relabelled' \subseteq Ids
  BY <1>1 DEF Observe, RecallTypeOK
<1>3. ASSUME NEW p \in Readers
      PROVE  rd'[p] \in Reader /\ Carried(View, View', rd[p], rd'[p], written)
  <2>1. PICK u \in Reader : u = rd[p]
    BY DEF RecallTypeOK
  <2>2. PICK v : v = rd'[p]
    OBVIOUS
  <2>3. CASE ~Active(u)
    <3>1. v = u
      BY <2>1, <2>2, <2>3 DEF Observe, Active
    <3> QED
      BY <2>1, <2>2, <2>3, <3>1 DEF Carried
  <2>4. CASE Active(u)
    <3>1. PICK seen \in SUBSET Ids : seen = u.seen \cup Of(u.repo, Canonical')
      BY <1>1 DEF Reader, Of
    <3>2. PICK steady \in SUBSET Ids :
             steady = (u.steady \cap Searchable') \ (IF marks' = marks THEN {} ELSE Labelled')
      BY <1>1
    <3>3. PICK late \in SUBSET Ids : late = u.late \cup written
      BY DEF Reader, Ids
    <3>4. v = [u EXCEPT !.seen = seen, !.steady = steady, !.late = late]
      BY <2>1, <2>2, <2>4, <3>1, <3>2, <3>3 DEF Observe, Active
    <3>5. /\ v \in Reader
          /\ v.pc = u.pc /\ v.kind = u.kind /\ v.repo = u.repo /\ v.mark = u.mark
          /\ v.count = u.count /\ v.all = u.all /\ v.embedded = u.embedded
          /\ v.branches = u.branches /\ v.reach = u.reach /\ v.hits = u.hits /\ v.items = u.items
          /\ v.seen = seen /\ v.steady = steady /\ v.late = late /\ v.blind = u.blind
      BY <3>4 DEF Reader
    <3>6. Carried(View, View', u, v, written)
      BY <2>4, <3>1, <3>2, <3>3, <3>5, ViewFields, NextViewFields DEF Carried
    <3> QED
      BY <2>1, <2>2, <3>5, <3>6
  <2> QED
    BY <2>3, <2>4
<1>4. rd' \in [Readers -> Reader]
  <2>1. rd' = [p \in Readers |-> rd'[p]]
    BY DEF Observe
  <2> QED
    BY <1>3, <2>1
<1> QED
  BY <1>2, <1>3, <1>4

(* Every write grows the view.                                             *)
LEMMA WroteGrows ==
    ASSUME RecallTypeOK, RecallTypeOK', StoreOK', NEW written, Wrote(written)
    PROVE  Grows(View, View', written)
<1>1. marks \in [Repos -> Watermark] /\ marks' \in [Repos -> Watermark] /\ Tenant \in Repos
  BY ReadCachesAssumption DEF RecallTypeOK
<1>2. NodeCount \in Nat /\ NodeCount' \in Nat /\ NodeCount <= NodeCount'
  BY CountGrows DEF Wrote
<1>3. \A r \in Repos : marks'[r] = marks[r] \/ marks'[r].at > marks[r].at
  BY DEF Wrote
<1>4. Labelled' \subseteq Commits /\ Searchable' \subseteq Ids /\ Labelled \subseteq Labelled'
  BY DEF RecallTypeOK, Labelled, Searchable, Recallable, Stored, Wrote
<1>5. (\A i \in Searchable : i \in Labelled =>
          i \in Merged /\ i \in Reachable(Stored, marks[Tenant].head, spine))'
  BY NextSearchableMerged
<1>6. \A i \in Searchable' : i \in Labelled' => i \in Labelled
  BY <1>5 DEF Wrote
<1>7. \A i \in Ids : Key'[RepoOf[i]] = Key[RepoOf[i]] <=> SameKey(View, View', RepoOf[i])
  BY KeyIsSame DEF Repos
<1>8. unkeyed' = {i \in Searchable' : /\ SameKey(View, View', RepoOf[i])
                                      /\ i \in unkeyed \/ i \notin Searchable}
  BY <1>4, <1>7 DEF Wrote, Observe
<1>9. Canonical \subseteq Ids
  BY DEF Canonical, Stored
<1>10. relabelled' = relabelled \cup
          {i \in Canonical \ Canonical' : SameKey(View, View', RepoOf[i])}
  BY <1>7, <1>9 DEF Wrote, Observe
<1>11. /\ Stored \subseteq Stored' /\ Stored' \cap Claims \subseteq Stored \cup written
       /\ written \subseteq Claims /\ spine \subseteq spine'
       /\ \A t \in Tips : contains[t] \subseteq contains'[t]
       /\ \A r \in Repos : r = Tenant \/ marks'[r] = marks[r]
  BY DEF Wrote
<1> QED
  BY <1>1, <1>2, <1>3, <1>4, <1>6, <1>8, <1>10, <1>11, ViewFields, NextViewFields DEF Grows

(* Without a rewrite no write that keeps the key of the cache takes a      *)
(* commit out of what is canonical, or puts one into what is searchable;   *)
(* and with one, only a commit that a branch contains comes in.            *)
LEMMA WroteHistory ==
    ASSUME RecallTypeOK, StoreOK, HistoryOK, RecallTypeOK', StoreOK', NEW written, Wrote(written)
    PROVE  /\ unkeyed' \subseteq Claims \cup (IF rewritten' THEN Labelled' ELSE {})
           /\ ~rewritten' => relabelled' = {}
<1> DEFINE h == marks[Tenant].head
<1>1. marks \in [Repos -> Watermark] /\ marks' \in [Repos -> Watermark] /\ Tenant \in Repos
  BY ReadCachesAssumption DEF RecallTypeOK
<1>2. Labelled \subseteq Labelled' /\ Labelled' \subseteq Commits
  BY DEF Wrote, Labelled, RecallTypeOK
<1>3. Key'[Tenant] = Key[Tenant] => /\ marks' = marks /\ Stored' = Stored
                                    /\ BranchNodes' = BranchNodes
  <2> SUFFICES ASSUME Key'[Tenant] = Key[Tenant]
               PROVE  marks' = marks /\ Stored' = Stored /\ BranchNodes' = BranchNodes
    OBVIOUS
  <2>1. marks'[Tenant] = marks[Tenant] /\ NodeCount' = NodeCount
    BY <1>1 DEF Key
  <2>2. \A r \in Repos : marks'[r] = marks[r]
    BY <2>1 DEF Wrote
  <2>3. marks' = marks
    BY <1>1, <2>2
  <2> QED
    BY <2>1, <2>3, CountGrows DEF Wrote
<1>4. marks' = marks => Merged' = Merged
  BY DEF Merged
<1>5. ASSUME ~rewritten', NEW i \in Canonical, i \notin Canonical', Key'[RepoOf[i]] = Key[RepoOf[i]]
      PROVE  FALSE
  <2>1. i \in Stored' /\ i \in Labelled' /\ i \notin Merged'
    BY <1>5 DEF Canonical, Wrote
  <2>2. i \in Commits /\ RepoOf[i] = Tenant
    BY <1>2, <2>1, ReadCachesAssumption
  <2>3. marks' = marks /\ BranchNodes' = BranchNodes /\ Merged' = Merged
    BY <1>3, <1>4, <1>5, <2>2
  <2>4. i \in Labelled
    BY <1>5, <2>1, <2>3 DEF Wrote
  <2> QED
    BY <1>5, <2>1, <2>3, <2>4 DEF Canonical
<1>6. ~rewritten' => relabelled' = {}
  <2>1. ~rewritten' => relabelled = {}
    BY DEF Wrote, HistoryOK
  <2> QED
    BY <1>5, <2>1 DEF Wrote, Observe
<1>7. ASSUME NEW i \in unkeyed', i \notin Claims
      PROVE  rewritten' /\ i \in Labelled'
  <2>1. /\ i \in Searchable' /\ Key'[RepoOf[i]] = Key[RepoOf[i]]
        /\ i \in unkeyed \/ i \notin Searchable
    BY <1>7 DEF Wrote, Observe
  <2>2. i \in Stored' /\ i \in Commits /\ RepoOf[i] = Tenant
    BY <1>7, <2>1, ReadCachesAssumption DEF Searchable, Recallable, Stored, Ids
  <2>3. marks' = marks /\ Stored' = Stored /\ BranchNodes' = BranchNodes
    BY <1>3, <2>1, <2>2
  <2>4. CASE i \in unkeyed
    BY <1>2, <1>7, <2>4 DEF HistoryOK, Wrote
  <2>5. CASE i \notin Searchable
    <3>1. i \in Embedded
      BY <2>2, <2>3 DEF Embedded, Stored, StoreOK, RecallTypeOK
    <3>2. i \in InFlight(BranchNodes, Reachable(Stored, h, spine))
      BY <2>2, <2>3, <2>5, <3>1 DEF Searchable, Recallable
    <3>3. i \in Labelled /\ i \notin Reachable(Stored, h, spine)
      BY <3>2 DEF InFlight, Labelled, BranchNodes
    <3>4. ASSUME ~rewritten'
          PROVE  FALSE
      <4>1. (\A j \in Searchable : j \in Labelled =>
                j \in Merged /\ j \in Reachable(Stored, marks[Tenant].head, spine))'
        BY NextSearchableMerged
      <4>2. i \in Reachable(Stored', h, spine')
        BY <1>2, <2>1, <2>3, <3>3, <4>1
      <4>3. h \in Stored
        BY <2>3, <4>2 DEF Reachable
      <4>4. h \in Commits /\ h # NoCommit
        <5>1. h \in Commits \cup {NoCommit} /\ h \in Ids
          BY <1>1, <4>3 DEF Watermark, Stored
        <5> QED
          BY <5>1, ReadCachesAssumption
      <4>5. \A e \in spine' : e \in spine \/ e[1] \notin Ancestors(h)
        BY <2>3, <3>4, <4>4 DEF Wrote
      <4>6. spine \in SUBSET (Commits \X Commits) /\ \A e \in spine : e[2] \in ParentsOf[e[1]]
        BY DEF RecallTypeOK, StoreOK
      <4>7. Reachable(Stored', h, spine') \subseteq Reachable(Stored, h, spine)
        BY <4>3, <4>4, <4>5, <4>6, ReachableFrame
      <4> QED
        BY <3>3, <4>2, <4>7
    <3> QED
      BY <1>2, <3>3, <3>4
  <2> QED
    BY <2>1, <2>4, <2>5
<1> QED
  BY <1>6, <1>7

(* A write keeps the requests and the indexes.                             *)
LEMMA WriteKeeps ==
    ASSUME RecallIInv, RecallTypeOK', StoreOK', HistoryOK', SceneOK', NEW written, Wrote(written)
    PROVE  RecallIInv'
<1>1. Grows(View, View', written)
  BY WroteGrows DEF RecallIInv
<1>2. \A p \in Readers : Carried(View, View', rd[p], rd'[p], written)
  <2>1. RecallTypeOK /\ written \in SUBSET Claims /\ Observe(written)
    BY DEF RecallIInv, Wrote
  <2> QED
    BY <2>1, ObserveCarries
<1>3. rd \in [Readers -> Reader] /\ rd' \in [Readers -> Reader]
  BY DEF RecallIInv, RecallTypeOK
<1>4. \A p \in Readers : ReaderOK(View', rd'[p])
  <2> TAKE p \in Readers
  <2>1. ReaderOK(View, rd[p]) /\ rd[p] \in Reader /\ rd'[p] \in Reader
    BY <1>3 DEF RecallIInv, ReadersOK
  <2> QED
    BY <1>1, <1>2, <2>1, WriteKeepsReader
<1>5. ASSUME NEW q \in Readers, Building(rd'[q])
      PROVE  Source(View', rd', rd'[q].repo, rd'[q].mark, rd'[q].count,
                    Partial(View', rd'[q]), Holds(View', rd'[q]))
  <2>1. PICK u \in Reader : u = rd[q]
    BY <1>3
  <2>2. PICK v \in Reader : v = rd'[q]
    BY <1>3
  <2>3. Carried(View, View', u, v, written)
    BY <1>2, <2>1, <2>2
  <2>4. v.repo = u.repo /\ v.mark = u.mark /\ v.count = u.count /\ Building(u)
    BY <1>5, <2>2, <2>3 DEF Carried, Building, Keyed
  <2>5. Source(View, rd, u.repo, u.mark, u.count, Partial(View, u), Holds(View, u))
    BY <2>1, <2>4 DEF RecallIInv, SourcesOK
  <2>6. Partial(View', v) \subseteq Partial(View, u)
    BY <1>1, <2>3, PartialShrinks
  <2>7. \A i \in Holds(View, u) :
           i \in View'.searchable /\ (View'.marks = View.marks \/ i \notin View'.labelled)
              => i \in Holds(View', v)
    BY <1>1, <2>3, HoldsKept
  <2>8. u.repo \in Repos /\ u.mark \in Watermark /\ u.count \in Nat
    BY DEF Reader
  <2>9. Source(View', rd', u.repo, u.mark, u.count, Partial(View', v), Holds(View', v))
    BY <1>1, <1>2, <1>3, <2>5, <2>6, <2>7, <2>8, WriteKeepsSource
  <2> QED
    BY <2>2, <2>4, <2>9
<1>6. ASSUME NEW r \in Repos, NEW e \in cache'[r], Keyed(e)
      PROVE  Source(View', rd', r, e.mark, e.count, e.index, IndexHolds(View', e))
  <2>1. e \in cache[r] /\ e.mark \in Watermark /\ e.count \in Nat
    BY <1>6 DEF Wrote, RecallIInv, RecallTypeOK, Entry
  <2>2. Source(View, rd, r, e.mark, e.count, e.index, IndexHolds(View, e))
    BY <1>6, <2>1 DEF RecallIInv, SourcesOK
  <2>3. IndexHolds(View, e) \subseteq IndexHolds(View', e)
    BY <1>1 DEF IndexHolds, Excused, Grows
  <2> QED
    BY <1>1, <1>2, <1>3, <2>1, <2>2, <2>3, WriteKeepsSource
<1>7. ReadersOK' /\ SourcesOK'
  BY <1>4, <1>5, <1>6 DEF ReadersOK, SourcesOK
<1> QED
  BY <1>7 DEF RecallIInv

(* A scene stays covered when the store grows and no claim is answered.    *)
LEMMA SceneKept ==
    ASSUME SceneOK, Stored \subseteq Stored', scene' = scene, acked' = acked,
           pending \subseteq pending', missed' = missed,
           \A t \in Tips : contains[t] \subseteq contains'[t]
    PROVE  SceneOK'
<1>1. BranchNodes \subseteq BranchNodes'
  BY DEF BranchNodes
<1> SUFFICES ASSUME NEW kept \in scene
             PROVE  SceneFrom(kept, Stored', BranchNodes', acked \ pending', missed)
  BY DEF SceneOK
<1>2. SceneFrom(kept, Stored, BranchNodes, acked \ pending, missed)
  BY DEF SceneOK
<1> QED
  BY <1>1, <1>2 DEF SceneFrom

(* A claim is stored, by the route or by a session.                        *)
LEMMA StepPutClaim ==
    ASSUME RecallIInv, NEW i \in Claims, NEW vector \in BOOLEAN, PutClaim(i, vector),
           pending' = pending \/ pending' = pending \cup {i}, UNCHANGED <<acked, scene>>,
           Observe({i})
    PROVE  RecallIInv'
<1>1. RecallTypeOK /\ StoreOK /\ HistoryOK /\ SceneOK /\ i \in Ids /\ i \notin Commits
  BY ReadCachesAssumption DEF RecallIInv, Ids
<1>2. /\ rows' = [rows EXCEPT ![i] = IF vector THEN "embedded" ELSE "plain"]
      /\ puts < world.puts /\ puts' = puts + 1
      /\ UNCHANGED <<contains, spine, marks, branchTip, ingesting, cache, holder, requests, world,
                     rewritten, missed>>
  BY DEF PutClaim, caches
<1>3. Stored' = Stored \cup {i}
  BY <1>1, <1>2 DEF Stored, RecallTypeOK
<1>4. Labelled' = Labelled /\ Merged' = Merged /\ BranchNodes' = BranchNodes
  BY <1>2 DEF Labelled, Merged, BranchNodes
<1>5. /\ rd' \in [Readers -> Reader] /\ unkeyed' \subseteq Ids /\ relabelled' \subseteq Ids
  BY <1>1, ObserveCarries
<1>6. puts' \in 0 .. world'.puts
  BY <1>1, <1>2, ReadCachesAssumption DEF RecallTypeOK
<1>7. rows' \in [Ids -> {"absent", "plain", "embedded"}] /\ pending' \subseteq Claims
  BY <1>1, <1>2 DEF RecallTypeOK
<1>8. RecallTypeOK'
  BY <1>1, <1>2, <1>5, <1>6, <1>7 DEF RecallTypeOK
<1>9. \A c \in Commits : rows'[c] = rows[c]
  BY <1>1, <1>2 DEF RecallTypeOK, Ids
<1>10. StoreOK'
  BY <1>1, <1>2, <1>3, <1>9 DEF StoreOK
<1>11. Wrote({i})
  BY <1>1, <1>2, <1>3, <1>4 DEF Wrote
<1>12. HistoryOK'
  <2>1. /\ unkeyed' \subseteq Claims \cup (IF rewritten' THEN Labelled' ELSE {})
        /\ ~rewritten' => relabelled' = {}
    BY <1>1, <1>8, <1>10, <1>11, WroteHistory
  <2> QED
    BY <1>1, <1>2, <1>4, <2>1 DEF HistoryOK
<1>13. SceneOK'
  BY <1>1, <1>2, <1>3, SceneKept
<1> QED
  BY <1>8, <1>10, <1>11, <1>12, <1>13, WriteKeeps

(* A claim is answered: the scene goes.                                    *)
LEMMA StepAssertAnswer ==
    ASSUME RecallIInv, NEW i \in pending, AssertAnswer(i)
    PROVE  RecallIInv'
<1>1. /\ UNCHANGED <<rows, contains, spine, marks, branchTip, ingesting, cache, holder, rd,
                     requests, unkeyed, relabelled, rewritten, puts, world>>
      /\ pending' = pending \ {i} /\ acked' = acked \cup {i} /\ scene' = {} /\ missed' = {}
  BY DEF AssertAnswer, store, caches
<1>2. /\ View' = View /\ Stored' = Stored /\ Labelled' = Labelled /\ Merged' = Merged
      /\ BranchNodes' = BranchNodes
  BY <1>1, ViewUnchanged
<1>3. Cardinality({}) = 0
  BY FS_EmptySet
<1>4. RecallTypeOK'
  BY <1>1, <1>3 DEF RecallIInv, RecallTypeOK
<1>5. StoreOK'
  BY <1>1, <1>2 DEF RecallIInv, StoreOK
<1>6. HistoryOK'
  BY <1>1, <1>2 DEF RecallIInv, HistoryOK
<1>7. SceneOK'
  BY <1>1 DEF SceneOK
<1>8. ReadersOK' /\ SourcesOK'
  BY <1>1, <1>2 DEF RecallIInv, ReadersOK, SourcesOK
<1> QED
  BY <1>4, <1>5, <1>6, <1>7, <1>8 DEF RecallIInv

(* A step that leaves everything the invariant speaks of but a failed job. *)
LEMMA StepIngestFails ==
    ASSUME RecallIInv, IngestFails
    PROVE  RecallIInv'
<1>1. /\ UNCHANGED <<rows, contains, spine, marks, branchTip, cache, holder, rd, pending, acked,
                     scene, requests, unkeyed, relabelled, rewritten, missed, puts, world>>
      /\ ingesting' = NoCommit
  BY DEF IngestFails, store, caches
<1>2. /\ View' = View /\ Stored' = Stored /\ Labelled' = Labelled /\ Merged' = Merged
      /\ BranchNodes' = BranchNodes
  BY <1>1, ViewUnchanged
<1>3. RecallTypeOK'
  BY <1>1 DEF RecallIInv, RecallTypeOK
<1>4. StoreOK'
  BY <1>1, <1>2 DEF RecallIInv, StoreOK
<1>5. HistoryOK'
  BY <1>1, <1>2 DEF RecallIInv, HistoryOK
<1>6. SceneOK'
  BY <1>1, <1>2 DEF RecallIInv, SceneOK
<1>7. ReadersOK' /\ SourcesOK'
  BY <1>1, <1>2 DEF RecallIInv, ReadersOK, SourcesOK
<1> QED
  BY <1>3, <1>4, <1>5, <1>6, <1>7 DEF RecallIInv

(* What storing commits does to rows and spine.                            *)
LEMMA CommitsStored ==
    ASSUME RecallTypeOK, StoreOK, NEW recs \in SUBSET Commits, StoreCommits(recs)
    PROVE  /\ rows' \in [Ids -> {"absent", "plain", "embedded"}]
           /\ spine' \subseteq Commits \X Commits /\ spine \subseteq spine'
           /\ \A e \in spine' : e \in spine \/ e[1] \in recs
           /\ \A e \in spine' : e[2] \in ParentsOf[e[1]]
           /\ \A c \in Commits : rows'[c] # "plain"
           /\ Stored \subseteq Stored' /\ Stored' \cap Claims \subseteq Stored
<1>1. /\ rows' = [i \in Ids |-> IF i \in recs THEN "embedded" ELSE rows[i]]
      /\ spine' = spine \cup {e \in recs \X recs : e[2] \in ParentsOf[e[1]]}
  BY DEF StoreCommits
<1>2. rows' \in [Ids -> {"absent", "plain", "embedded"}]
  BY <1>1 DEF RecallTypeOK
<1>3. \A c \in Commits : rows'[c] # "plain"
  BY <1>1 DEF StoreOK, Ids
<1>4. Stored \subseteq Stored' /\ Stored' \cap Claims \subseteq Stored
  BY <1>1, ReadCachesAssumption DEF Stored, Ids
<1>5. /\ spine' \subseteq Commits \X Commits /\ spine \subseteq spine'
      /\ \A e \in spine' : e \in spine \/ e[1] \in recs
      /\ \A e \in spine' : e[2] \in ParentsOf[e[1]]
  BY <1>1 DEF RecallTypeOK, StoreOK
<1> QED
  BY <1>2, <1>3, <1>4, <1>5

(* A push is stored.                                                       *)
LEMMA StepIngestBatch ==
    ASSUME RecallIInv, NEW head \in Commits, IngestBatch(head)
    PROVE  RecallIInv'
<1> DEFINE prior == marks[Tenant].head
<1>1. RecallTypeOK /\ StoreOK /\ HistoryOK /\ SceneOK
  BY DEF RecallIInv
<1>2. PICK recs : recs = Ancestors(head) \ (IF prior \in Ancestors(head) THEN Ancestors(prior) ELSE {})
  OBVIOUS
<1>3. /\ StoreCommits(recs) /\ ingesting' = head
      /\ rewritten' = (rewritten \/ (prior # NoCommit /\ prior \notin Ancestors(head)))
      /\ UNCHANGED <<contains, marks, branchTip, pending, acked, cache, holder, scene, requests,
                     missed, puts, world>>
      /\ Observe({})
  BY <1>2 DEF IngestBatch, caches
<1>4. recs \in SUBSET Commits
  BY <1>2, AncestorsLeast
<1>5. /\ rows' \in [Ids -> {"absent", "plain", "embedded"}]
      /\ spine' \subseteq Commits \X Commits /\ spine \subseteq spine'
      /\ \A e \in spine' : e \in spine \/ e[1] \in recs
      /\ \A e \in spine' : e[2] \in ParentsOf[e[1]]
      /\ \A c \in Commits : rows'[c] # "plain"
      /\ Stored \subseteq Stored' /\ Stored' \cap Claims \subseteq Stored
  BY <1>1, <1>3, <1>4, CommitsStored
<1>6. Labelled' = Labelled /\ Merged' = Merged
  BY <1>3 DEF Labelled, Merged
<1>7. /\ rd' \in [Readers -> Reader] /\ unkeyed' \subseteq Ids /\ relabelled' \subseteq Ids
  BY <1>1, <1>3, ObserveCarries
<1>8. rewritten' \in BOOLEAN
  BY <1>1, <1>3 DEF RecallTypeOK
<1>9. RecallTypeOK'
  BY <1>1, <1>3, <1>5, <1>7, <1>8 DEF RecallTypeOK
<1>10. StoreOK'
  BY <1>1, <1>3, <1>5 DEF StoreOK
<1>11. ~rewritten' /\ prior # NoCommit => prior \in Ancestors(head)
  BY <1>3
<1>12. ~rewritten' /\ prior # NoCommit => \A e \in spine' : e \in spine \/ e[1] \notin Ancestors(prior)
  BY <1>2, <1>5, <1>11
<1>13. (rewritten => rewritten') /\ marks' = marks
  BY <1>3
<1>14. Wrote({})
  BY <1>3, <1>5, <1>6, <1>12, <1>13 DEF Wrote
<1>15. HistoryOK'
  <2>1. /\ unkeyed' \subseteq Claims \cup (IF rewritten' THEN Labelled' ELSE {})
        /\ ~rewritten' => relabelled' = {}
    BY <1>1, <1>9, <1>10, <1>14, WroteHistory
  <2>2. ~rewritten' => ~rewritten
    BY <1>3
  <2>3. ~rewritten' => \A t \in Tips : contains'[t] # {} => Ancestors(t) \ Merged' \subseteq contains'[t]
    BY <1>1, <1>3, <1>6, <2>2 DEF HistoryOK
  <2>4. ~rewritten' => (ingesting' # NoCommit /\ marks'[Tenant].head # NoCommit
                           => marks'[Tenant].head \in Ancestors(ingesting'))
    BY <1>3, <1>11
  <2> QED
    BY <2>1, <2>3, <2>4 DEF HistoryOK
<1>16. SceneOK'
  BY <1>1, <1>3, <1>5, SceneKept
<1> QED
  BY <1>9, <1>10, <1>14, <1>15, <1>16, WriteKeeps

(* The watermark is stamped.                                               *)
LEMMA StepIngestStamp ==
    ASSUME RecallIInv, IngestStamp
    PROVE  RecallIInv'
<1> DEFINE prior == marks[Tenant].head
<1>1. RecallTypeOK /\ StoreOK /\ HistoryOK /\ SceneOK /\ Tenant \in Repos
  BY ReadCachesAssumption DEF RecallIInv
<1>2. ingesting \in Commits /\ marks[Tenant] \in Watermark /\ marks[Tenant].at \in Nat
      /\ prior \in Commits \cup {NoCommit}
  BY <1>1 DEF IngestStamp, RecallTypeOK, Watermark
<1>3. PICK mark : mark = [head |-> ingesting, at |-> marks[Tenant].at + 1]
  OBVIOUS
<1>4. mark \in Watermark /\ mark.head = ingesting /\ mark.at = marks[Tenant].at + 1
  BY <1>2, <1>3 DEF Watermark
<1>5. /\ marks' = [marks EXCEPT ![Tenant] = mark] /\ ingesting' = NoCommit
      /\ UNCHANGED <<rows, contains, spine, branchTip, pending, acked, cache, holder, scene,
                     requests, rewritten, missed, puts, world>>
      /\ Observe({})
  BY <1>3 DEF IngestStamp, caches
<1>6. /\ marks' \in [Repos -> Watermark] /\ marks'[Tenant] = mark
      /\ \A r \in Repos : r # Tenant => marks'[r] = marks[r]
  BY <1>1, <1>4, <1>5 DEF RecallTypeOK
<1>7. marks'[Tenant].at > marks[Tenant].at /\ marks' # marks /\ marks'[Tenant].head # NoCommit
  BY <1>2, <1>4, <1>6, ReadCachesAssumption DEF Ids
<1>8. Labelled' = Labelled /\ Stored' = Stored
  BY <1>5 DEF Labelled, Stored
<1>9. /\ rd' \in [Readers -> Reader] /\ unkeyed' \subseteq Ids /\ relabelled' \subseteq Ids
  BY <1>1, <1>5, ObserveCarries
<1>10. RecallTypeOK'
  BY <1>1, <1>5, <1>6, <1>9 DEF RecallTypeOK
<1>11. StoreOK'
  BY <1>1, <1>5, <1>7, <1>8 DEF StoreOK
<1>12. Wrote({})
  BY <1>5, <1>6, <1>7, <1>8 DEF Wrote
<1>13. ~rewritten => Merged \subseteq Merged'
  <2>1. CASE prior = NoCommit
    BY <2>1 DEF Merged
  <2>2. CASE prior # NoCommit
    <3>1. ~rewritten => prior \in Ancestors(ingesting)
      BY <1>1, <1>2, <2>2, ReadCachesAssumption DEF HistoryOK, Ids
    <3>2. ~rewritten => Ancestors(prior) \subseteq Ancestors(ingesting)
      BY <1>2, <3>1, AncestorsTransitive
    <3> QED
      BY <1>4, <1>6, <1>7, <2>2, <3>2 DEF Merged
  <2> QED
    BY <2>1, <2>2
<1>14. HistoryOK'
  <2>1. /\ unkeyed' \subseteq Claims \cup (IF rewritten' THEN Labelled' ELSE {})
        /\ ~rewritten' => relabelled' = {}
    BY <1>1, <1>10, <1>11, <1>12, WroteHistory
  <2>2. ~rewritten' => \A t \in Tips : contains'[t] # {} => Ancestors(t) \ Merged' \subseteq contains'[t]
    BY <1>1, <1>5, <1>13 DEF HistoryOK
  <2> QED
    BY <1>5, <2>1, <2>2 DEF HistoryOK
<1>15. SceneOK'
  BY <1>1, <1>5, <1>8, SceneKept
<1> QED
  BY <1>10, <1>11, <1>12, <1>14, <1>15, WriteKeeps

(* A branch is stored.                                                     *)
LEMMA StepIngestBranch ==
    ASSUME RecallIInv, NEW t \in Tips, IngestBranch(t)
    PROVE  RecallIInv'
<1> DEFINE h == marks[Tenant].head
<1>1. RecallTypeOK /\ StoreOK /\ HistoryOK /\ SceneOK /\ Tenant \in Repos /\ t \in Commits
  BY ReadCachesAssumption DEF RecallIInv
<1>2. PICK recs : recs = Ancestors(t) \ Ancestors(h)
  OBVIOUS
<1>3. /\ StoreCommits(recs) /\ contains' = [contains EXCEPT ![t] = contains[t] \cup recs]
      /\ branchTip' = t /\ h # NoCommit /\ ingesting = NoCommit
      /\ UNCHANGED <<marks, ingesting, pending, acked, cache, holder, scene, requests, rewritten,
                     missed, puts, world>>
      /\ Observe({})
  BY <1>2 DEF IngestBranch, caches
<1>4. recs \in SUBSET Commits /\ Merged = Ancestors(h) /\ Merged' = Merged
  BY <1>1, <1>2, <1>3, AncestorsLeast DEF Merged
<1>5. /\ rows' \in [Ids -> {"absent", "plain", "embedded"}]
      /\ spine' \subseteq Commits \X Commits /\ spine \subseteq spine'
      /\ \A e \in spine' : e \in spine \/ e[1] \in recs
      /\ \A e \in spine' : e[2] \in ParentsOf[e[1]]
      /\ \A c \in Commits : rows'[c] # "plain"
      /\ Stored \subseteq Stored' /\ Stored' \cap Claims \subseteq Stored
  BY <1>1, <1>3, <1>4, CommitsStored
<1>6. /\ contains' \in [Tips -> SUBSET Commits] /\ contains'[t] = contains[t] \cup recs
      /\ \A b \in Tips : b # t => contains'[b] = contains[b]
  BY <1>1, <1>3, <1>4 DEF RecallTypeOK
<1>7. \A i : i \in Labelled' <=> i \in Labelled \/ i \in recs
  BY <1>6 DEF Labelled
<1>8. /\ rd' \in [Readers -> Reader] /\ unkeyed' \subseteq Ids /\ relabelled' \subseteq Ids
  BY <1>1, <1>3, ObserveCarries
<1>9. RecallTypeOK'
  BY <1>1, <1>3, <1>5, <1>6, <1>8 DEF RecallTypeOK
<1>10. StoreOK'
  BY <1>1, <1>3, <1>5 DEF StoreOK
<1>11. ASSUME ~rewritten, BranchNodes' = BranchNodes
       PROVE  Labelled' \subseteq Labelled
  <2>1. CASE contains[t] = {}
    <3>1. contains'[t] = {}
      BY <1>11, <2>1 DEF BranchNodes
    <3> QED
      BY <1>6, <1>7, <3>1
  <2>2. CASE contains[t] # {}
    <3>1. recs \subseteq contains[t]
      BY <1>1, <1>2, <1>4, <1>11, <2>2 DEF HistoryOK
    <3> QED
      BY <1>7, <3>1 DEF Labelled
  <2> QED
    BY <2>1, <2>2
<1>12. Wrote({})
  BY <1>2, <1>3, <1>4, <1>5, <1>6, <1>7, <1>11 DEF Wrote
<1>13. HistoryOK'
  <2>1. /\ unkeyed' \subseteq Claims \cup (IF rewritten' THEN Labelled' ELSE {})
        /\ ~rewritten' => relabelled' = {}
    BY <1>1, <1>9, <1>10, <1>12, WroteHistory
  <2>2. ~rewritten' => \A b \in Tips : contains'[b] # {} => Ancestors(b) \ Merged' \subseteq contains'[b]
    BY <1>1, <1>2, <1>3, <1>4, <1>6 DEF HistoryOK
  <2> QED
    BY <1>3, <2>1, <2>2 DEF HistoryOK
<1>14. SceneOK'
  BY <1>1, <1>3, <1>5, SceneKept
<1> QED
  BY <1>9, <1>10, <1>12, <1>13, <1>14, WriteKeeps

-----------------------------------------------------------------------------
(* The theorems.                                                           *)

(* Nothing is stored, nothing is kept and no request runs.                 *)
LEMMA InitRecall ==
    ASSUME ReadCachesInit
    PROVE  RecallIInv
<1>1. Idle \in Reader /\ Idle.pc = "idle"
  BY IdleFits DEF Fits, Idle
<1>2. \A p \in Readers : rd[p] = Idle
  BY DEF ReadCachesInit
<1>3. Cardinality({}) = 0
  BY FS_EmptySet
<1>4. NoMark \in Watermark
  BY DEF Watermark, NoMark
<1>5. RecallTypeOK
  <2>1. rows \in [Ids -> {"absent", "plain", "embedded"}] /\ contains \in [Tips -> SUBSET Commits]
    BY DEF ReadCachesInit
  <2>2. marks \in [Repos -> Watermark]
    BY <1>4 DEF ReadCachesInit
  <2>3. /\ cache \in [Repos -> SUBSET Entry]
        /\ \A r \in Repos : cache[r] = {}
    BY DEF ReadCachesInit
  <2>4. rd \in [Readers -> Reader]
    BY <1>1 DEF ReadCachesInit
  <2>5. requests \in 0 .. world.requests /\ puts \in 0 .. world.puts /\ world \in Worlds
    BY ReadCachesAssumption DEF ReadCachesInit
  <2>6. /\ spine = {} /\ branchTip = NoCommit /\ ingesting = NoCommit /\ pending = {} /\ acked = {}
        /\ holder = None /\ scene = {} /\ unkeyed = {} /\ relabelled = {} /\ missed = {}
    BY DEF ReadCachesInit
  <2>7. rewritten \in BOOLEAN
    BY DEF ReadCachesInit
  <2>8. Cardinality(scene) <= 1 /\ \A r \in Repos : Cardinality(cache[r]) <= 1
    BY <1>3, <2>3, <2>6
  <2> QED
    BY <2>1, <2>2, <2>3, <2>4, <2>5, <2>6, <2>7, <2>8 DEF RecallTypeOK
<1>6. StoreOK
  BY DEF ReadCachesInit, StoreOK, Ids, NoMark
<1>7. HistoryOK
  BY DEF ReadCachesInit, HistoryOK
<1>8. SceneOK
  BY DEF ReadCachesInit, SceneOK
<1>9. ReadersOK
  <2>1. ReaderOK(View, Idle)
    BY IdleFits DEF Fits
  <2> QED
    BY <1>2, <2>1 DEF ReadersOK
<1>10. SourcesOK
  BY <1>1, <1>2 DEF ReadCachesInit, SourcesOK, Building, Scanned
<1> QED
  BY <1>5, <1>6, <1>7, <1>8, <1>9, <1>10 DEF RecallIInv

(* A step that changes nothing.                                            *)
LEMMA StutterRecall ==
    ASSUME RecallIInv, UNCHANGED vars
    PROVE  RecallIInv'
<1>1. UNCHANGED <<rows, contains, spine, marks, branchTip, ingesting, cache, holder, rd, pending,
                  acked, scene, requests, unkeyed, relabelled, rewritten, missed, puts, world>>
  BY DEF vars, store, caches
<1>2. /\ View' = View /\ Stored' = Stored /\ Labelled' = Labelled /\ Merged' = Merged
      /\ BranchNodes' = BranchNodes
  BY <1>1, ViewUnchanged
<1>3. RecallTypeOK'
  BY <1>1 DEF RecallIInv, RecallTypeOK
<1>4. StoreOK'
  BY <1>1, <1>2 DEF RecallIInv, StoreOK
<1>5. HistoryOK'
  BY <1>1, <1>2 DEF RecallIInv, HistoryOK
<1>6. SceneOK'
  BY <1>1, <1>2 DEF RecallIInv, SceneOK
<1>7. ReadersOK' /\ SourcesOK'
  BY <1>1, <1>2 DEF RecallIInv, ReadersOK, SourcesOK
<1> QED
  BY <1>3, <1>4, <1>5, <1>6, <1>7 DEF RecallIInv

(* Every step of the writers and of the requests keeps the invariant.      *)
LEMMA NextRecall ==
    ASSUME RecallIInv, [Next]_vars
    PROVE  RecallIInv'
<1>1. world \in Worlds /\ pending \subseteq Claims
  BY DEF RecallIInv, RecallTypeOK
<1>2. /\ world.routed \subseteq Claims /\ world.byom \subseteq Claims
      /\ world.heads \subseteq Commits /\ world.tips \subseteq Tips
  BY <1>1, ReadCachesAssumption
<1>3. ASSUME NEW i \in world.routed, NEW vector \in BOOLEAN, AssertPut(i, vector)
      PROVE  RecallIInv'
  BY <1>2, <1>3, StepPutClaim DEF AssertPut
<1>4. ASSUME NEW i \in world.byom, NEW vector \in BOOLEAN, ByomAssert(i, vector)
      PROVE  RecallIInv'
  BY <1>2, <1>4, StepPutClaim DEF ByomAssert
<1>5. ASSUME NEW i \in pending, AssertAnswer(i)
      PROVE  RecallIInv'
  BY <1>5, StepAssertAnswer
<1>6. ASSUME NEW c \in world.heads, IngestBatch(c)
      PROVE  RecallIInv'
  BY <1>2, <1>6, StepIngestBatch
<1>7. CASE IngestStamp
  BY <1>7, StepIngestStamp
<1>8. CASE IngestFails
  BY <1>8, StepIngestFails
<1>9. ASSUME NEW t \in world.tips, IngestBranch(t)
      PROVE  RecallIInv'
  BY <1>2, <1>9, StepIngestBranch
<1>10. CASE Write
  BY <1>3, <1>4, <1>5, <1>6, <1>7, <1>8, <1>9, <1>10 DEF Write
<1>11. ASSUME NEW p \in world.readers, NEW r \in world.repos, NEW kind \in world.kinds,
              Start(p, kind, r)
       PROVE  RecallIInv'
  BY <1>11, StepStart
<1>12. ASSUME NEW p \in Readers, Step(p) \/ RequestFails(p)
       PROVE  RecallIInv'
  BY <1>12, StepReadCount, StepHit, StepMiss, StepScanNodes, StepReadHead, StepReadSpine,
     StepReadContains, StepInsertIndex, StepResolve, StepReadMark, StepLookupScene,
     StepStoreScene, StepEnds DEF Step
<1>13. CASE UNCHANGED vars
  BY <1>13, StutterRecall
<1> QED
  BY <1>10, <1>11, <1>12, <1>13 DEF Next

(* The inductive invariant holds of every behaviour.                       *)
THEOREM RecallIInvHolds == ReadCachesSpec => []RecallIInv
<1>1. ReadCachesInit => RecallIInv
  BY InitRecall
<1>2. RecallIInv /\ [Next]_vars => RecallIInv'
  BY NextRecall
<1> QED
  BY <1>1, <1>2, PTL DEF ReadCachesSpec

(* A scan of fewer rows keeps of them whatever a larger one keeps, if the  *)
(* federation counts for both or for neither.                              *)
LEMMA ChosenOfFewer ==
    ASSUME NEW A \in SUBSET Ids, NEW B \in SUBSET A, NEW T \in SUBSET Tips, NEW U \in SUBSET T,
           Federated(A) => Federated(B)
    PROVE  Chosen(A, T) \cap B \subseteq Chosen(B, U)
<1> DEFINE fed(S) == {i \in S : RepoOf[i] = Federation}
           rowsOf(S, i) == {j \in S : Rank[j] < Rank[i]}
           tipsOf(S, i) == {t \in S : BranchRank[t] < Rank[i]}
<1>1. IsFiniteSet(Ids) /\ IsFiniteSet(Tips)
  BY ReadCachesAssumption, FS_Union, FS_Subset DEF Ids
<1>2. ASSUME NEW S \in SUBSET Ids, NEW R \in SUBSET S
      PROVE  Cardinality(R) \in Nat /\ Cardinality(S) \in Nat /\ Cardinality(R) <= Cardinality(S)
  <2>1. IsFiniteSet(S)
    BY <1>1, FS_Subset
  <2>2. IsFiniteSet(R)
    BY <2>1, FS_Subset
  <2> QED
    BY <2>1, <2>2, FS_Subset, FS_CardinalityType
<1>3. Tips \subseteq Ids
  BY ReadCachesAssumption DEF Ids
<1>4. ~Federated(A) => ~Federated(B)
  <2>1. fed(A) \in SUBSET Ids /\ fed(B) \in SUBSET fed(A)
    OBVIOUS
  <2>2. /\ Cardinality(fed(B)) <= Cardinality(fed(A))
        /\ Cardinality(fed(A)) \in Nat /\ Cardinality(fed(B)) \in Nat
    BY <1>2, <2>1
  <2> QED
    BY <2>2 DEF Federated
<1>5. CASE Federated(A)
  BY <1>5 DEF Chosen
<1>6. CASE ~Federated(A)
  <2> SUFFICES ASSUME NEW i \in B, Before(i, A, T) < LayoutCap
               PROVE  Before(i, B, U) < LayoutCap
    BY <1>4, <1>6 DEF Chosen
  <2>1. rowsOf(A, i) \in SUBSET Ids /\ rowsOf(B, i) \in SUBSET rowsOf(A, i)
    OBVIOUS
  <2>2. /\ Cardinality(rowsOf(B, i)) <= Cardinality(rowsOf(A, i))
        /\ Cardinality(rowsOf(A, i)) \in Nat /\ Cardinality(rowsOf(B, i)) \in Nat
    BY <1>2, <2>1
  <2>3. tipsOf(T, i) \in SUBSET Ids /\ tipsOf(U, i) \in SUBSET tipsOf(T, i)
    BY <1>3
  <2>4. /\ Cardinality(tipsOf(U, i)) <= Cardinality(tipsOf(T, i))
        /\ Cardinality(tipsOf(T, i)) \in Nat /\ Cardinality(tipsOf(U, i)) \in Nat
    BY <1>2, <2>3
  <2>5. LayoutCap \in Nat
    BY ReadCachesAssumption
  <2> QED
    BY <2>2, <2>4, <2>5 DEF Before
<1> QED
  BY <1>5, <1>6

(* What is kept for later requests stays typed, one index per tenant and   *)
(* one scene, and the scene has every claim /assert answered that a scan   *)
(* would choose now, up to LAYOUT_CAP and with the federation preferred,   *)
(* but those stored while it was made and as long as the federation has    *)
(* not come to two nodes since (TenantIndexCache, layout_cache).           *)
THEOREM RecallInvHolds == ReadCachesSpec => []RecallInv
<1>1. RecallIInv => RecallInv
  <2> SUFFICES ASSUME RecallIInv, NEW kept \in scene, Federated(Stored) => Federated(kept.scan)
               PROVE  (acked \ pending) \cap Chosen(Stored, BranchNodes)
                         \subseteq kept.items \cup missed
    BY DEF RecallInv, SceneCovers, RecallIInv
  <2>1. SceneFrom(kept, Stored, BranchNodes, acked \ pending, missed)
    BY DEF RecallIInv, SceneOK
  <2>2. PICK B \in SUBSET BranchNodes : kept.items = Chosen(kept.scan, B)
    BY <2>1 DEF SceneFrom
  <2>3. kept.scan \in SUBSET Stored /\ acked \ pending \subseteq kept.scan \cup missed
    BY <2>1 DEF SceneFrom
  <2>4. Stored \in SUBSET Ids /\ BranchNodes \in SUBSET Tips
    BY DEF Stored, BranchNodes
  <2>5. Chosen(Stored, BranchNodes) \cap kept.scan \subseteq Chosen(kept.scan, B)
    BY <2>2, <2>3, <2>4, ChosenOfFewer
  <2> QED
    BY <2>2, <2>3, <2>5
<1> QED
  BY <1>1, RecallIInvHolds, PTL

(* What a request reports as canonical was canonical while it ran, but for *)
(* the commits that a branch was found to contain after a rewrite, unless  *)
(* the watermark of its key could not be read.                             *)
THEOREM OnlyCanonicalHolds == ReadCachesSpec => []OnlyCanonical
<1>1. RecallIInv => OnlyCanonical
  <2> SUFFICES ASSUME RecallIInv
               PROVE  OnlyCanonical
    OBVIOUS
  <2>1. ~rewritten => relabelled = {}
    BY DEF RecallIInv, HistoryOK
  <2>2. \A p \in Readers : ReaderOK(View, rd[p])
    BY DEF RecallIInv, ReadersOK
  <2>3. \A p \in Readers : Answered(p) /\ rd[p].kind # "layout" /\ "key" \notin rd[p].blind =>
           rd[p].items \subseteq
              rd[p].seen \cup (IF rd[p].kind = "search" THEN relabelled ELSE {})
    BY <2>2, ViewFields DEF ReaderOK, Answered, Keyed
  <2> QED
    BY <2>1, <2>3 DEF OnlyCanonical
<1> QED
  BY <1>1, RecallIInvHolds, PTL

(* A search whose key was read misses nothing that stayed searchable from  *)
(* its first read to its answer, whichever index it was given, but commits *)
(* of a branch if the index was built without the head.                    *)
THEOREM SearchCompleteHolds == ReadCachesSpec => []SearchComplete
<1>1. RecallIInv => SearchComplete
  <2> SUFFICES ASSUME RecallIInv
               PROVE  SearchComplete
    OBVIOUS
  <2>1. unkeyed \subseteq Claims \cup (IF rewritten THEN Labelled ELSE {})
    BY DEF RecallIInv, HistoryOK
  <2>2. ASSUME NEW p \in Readers, Answered(p), rd[p].kind \in {"search", "in_flight"},
               "key" \notin rd[p].blind
        PROVE  rd[p].steady \subseteq
                  rd[p].items \cup (IF "head" \in rd[p].blind THEN Labelled ELSE {})
    <3>1. ReaderOK(View, rd[p]) /\ rd[p].pc = "answered"
      BY <2>2 DEF RecallIInv, ReadersOK, Answered
    <3>2. rd[p].steady \subseteq Holds(View, rd[p])
      BY <2>2, <3>1 DEF ReaderOK, Keyed
    <3> QED
      BY <3>1, <3>2, ViewFields DEF Holds, Excused, Covered, Scanned
  <2> QED
    BY <2>1, <2>2 DEF SearchComplete
<1> QED
  BY <1>1, RecallIInvHolds, PTL
=============================================================================
