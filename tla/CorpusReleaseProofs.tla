------------------------- MODULE CorpusReleaseProofs -------------------------
(***************************************************************************)
(* Proofs about the release corpus, for any tenants, sources, hosts,       *)
(* weights, batch size and bounds: a directory with a manifest is fit to   *)
(* ship, the store's vectors are its nodes' own and, while one kind of     *)
(* build imports, of one model, and an import installs whole tenants of    *)
(* finished releases.                                                      *)
(***************************************************************************)
EXTENDS CorpusRelease, FiniteSetTheorems, SequenceTheorems, WellFoundedInduction, TLAPS

-----------------------------------------------------------------------------
(* The members of a set, in the order of a sequence.                       *)

(* What holds at 0 and passes from each number to the next holds up to any *)
(* number: a set of numbers has a least one.                               *)
LEMMA StepByStep ==
    ASSUME NEW L \in Nat, NEW T, 0 \in T, \A n \in 1 .. L : n - 1 \in T => n \in T
    PROVE  \A n \in 0 .. L : n \in T
  <1> DEFINE Less == {p \in Nat \X Nat : p[1] < p[2]}
             Missing == {n \in 0 .. L : n \notin T}
  <1>1. IsWellFoundedOn(Less, Nat)
    BY NatLessThanWellFounded, Zenon DEF OpToRel
  <1>2. SUFFICES ASSUME Missing # {}
                 PROVE  FALSE
    OBVIOUS
  <1>3. Missing \subseteq Nat
    OBVIOUS
  <1> HIDE DEF Less, Missing
  <1>4. PICK n \in Missing : \A m \in Missing : <<m, n>> \notin Less
    BY <1>1, <1>2, <1>3, WFMin
  <1>5. n \in 0 .. L /\ n \notin T /\ n # 0
    BY <1>4 DEF Missing
  <1>6. n - 1 \in Missing
    BY <1>5 DEF Missing
  <1>7. <<n - 1, n>> \in Less
    BY <1>5 DEF Less
  <1> QED
    BY <1>4, <1>6, <1>7

(* One more element of the sequence is looked at.                          *)
KeepNext(sofar, seq, n, S) == IF seq[n] \in S THEN Append(sofar, seq[n]) ELSE sofar

(* What is kept of every prefix of the sequence.                           *)
Kept(g, seq, S) ==
    /\ g[0] = <<>>
    /\ \A n \in 1 .. Len(seq) : g[n] = KeepNext(g[n - 1], seq, n, S)

(* The recursive function of InOrder exists, since it can be built up to   *)
(* any index.                                                              *)
LEMMA InOrderDefined ==
    ASSUME NEW seq, NEW S, Len(seq) \in Nat
    PROVE  \E g : Kept(g, seq, S) /\ InOrder(seq, S) = g[Len(seq)]
  <1> DEFINE L == Len(seq)
             Body(g) == [n \in 0 .. L |-> IF n = 0 THEN <<>> ELSE KeepNext(g[n - 1], seq, n, S)]
             Begun(g, n) == g[0] = <<>> /\ \A i \in 1 .. n : g[i] = KeepNext(g[i - 1], seq, i, S)
             T == {n \in 0 .. L : \E g : Begun(g, n)}
             c == CHOOSE g : g = Body(g)
  <1>1. L \in Nat
    OBVIOUS
  <1>2. 0 \in T
    <2>1. Begun([i \in 0 .. 0 |-> <<>>], 0)
      OBVIOUS
    <2>2. 0 \in 0 .. L
      BY <1>1
    <2> HIDE DEF Begun, L
    <2> QED
      BY <2>1, <2>2, Zenon
  <1>3. ASSUME NEW n \in 1 .. L, n - 1 \in T
        PROVE  n \in T
    <2>1. PICK g : Begun(g, n - 1)
      BY <1>3
    <2> DEFINE h == [i \in 0 .. n |-> IF i = n THEN KeepNext(g[n - 1], seq, n, S) ELSE g[i]]
    <2>2. h[0] = <<>>
      BY <2>1
    <2>3. ASSUME NEW i \in 1 .. n
          PROVE  h[i] = KeepNext(h[i - 1], seq, i, S)
      <3>1. h[i - 1] = g[i - 1]
        OBVIOUS
      <3>2. CASE i = n
        BY <3>1, <3>2
      <3>3. CASE i # n
        <4>1. i \in 1 .. n - 1 /\ h[i] = g[i]
          BY <3>3
        <4> QED
          BY <2>1, <3>1, <4>1
      <3> QED
        BY <3>2, <3>3
    <2>4. Begun(h, n)
      BY <2>2, <2>3
    <2>5. n \in 0 .. L
      BY <1>1
    <2> HIDE DEF Begun, L, h
    <2> QED
      BY <2>4, <2>5, Zenon
  <1>4. L \in T
    <2> HIDE DEF T, L
    <2>1. \A n \in 1 .. L : n - 1 \in T => n \in T
      BY <1>3
    <2>2. \A n \in 0 .. L : n \in T
      BY <1>1, <1>2, <2>1, StepByStep
    <2> QED
      BY <1>1, <2>2
  <1>5. PICK g : Begun(g, L)
    BY <1>4
  <1> DEFINE h == [n \in 0 .. L |-> g[n]]
  <1>6. h = Body(h)
    <2>1. ASSUME NEW n \in 0 .. L
          PROVE  h[n] = Body(h)[n]
      <3>1. CASE n = 0
        BY <1>5, <3>1
      <3>2. CASE n # 0
        <4>1. n \in 1 .. L /\ n - 1 \in 0 .. L /\ h[n - 1] = g[n - 1]
          BY <1>1, <3>2
        <4>2. h[n] = KeepNext(g[n - 1], seq, n, S)
          BY <1>5, <4>1
        <4>3. Body(h)[n] = KeepNext(h[n - 1], seq, n, S)
          BY <3>2
        <4> QED
          BY <4>1, <4>2, <4>3
      <3> QED
        BY <3>1, <3>2
    <2> QED
      BY <2>1
  <1> HIDE DEF h
  <1>7. c = Body(c)
    BY <1>6
  <1>8. InOrder(seq, S) = c[L]
    BY DEF InOrder, KeepNext
  <1> HIDE DEF c
  <1>9. Kept(c, seq, S)
    <2>1. c[0] = <<>>
      BY <1>1, <1>7
    <2>2. ASSUME NEW n \in 1 .. L
          PROVE  c[n] = KeepNext(c[n - 1], seq, n, S)
      <3>1. n \in 0 .. L /\ n # 0
        BY <1>1
      <3> QED
        BY <1>7, <3>1
    <2> QED
      BY <2>1, <2>2 DEF Kept
  <1> QED
    BY <1>8, <1>9

(* What is kept of a prefix: elements of the prefix that are in the set,   *)
(* each of them, and no more than the prefix is long.                      *)
KeptOk(w, seq, n, S, A) ==
    /\ w \in Seq(A) /\ Len(w) <= n
    /\ \A i \in 1 .. Len(w) : \E j \in 1 .. n : w[i] = seq[j] /\ seq[j] \in S
    /\ \A j \in 1 .. n : seq[j] \in S => \E i \in 1 .. Len(w) : w[i] = seq[j]

(* Looking at one more element keeps it so.                                *)
LEMMA KeepNextOk ==
    ASSUME NEW A, NEW seq \in Seq(A), NEW S, NEW n \in 1 .. Len(seq), NEW w,
           KeptOk(w, seq, n - 1, S, A)
    PROVE  KeptOk(KeepNext(w, seq, n, S), seq, n, S, A)
  <1>1. w \in Seq(A) /\ Len(w) <= n - 1 /\ Len(w) \in Nat /\ seq[n] \in A
    BY DEF KeptOk
  <1>2. CASE seq[n] \notin S
    <2>1. KeepNext(w, seq, n, S) = w
      BY <1>2 DEF KeepNext
    <2>2. \A i \in 1 .. Len(w) : \E j \in 1 .. n : w[i] = seq[j] /\ seq[j] \in S
      BY DEF KeptOk
    <2>3. \A j \in 1 .. n : seq[j] \in S => \E i \in 1 .. Len(w) : w[i] = seq[j]
      <3>1. ASSUME NEW j \in 1 .. n, seq[j] \in S
            PROVE  \E i \in 1 .. Len(w) : w[i] = seq[j]
        <4>1. j \in 1 .. n - 1
          BY <1>2, <3>1
        <4> QED
          BY <3>1, <4>1 DEF KeptOk
      <3> QED
        BY <3>1
    <2> QED
      BY <1>1, <2>1, <2>2, <2>3 DEF KeptOk
  <1>3. CASE seq[n] \in S
    <2> DEFINE u == Append(w, seq[n])
    <2>1. KeepNext(w, seq, n, S) = u
      BY <1>3 DEF KeepNext
    <2>2. /\ u \in Seq(A) /\ Len(u) = Len(w) + 1 /\ u[Len(u)] = seq[n]
          /\ \A i \in 1 .. Len(w) : u[i] = w[i]
      BY <1>1
    <2> HIDE DEF u
    <2>3. \A i \in 1 .. Len(u) : \E j \in 1 .. n : u[i] = seq[j] /\ seq[j] \in S
      <3>1. ASSUME NEW i \in 1 .. Len(u)
            PROVE  \E j \in 1 .. n : u[i] = seq[j] /\ seq[j] \in S
        <4>1. CASE i = Len(u)
          BY <1>3, <2>2, <4>1
        <4>2. CASE i # Len(u)
          BY <1>1, <2>2, <4>2 DEF KeptOk
        <4> QED
          BY <4>1, <4>2
      <3> QED
        BY <3>1
    <2>4. \A j \in 1 .. n : seq[j] \in S => \E i \in 1 .. Len(u) : u[i] = seq[j]
      <3>1. ASSUME NEW j \in 1 .. n, seq[j] \in S
            PROVE  \E i \in 1 .. Len(u) : u[i] = seq[j]
        <4>1. CASE j = n
          BY <1>1, <2>2, <4>1
        <4>2. CASE j # n
          <5>1. PICK i \in 1 .. Len(w) : w[i] = seq[j]
            BY <3>1, <4>2 DEF KeptOk
          <5> QED
            BY <1>1, <2>2, <5>1
        <4> QED
          BY <4>1, <4>2
      <3> QED
        BY <3>1
    <2> QED
      BY <1>1, <2>1, <2>2, <2>3, <2>4 DEF KeptOk
  <1> QED
    BY <1>2, <1>3

(* What InOrder keeps of every prefix.                                     *)
LEMMA KeptPrefixes ==
    ASSUME NEW A, NEW seq \in Seq(A), NEW S, NEW g, Kept(g, seq, S)
    PROVE  \A n \in 0 .. Len(seq) : KeptOk(g[n], seq, n, S, A)
  <1> DEFINE T == {n \in 0 .. Len(seq) : KeptOk(g[n], seq, n, S, A)}
  <1>1. Len(seq) \in Nat
    OBVIOUS
  <1>2. 0 \in T
    <2>1. g[0] = <<>> /\ <<>> \in Seq(A) /\ Len(<<>>) = 0
      BY DEF Kept
    <2>2. KeptOk(g[0], seq, 0, S, A)
      BY <2>1 DEF KeptOk
    <2> QED
      BY <1>1, <2>2
  <1>3. ASSUME NEW n \in 1 .. Len(seq), n - 1 \in T
        PROVE  n \in T
    <2>1. g[n] = KeepNext(g[n - 1], seq, n, S)
      BY DEF Kept
    <2>2. KeptOk(g[n - 1], seq, n - 1, S, A)
      BY <1>3
    <2> QED
      BY <2>1, <2>2, KeepNextOk
  <1> HIDE DEF T
  <1>4. \A n \in 0 .. Len(seq) : n \in T
    BY <1>1, <1>2, <1>3, StepByStep
  <1> QED
    BY <1>4 DEF T

(* InOrder lists exactly the members of the set that occur in the          *)
(* sequence.                                                               *)
LEMMA InOrderLists ==
    ASSUME NEW A, NEW seq \in Seq(A), NEW S
    PROVE  KeptOk(InOrder(seq, S), seq, Len(seq), S, A)
  <1>1. PICK g : Kept(g, seq, S) /\ InOrder(seq, S) = g[Len(seq)]
    BY InOrderDefined
  <1>2. \A n \in 0 .. Len(seq) : KeptOk(g[n], seq, n, S, A)
    BY <1>1, KeptPrefixes
  <1> QED
    BY <1>1, <1>2

(* The last element of the sequence, if it is in the set and occurs        *)
(* nowhere else, is the last of the list and occurs nowhere else in it.    *)
LEMMA InOrderLast ==
    ASSUME NEW A, NEW p \in Seq(A), NEW x \in A, NEW S, x \in S,
           \A i \in 1 .. Len(p) : p[i] # x
    PROVE  LET w == InOrder(Append(p, x), S)
           IN  /\ Len(w) > 0 /\ w[Len(w)] = x
               /\ \A i \in 1 .. Len(w) - 1 : w[i] # x
  <1> DEFINE seq == Append(p, x)
             w == InOrder(seq, S)
  <1>1. /\ seq \in Seq(A) /\ Len(seq) = Len(p) + 1 /\ seq[Len(seq)] = x
        /\ Len(p) \in Nat /\ \A i \in 1 .. Len(p) : seq[i] = p[i]
    OBVIOUS
  <1> HIDE DEF seq
  <1>2. PICK g : Kept(g, seq, S) /\ w = g[Len(seq)]
    BY <1>1, InOrderDefined
  <1>3. KeptOk(g[Len(p)], seq, Len(p), S, A)
    BY <1>1, <1>2, KeptPrefixes
  <1>4. w = KeepNext(g[Len(p)], seq, Len(seq), S)
    BY <1>1, <1>2 DEF Kept
  <1> HIDE DEF w
  <1>5. w = Append(g[Len(p)], x)
    BY <1>1, <1>4 DEF KeepNext
  <1>6. g[Len(p)] \in Seq(A) /\ \A i \in 1 .. Len(g[Len(p)]) : g[Len(p)][i] # x
    BY <1>1, <1>3 DEF KeptOk
  <1>7. Len(w) > 0 /\ w[Len(w)] = x /\ \A i \in 1 .. Len(w) - 1 : w[i] # x
    BY <1>5, <1>6
  <1> QED
    BY <1>7 DEF w, seq

-----------------------------------------------------------------------------
(* The inductive invariant.                                                *)

(* A build of h goes through, and these are the files it makes.            *)
Builds(h) == h \in Hosts /\ ~\E s \in Sources : SourceFails(h, s)
Release(h) == BuildCorpus(h, h.embed)
ManifestOf(h) == Manifest(h, h.embed)

(* Such a build was written to the end.                                    *)
Finished(h, rel) == Builds(h) /\ \A t \in BuiltTenants(h) : BundleOf(h, t) \in rel

ReleasedOk(rel) ==
    \A b \in rel : \E h \in Hosts : Builds(h) /\ \E t \in BuiltTenants(h) : b = BundleOf(h, t)

(* The builder holds one release and ends with the manifest; once it       *)
(* writes, all that it need not write any more is there, and no manifest.  *)
Elements(s) == {s[i] : i \in 1 .. Len(s)}

LeftOk(left) ==
    /\ left \in Seq(Names) /\ Len(left) > 0 /\ left[Len(left)] = ManifestFile
    /\ \A i \in 1 .. Len(left) - 1 : left[i] # ManifestFile

PartWritten(b, o) ==
    /\ \A n \in Names : n \notin Elements(b.left) => o[n] = b.files[n]
    /\ o[ManifestFile] = NoFile

Writing(b, o) ==
    /\ \E h \in Hosts : Builds(h) /\ b = [files |-> Release(h), left |-> b.left]
    /\ LeftOk(b.left)
    /\ Unwritten(b) \/ PartWritten(b, o)

BuiltOk(b, o) == b = NotBuilding \/ Writing(b, o)

(* A directory with a manifest holds one finished release.                 *)
OutOk(o, rel) ==
    /\ o = [n \in Names |-> o[n]]
    /\ o[ManifestFile] \notin {NoFile, Garbage} =>
         \E h \in Hosts : Finished(h, rel) /\ o = Release(h)

(* The copy's manifest, if there is one, is that of a finished release,    *)
(* perhaps with a digest that gives the damage away.                       *)
DirOk(d, rel) ==
    /\ d = [n \in Names |-> d[n]]
    /\ d[ManifestFile] \in {NoFile, Garbage} \/
       \E h \in Hosts :
          /\ Finished(h, rel)
          /\ \/ d[ManifestFile] = ManifestOf(h)
             \/ d[ManifestFile] = [body |-> ManifestOf(h).body, digest |-> Garbage]

(* The files the importer holds in memory are those of the release whose   *)
(* manifest it read.                                                       *)
GotOk(got, h) ==
    LET ts == Listed(ManifestOf(h).body)
    IN  /\ got \in Seq(Elements(got)) /\ Len(got) <= Len(ts)
        /\ \A i \in 1 .. Len(got) :
             /\ got[i].bundle = BundleOf(h, ts[i])
             /\ TenantEntry(BundleOf(h, ts[i]), h.embed).vectors # NoFile =>
                  got[i].vectors = EmbedVectors(BundleOf(h, ts[i]), h.embed)

(* Where the import stands: what it has merged of the current tenant is in *)
(* the store.                                                              *)
AtOk(m, nodes, es, n) ==
    /\ m.pc \in {"verify", "tenant", "nodes", "record"}
    /\ m.pc = "verify" => m.at = 1
    /\ m.pc # "verify" => Len(m.got) = n
    /\ m.at \in 1 .. Len(m.got) + 1
    /\ m.done \in 0 .. Len(IdOrder)
    /\ m.pc \in {"nodes", "record"} =>
         LET b == m.got[m.at].bundle
         IN  /\ m.at <= Len(m.got)
             /\ m.done <= Len(b.nodes)
             /\ \A i \in 1 .. m.done : b.nodes[i] \in nodes
             /\ m.pc = "record" => m.done = Len(b.nodes) /\ b.edges \subseteq es

Importing(m, nodes, es, rel, h) ==
    /\ Finished(h, rel)
    /\ m = [pc |-> m.pc, body |-> ManifestOf(h).body, model |-> m.model, got |-> m.got,
            at |-> m.at, done |-> m.done]
    /\ GotOk(m.got, h)
    /\ AtOk(m, nodes, es, Len(Listed(m.body)))

ImpOk(m, nodes, es, rel) ==
    m = Idle \/ \E h \in Hosts : Importing(m, nodes, es, rel, h)

(* Every vector is the node's own; while one kind of build imports, all of *)
(* them are of the model that is in use.                                   *)
Own(model, n) == Vector(model, IF model = "bge" THEN AppWeights ELSE NoFile, n)

Models == {"bge", "hashing"}

OneFor(e, m, ls, model) ==
    /\ m # Idle => m.model = model
    /\ \A n \in DOMAIN e : e[n] = Own(model, n)
    /\ ls = {"without"} => model = "hashing"

OfModel(e, m, ls) ==
    /\ ls \subseteq Loads
    /\ ls = {} => m = Idle /\ DOMAIN e = {}
    /\ m # Idle => m.model \in Models
    /\ \A n \in DOMAIN e : \E model \in Models : e[n] = Own(model, n)
    /\ ls \in {{}, {"with"}, {"without"}} => \E model \in Models : OneFor(e, m, ls, model)

StoreOk(e, m, ls) == DOMAIN e \subseteq AllNodes /\ OfModel(e, m, ls)

MetaOk(mt, rel) ==
    /\ mt = [t \in Tenants |-> mt[t]]
    /\ \A t \in Tenants : mt[t] = NoFile \/ (mt[t] \in rel /\ mt[t].tenant = t)

CorpusIInv ==
    /\ BuiltOk(built, out) /\ OutOk(out, released) /\ ReleasedOk(released)
    /\ DirOk(dir, released) /\ ImpOk(imp, DOMAIN emb, edges, released)
    /\ StoreOk(emb, imp, loads) /\ MetaOk(meta, released)
    /\ \A e \in edges : {e.from, e.to} \subseteq AllNodes
    /\ builds \in 0 .. MaxBuilds /\ faults \in 0 .. MaxFaults

-----------------------------------------------------------------------------
(* What a build makes.                                                     *)

(* The nodes of a file's text, and what they name.                         *)
LEMMA NodesOfFile ==
    ASSUME NEW f \in Files, NEW v \in Versions
    PROVE  /\ \A n \in NodesOf(f, v) : n \in AllNodes /\ n[1] = f
           /\ <<f, v, 0>> \in NodesOf(f, v)
  <1>1. \A n \in NodesOf(f, v) : n[1] = f
    BY DEF NodesOf
  <1>2. NodesOf(f, v) \in {NodesOf(g, w) : g \in Files, w \in Versions}
    OBVIOUS
  <1>3. Chunks[f] \in Nat
    BY CorpusAssumption
  <1>4. <<f, v, 0>> \in NodesOf(f, v)
    BY <1>3 DEF NodesOf
  <1> QED
    BY <1>1, <1>2, <1>4 DEF AllNodes

(* A file that a source of a build contributes is a text of that source.   *)
LEMMA FilesOfSource ==
    ASSUME NEW h, NEW s \in Sources, NEW f \in SourceFiles(h, s)
    PROVE  f \in Files /\ SourceOf[f] = s /\ ReadRegular(h, f) \in Versions
  BY DEF SourceFiles, DocsFiles, SkillsFiles, FilesOf

(* The SKILL.md of a file that a skills source contributes is contributed  *)
(* as well: a build with one that is no text fails.                        *)
LEMMA SkillWithRef ==
    ASSUME NEW h, Builds(h), NEW s \in Sources, SourceSpec[s].kind = "skills", ~Skipped(h, s),
           NEW f \in SkillsFiles(h, s)
    PROVE  SkillOf[f] \in SkillsFiles(h, s)
  <1>1. f \in Files /\ SourceOf[f] = s /\ Ships(h, SkillOf[f])
    BY DEF SkillsFiles, FilesOf
  <1>2. SkillOf[f] \in SkillsOf(s)
    BY <1>1, CorpusAssumption
  <1>3. ~SkillsFail(h, s)
    BY DEF Builds, SourceFails
  <1>4. ReadRegular(h, SkillOf[f]) \in Versions
    BY <1>1, <1>2, <1>3 DEF SkillsFail
  <1>5. SkillOf[f] \in FilesOf(s) /\ SkillOf[SkillOf[f]] = SkillOf[f]
    BY <1>2 DEF SkillsOf
  <1> QED
    BY <1>1, <1>4, <1>5 DEF SkillsFiles

(* The graph of a source: nodes of its own files, only if it is included,  *)
(* and edges between them.                                                 *)
LEMMA SourceGraphFacts ==
    ASSUME NEW h, Builds(h), NEW s \in Sources
    PROVE  LET g == SourceGraph(h, s)
           IN  /\ \A n \in g.nodes : n \in AllNodes /\ SourceOf[n[1]] = s /\ Included(h, s)
               /\ \A e \in g.edges : e.from \in g.nodes /\ e.to \in g.nodes
  <1> DEFINE files == IF Skipped(h, s) THEN {} ELSE SourceFiles(h, s)
             added == {AddFile(f, ReadRegular(h, f)) : f \in files}
             refs == IF SourceSpec[s].kind = "skills" /\ files # {}
                     THEN ReferenceEdges(h, s) ELSE {}
             ns == UNION {a.nodes : a \in added}
             es == (UNION {a.edges : a \in added}) \cup refs
             g == SourceGraph(h, s)
  <1>1. g = [nodes |-> ns, edges |-> es]
    BY Zenon DEF SourceGraph
  <1>2. \A f \in files : /\ f \in Files /\ SourceOf[f] = s /\ ReadRegular(h, f) \in Versions
                         /\ ~Skipped(h, s) /\ f \in SourceFiles(h, s)
    BY FilesOfSource
  <1>3. files # {} => Included(h, s)
    BY <1>2 DEF Included, SourceFiles
  <1>4. ASSUME NEW n \in ns
        PROVE  \E f \in files : n \in NodesOf(f, ReadRegular(h, f))
    <2>1. PICK a \in added : n \in a.nodes
      OBVIOUS
    <2>2. PICK f \in files : a = AddFile(f, ReadRegular(h, f))
      OBVIOUS
    <2> HIDE DEF files
    <2> QED
      BY <2>1, <2>2 DEF AddFile
  <1>5. \A f \in files : \A n \in NodesOf(f, ReadRegular(h, f)) : n \in ns
    <2>1. ASSUME NEW f \in files
          PROVE  NodesOf(f, ReadRegular(h, f)) \subseteq ns
      <3>1. AddFile(f, ReadRegular(h, f)) \in added
        OBVIOUS
      <3>2. AddFile(f, ReadRegular(h, f)).nodes = NodesOf(f, ReadRegular(h, f))
        BY DEF AddFile
      <3> HIDE DEF added
      <3> QED
        BY <3>1, <3>2
    <2> QED
      BY <2>1
  <1>6. \A n \in ns : n \in AllNodes /\ SourceOf[n[1]] = s /\ Included(h, s)
    <2>1. ASSUME NEW n \in ns
          PROVE  n \in AllNodes /\ SourceOf[n[1]] = s /\ Included(h, s)
      <3>1. PICK f \in files : n \in NodesOf(f, ReadRegular(h, f))
        BY <1>4
      <3> HIDE DEF files, ns
      <3>2. f \in Files /\ SourceOf[f] = s /\ ReadRegular(h, f) \in Versions /\ Included(h, s)
        BY <1>2, <1>3
      <3>3. n \in AllNodes /\ n[1] = f
        BY <3>1, <3>2, NodesOfFile
      <3> QED
        BY <3>2, <3>3
    <2> QED
      BY <2>1
  <1>7. \A e \in es : e.from \in ns /\ e.to \in ns
    <2>1. ASSUME NEW a \in added, NEW e \in a.edges
          PROVE  e.from \in ns /\ e.to \in ns
      <3>1. PICK f \in files : a = AddFile(f, ReadRegular(h, f))
        OBVIOUS
      <3> DEFINE v == ReadRegular(h, f)
      <3>2. PICK n \in NodesOf(f, v) : e = CorpusEdge(n, <<f, v, 0>>, "DerivedFrom")
        BY <3>1 DEF AddFile
      <3>3. e.from = n /\ e.to = <<f, v, 0>>
        BY <3>2 DEF CorpusEdge
      <3> HIDE DEF files, ns
      <3> QED
        BY <1>2, <1>5, <3>3, NodesOfFile
    <2>2. ASSUME NEW e \in refs
          PROVE  e.from \in ns /\ e.to \in ns
      <3>1. SourceSpec[s].kind = "skills" /\ files # {} /\ e \in ReferenceEdges(h, s)
        OBVIOUS
      <3>2. PICK f \in SkillsFiles(h, s) :
               e = CorpusEdge(<<SkillOf[f], ReadRegular(h, SkillOf[f]), 0>>,
                              <<f, ReadRegular(h, f), 0>>, "References")
        BY <3>1 DEF ReferenceEdges
      <3>3. /\ e.from = <<SkillOf[f], ReadRegular(h, SkillOf[f]), 0>>
            /\ e.to = <<f, ReadRegular(h, f), 0>>
        BY <3>2 DEF CorpusEdge
      <3>4. ~Skipped(h, s) /\ files = SkillsFiles(h, s)
        BY <1>2, <3>1 DEF SourceFiles
      <3>5. SkillOf[f] \in files /\ f \in files
        BY <3>1, <3>4, SkillWithRef
      <3> HIDE DEF files, ns
      <3> QED
        BY <1>2, <1>5, <3>3, <3>5, NodesOfFile
    <2> QED
      BY <2>1, <2>2
  <1> HIDE DEF ns, es
  <1> QED
    BY <1>1, <1>6, <1>7

(* A bundle of a tenant: nodes that a build can mint, of that tenant, and  *)
(* edges within the bundle.                                                *)
BundleOk(b, t) ==
    /\ b.tenant = t
    /\ b.nodes \in Seq(AllNodes) /\ Len(b.nodes) \in 0 .. Len(IdOrder)
    /\ \A n \in NodeSet(b) : n \in AllNodes /\ TenantOf(n[1]) = t
    /\ \A e \in b.edges : e.from \in NodeSet(b) /\ e.to \in NodeSet(b)

(* The bundles of a build, of included sources only.                       *)
LEMMA BundleFacts ==
    ASSUME NEW h, Builds(h), NEW t
    PROVE  /\ BundleOk(BundleOf(h, t), t)
           /\ \A n \in NodeSet(BundleOf(h, t)) :
                SourceOf[n[1]] \in {s \in Sources : Included(h, s)}
  <1> DEFINE mine == {q \in Sources : SourceSpec[q].tenant = t}
             graphs == {SourceGraph(h, s) : s \in mine}
             ids == UNION {g.nodes : g \in graphs}
             es == UNION {g.edges : g \in graphs}
             b == BundleOf(h, t)
  <1>1. b.tenant = t /\ b.nodes = InOrder(IdOrder, ids) /\ b.edges = es
    BY DEF BundleOf
  <1> HIDE DEF b
  <1>2. \A s \in mine :
           /\ \A n \in SourceGraph(h, s).nodes :
                 n \in AllNodes /\ SourceOf[n[1]] = s /\ Included(h, s)
           /\ \A e \in SourceGraph(h, s).edges :
                 e.from \in SourceGraph(h, s).nodes /\ e.to \in SourceGraph(h, s).nodes
    BY SourceGraphFacts
  <1>3. \A n \in ids : /\ n \in AllNodes /\ TenantOf(n[1]) = t
                       /\ SourceOf[n[1]] \in {s \in Sources : Included(h, s)}
    <2>1. ASSUME NEW n \in ids
          PROVE  \E s \in mine : n \in SourceGraph(h, s).nodes
      OBVIOUS
    <2> HIDE DEF ids
    <2> QED
      BY <1>2, <2>1 DEF TenantOf
  <1>4. \A e \in es : e.from \in ids /\ e.to \in ids
    <2>1. ASSUME NEW e \in es
          PROVE  \E s \in mine : e \in SourceGraph(h, s).edges
      OBVIOUS
    <2>2. \A s \in mine : SourceGraph(h, s).nodes \subseteq ids
      OBVIOUS
    <2> HIDE DEF ids, es, mine
    <2> QED
      BY <1>2, <2>1, <2>2
  <1> HIDE DEF ids, es
  <1>5. IdOrder \in Seq(AllNodes) /\ AllNodes = {IdOrder[i] : i \in 1 .. Len(IdOrder)}
    BY CorpusAssumption
  <1>6. KeptOk(b.nodes, IdOrder, Len(IdOrder), ids, AllNodes)
    BY <1>1, <1>5, InOrderLists
  <1>7. NodeSet(b) = ids
    <2>1. \A n \in NodeSet(b) : n \in ids
      BY <1>6 DEF NodeSet, KeptOk
    <2>2. ASSUME NEW n \in ids
          PROVE  n \in NodeSet(b)
      <3>1. PICK j \in 1 .. Len(IdOrder) : IdOrder[j] = n
        BY <1>3, <1>5
      <3> QED
        BY <1>6, <3>1 DEF NodeSet, KeptOk
    <2> QED
      BY <2>1, <2>2
  <1>8. b.nodes \in Seq(AllNodes) /\ Len(b.nodes) \in 0 .. Len(IdOrder)
    BY <1>5, <1>6 DEF KeptOk
  <1>9. BundleOk(b, t)
    BY <1>1, <1>3, <1>4, <1>7, <1>8 DEF BundleOk
  <1> QED
    BY <1>3, <1>7, <1>9 DEF b

(* The fields of a manifest and of its entries.                            *)
LEMMA ManifestFields ==
    ASSUME NEW h
    PROVE  /\ ManifestOf(h) = [body |-> ManifestOf(h).body, digest |-> ManifestOf(h).body]
           /\ ManifestOf(h).body.included = {s \in Sources : Included(h, s)}
           /\ DOMAIN ManifestOf(h).body.tenants = BuiltTenants(h)
           /\ \A t \in BuiltTenants(h) :
                ManifestOf(h).body.tenants[t] = TenantEntry(BundleOf(h, t), h.embed)
  BY DEF ManifestOf, Manifest, WithDigest

(* What a tenant's manifest entry records of its bundle: digest, counts
   and, when weights were embedded, its vectors (TenantEntry in the builder). *)
LEMMA EntryFields ==
    ASSUME NEW b, NEW w
    PROVE  LET e == TenantEntry(b, w)
           IN  /\ e.sha = b /\ e.nodes = Len(b.nodes) /\ e.edges = Cardinality(b.edges)
               /\ e.vectors # NoFile => /\ w # NoFile
                                        /\ e.vectors.sha = EmbedVectors(b, w)
                                        /\ e.vectors.weights = w
  BY DEF TenantEntry

(* The names of the files are names, and are told apart.                   *)
LEMMA NamesApart ==
    /\ \A t \in Tenants : /\ BundleFile(t) \in Names /\ VectorsFile(t) \in Names
                          /\ BundleFile(t)[1] = "bundle" /\ BundleFile(t)[2] = t
                          /\ VectorsFile(t)[1] = "vectors" /\ VectorsFile(t)[2] = t
    /\ LockFile \in Names /\ NoticeFile \in Names /\ ManifestFile \in Names
    /\ LockFile[1] = "lock" /\ NoticeFile[1] = "notice" /\ ManifestFile[1] = "manifest"
    /\ \A t \in Tenants : BundleFile(t) # ManifestFile /\ VectorsFile(t) # ManifestFile
    /\ LockFile # ManifestFile /\ NoticeFile # ManifestFile
  BY DEF Names, BundleFile, VectorsFile, LockFile, NoticeFile, ManifestFile

(* The files of a release.                                                 *)
LEMMA ReleaseFiles ==
    ASSUME NEW h
    PROVE  /\ Release(h) = [n \in Names |-> Release(h)[n]]
           /\ \A t \in Tenants :
                Release(h)[BundleFile(t)] = IF t \in BuiltTenants(h) THEN BundleOf(h, t) ELSE NoFile
           /\ \A t \in Tenants :
                Release(h)[VectorsFile(t)] =
                  IF h.embed # NoFile /\ t \in BuiltTenants(h)
                  THEN EmbedVectors(BundleOf(h, t), h.embed) ELSE NoFile
           /\ Release(h)[LockFile] = ManifestOf(h).body.lock
           /\ Release(h)[NoticeFile] = ManifestOf(h).body.included
           /\ Release(h)[ManifestFile] = ManifestOf(h)
  <1> DEFINE r == Release(h)
  <1>1. r = [n \in Names |->
               IF n[1] = "bundle" THEN IF n[2] \in BuiltTenants(h) THEN BundleOf(h, n[2]) ELSE NoFile
               ELSE IF n[1] = "vectors"
                    THEN IF h.embed # NoFile /\ n[2] \in BuiltTenants(h)
                         THEN EmbedVectors(BundleOf(h, n[2]), h.embed) ELSE NoFile
               ELSE IF n[1] = "lock" THEN ManifestOf(h).body.lock
               ELSE IF n[1] = "notice" THEN Notice(ManifestOf(h))
               ELSE ManifestOf(h)]
    BY DEF Release, BuildCorpus, ManifestOf
  <1> HIDE DEF r
  <1>2. r = [n \in Names |-> r[n]]
    BY <1>1
  <1>3. ASSUME NEW t \in Tenants
        PROVE  /\ r[BundleFile(t)] = IF t \in BuiltTenants(h) THEN BundleOf(h, t) ELSE NoFile
               /\ r[VectorsFile(t)] = IF h.embed # NoFile /\ t \in BuiltTenants(h)
                                      THEN EmbedVectors(BundleOf(h, t), h.embed) ELSE NoFile
    BY <1>1, NamesApart
  <1>4. /\ r[LockFile] = ManifestOf(h).body.lock
        /\ r[NoticeFile] = ManifestOf(h).body.included
        /\ r[ManifestFile] = ManifestOf(h)
    BY <1>1, NamesApart DEF Notice
  <1> QED
    BY <1>2, <1>3, <1>4 DEF r

(* The built tenants are tenants, and their bundles and the manifest are   *)
(* told from a file that is missing.                                       *)
LEMMA BuiltFacts ==
    ASSUME NEW h, Builds(h)
    PROVE  /\ BuiltTenants(h) \subseteq Tenants
           /\ \A t \in Tenants : BundleOf(h, t) # NoFile
           /\ ManifestOf(h) \notin {NoFile, Garbage} /\ ManifestOf(h).body # Garbage
  BY ContentsAssumption DEF BuiltTenants, Builds, ManifestOf

(* The vectors of a bundle, one per node.                                  *)
LEMMA VectorsOfBundle ==
    ASSUME NEW b, NEW w, Len(b.nodes) \in Nat
    PROVE  /\ Len(EmbedVectors(b, w)) = Len(b.nodes)
           /\ \A i \in 1 .. Len(b.nodes) : EmbedVectors(b, w)[i] = Vector("bge", w, b.nodes[i])
  BY DEF EmbedVectors

(* A release passes every check of the importer and its NOTICE lists every *)
(* source in it.                                                           *)
LEMMA ReleaseFit ==
    ASSUME NEW h, Builds(h)
    PROVE  LET d == Release(h)
           IN  /\ ManifestOk(d) /\ LockOk(d, d[ManifestFile].body)
               /\ \A t \in DOMAIN d[ManifestFile].body.tenants :
                    TenantOk(d, t, d[ManifestFile].body.tenants[t])
               /\ \A t \in DOMAIN d[ManifestFile].body.tenants :
                    \A n \in NodeSet(d[BundleFile(t)]) : SourceOf[n[1]] \in d[NoticeFile]
  <1> DEFINE d == Release(h)
             m == ManifestOf(h)
  <1>1. /\ d[ManifestFile] = m /\ m \notin {NoFile, Garbage} /\ m.digest = m.body
        /\ d[LockFile] = m.body.lock /\ DOMAIN m.body.tenants = BuiltTenants(h)
        /\ d[NoticeFile] = {s \in Sources : Included(h, s)}
    <2>1. m \notin {NoFile, Garbage}
      BY BuiltFacts
    <2>2. m = [body |-> m.body, digest |-> m.body]
      BY ManifestFields
    <2>3. m.digest = m.body
      <3> HIDE DEF m
      <3> QED
        BY <2>2
    <2> QED
      BY <2>1, <2>3, ReleaseFiles, ManifestFields
  <1>2. ASSUME NEW t \in BuiltTenants(h)
        PROVE  /\ TenantOk(d, t, m.body.tenants[t])
               /\ \A n \in NodeSet(d[BundleFile(t)]) : SourceOf[n[1]] \in d[NoticeFile]
    <2> DEFINE b == BundleOf(h, t)
               e == m.body.tenants[t]
    <2>1. t \in Tenants /\ d[BundleFile(t)] = b
      BY BuiltFacts, ReleaseFiles
    <2>2. e = TenantEntry(b, h.embed)
      BY ManifestFields
    <2>3. BundleOk(b, t) /\ \A n \in NodeSet(b) : SourceOf[n[1]] \in {s \in Sources : Included(h, s)}
      BY BundleFacts
    <2>4. h.embed # NoFile => d[VectorsFile(t)] = EmbedVectors(b, h.embed)
      BY <2>1, ReleaseFiles
    <2> HIDE DEF b, d, m, e
    <2>5. /\ e.sha = b /\ e.nodes = Len(b.nodes) /\ e.edges = Cardinality(b.edges)
          /\ e.vectors # NoFile => /\ h.embed # NoFile
                                   /\ e.vectors.sha = EmbedVectors(b, h.embed)
      BY <2>2, EntryFields
    <2>6. CheckBundle(t, e, b)
      BY <2>3, <2>5 DEF CheckBundle, BundleOk
    <2>7. Len(b.nodes) \in Nat
      BY <2>3 DEF BundleOk
    <2>8. VectorsOk(d, t, e)
      BY <2>4, <2>5, <2>7, VectorsOfBundle DEF VectorsOk
    <2> QED
      BY <1>1, <2>1, <2>3, <2>5, <2>6, <2>8 DEF TenantOk, e
  <1> HIDE DEF d, m
  <1>3. ManifestOk(d) /\ LockOk(d, m.body)
    BY <1>1 DEF ManifestOk, LockOk
  <1> QED
    BY <1>1, <1>2, <1>3 DEF d

-----------------------------------------------------------------------------
(* The order of the writes.                                                *)

(* Every file but the manifest is in the payload.                          *)
LEMMA PayloadNames ==
    /\ Payload \in Seq(Names)
    /\ \A i \in 1 .. Len(Payload) : Payload[i] # ManifestFile
    /\ \A n \in Names : n # ManifestFile => \E i \in 1 .. Len(Payload) : Payload[i] = n
  <1> DEFINE L == Len(TenantOrder)
             bs == [i \in 1 .. L |-> BundleFile(TenantOrder[i])]
             vs == [i \in 1 .. L |-> VectorsFile(TenantOrder[i])]
             ln == <<LockFile, NoticeFile>>
             Rest == Names \ {ManifestFile}
  <1>1. L \in Nat /\ \A i \in 1 .. L : TenantOrder[i] \in Tenants
    BY CorpusAssumption
  <1>2. bs \in Seq(Rest) /\ Len(bs) = L
    BY <1>1, NamesApart
  <1>3. vs \in Seq(Rest) /\ Len(vs) = L
    BY <1>1, NamesApart
  <1>4. ln \in Seq(Rest) /\ Len(ln) = 2 /\ ln[1] = LockFile /\ ln[2] = NoticeFile
    BY NamesApart
  <1>5. \A t \in Tenants : \E i \in 1 .. L : bs[i] = BundleFile(t) /\ vs[i] = VectorsFile(t)
    BY <1>1 DEF Tenants
  <1>6. Payload = (bs \o vs) \o ln
    BY DEF Payload
  <1> HIDE DEF bs, vs, ln, L
  <1> DEFINE bv == bs \o vs
  <1>7. /\ bv \in Seq(Rest) /\ Len(bv) = L + L
        /\ \A i \in 1 .. L : bv[i] = bs[i] /\ bv[L + i] = vs[i]
    BY <1>1, <1>2, <1>3
  <1> HIDE DEF bv
  <1>8. /\ Payload \in Seq(Rest) /\ Len(Payload) = L + L + 2
        /\ \A i \in 1 .. L + L : Payload[i] = bv[i]
        /\ Payload[L + L + 1] = LockFile /\ Payload[L + L + 2] = NoticeFile
    <2> DEFINE M == L + L
    <2>1. Payload = bv \o ln
      BY <1>6 DEF bv
    <2>2. M \in Nat
      BY <1>1
    <2> HIDE DEF M, Rest
    <2>3. Len(bv) = M
      BY <1>7 DEF M
    <2>4. /\ Payload \in Seq(Rest) /\ Len(Payload) = M + 2
          /\ \A i \in 1 .. M + 2 : Payload[i] = IF i <= M THEN bv[i] ELSE ln[i - M]
      <3>1. bv \in Seq(Rest) /\ ln \in Seq(Rest)
        BY <1>4, <1>7
      <3>2. /\ bv \o ln \in Seq(Rest) /\ Len(bv \o ln) = Len(bv) + Len(ln)
            /\ \A i \in 1 .. Len(bv) + Len(ln) :
                 (bv \o ln)[i] = IF i <= Len(bv) THEN bv[i] ELSE ln[i - Len(bv)]
        BY <3>1, ConcatProperties, Zenon
      <3>3. Len(ln) = 2
        BY <1>4
      <3> HIDE DEF Payload
      <3> QED
        BY <2>1, <2>3, <3>2, <3>3, Zenon
    <2>5. \A i \in 1 .. M : Payload[i] = bv[i]
      BY <2>2, <2>4
    <2>6. Payload[M + 1] = ln[1] /\ Payload[M + 2] = ln[2]
      BY <2>2, <2>4
    <2> QED
      BY <1>4, <2>4, <2>5, <2>6 DEF M
  <1>9. ASSUME NEW t \in Tenants
        PROVE  \E i, j \in 1 .. Len(Payload) :
                  Payload[i] = BundleFile(t) /\ Payload[j] = VectorsFile(t)
    <2>1. PICK i \in 1 .. L : bs[i] = BundleFile(t) /\ vs[i] = VectorsFile(t)
      BY <1>5
    <2>2. i \in 1 .. Len(Payload) /\ L + i \in 1 .. Len(Payload)
      BY <1>1, <1>8
    <2>3. Payload[i] = BundleFile(t) /\ Payload[L + i] = VectorsFile(t)
      BY <1>1, <1>7, <1>8, <2>1
    <2> QED
      BY <2>2, <2>3
  <1>10. L + L + 1 \in 1 .. Len(Payload) /\ L + L + 2 \in 1 .. Len(Payload)
    BY <1>1, <1>8
  <1>11. \A n \in Names : n # ManifestFile => \E i \in 1 .. Len(Payload) : Payload[i] = n
    BY <1>8, <1>9, <1>10 DEF Names
  <1>12. Payload \in Seq(Names) /\ \A i \in 1 .. Len(Payload) : Payload[i] # ManifestFile
    BY <1>8
  <1> QED
    BY <1>11, <1>12

(* write_corpus writes every file that the build made, the manifest last.  *)
LEMMA WriteOrderEnds ==
    ASSUME NEW files, files[ManifestFile] # NoFile
    PROVE  /\ LeftOk(WriteOrder(files))
           /\ \A n \in Names : files[n] # NoFile => n \in Elements(WriteOrder(files))
  <1> DEFINE S == {n \in Names : files[n] # NoFile}
             seq == Append(Payload, ManifestFile)
             w == WriteOrder(files)
  <1>1. ManifestFile \in Names /\ ManifestFile \in S
    BY NamesApart
  <1>2. w = InOrder(seq, S)
    BY DEF WriteOrder
  <1> HIDE DEF w, S
  <1>3. Len(w) > 0 /\ w[Len(w)] = ManifestFile /\ \A i \in 1 .. Len(w) - 1 : w[i] # ManifestFile
    BY <1>1, <1>2, PayloadNames, InOrderLast
  <1>4. /\ seq \in Seq(Names) /\ Len(seq) = Len(Payload) + 1
        /\ seq[Len(seq)] = ManifestFile /\ Len(Payload) \in Nat
        /\ \A i \in 1 .. Len(Payload) : seq[i] = Payload[i]
    BY <1>1, PayloadNames
  <1> HIDE DEF seq
  <1>5. KeptOk(w, seq, Len(seq), S, Names)
    BY <1>2, <1>4, InOrderLists
  <1>6. LeftOk(w)
    BY <1>3, <1>5 DEF LeftOk, KeptOk
  <1>7. ASSUME NEW n \in Names, files[n] # NoFile
        PROVE  n \in Elements(w)
    <2>1. n \in S
      BY <1>7 DEF S
    <2>2. PICK j \in 1 .. Len(seq) : seq[j] = n
      BY <1>4, PayloadNames
    <2>3. PICK i \in 1 .. Len(w) : w[i] = n
      BY <1>5, <2>1, <2>2 DEF KeptOk
    <2> QED
      BY <2>3 DEF Elements
  <1> QED
    BY <1>6, <1>7 DEF w

(* The tenants of a manifest, in import order.                             *)
LEMMA ListedTenants ==
    ASSUME NEW h, Builds(h)
    PROVE  LET ts == Listed(ManifestOf(h).body)
           IN  ts \in Seq(BuiltTenants(h))
  <1> DEFINE ts == Listed(ManifestOf(h).body)
  <1>1. ts = InOrder(TenantOrder, BuiltTenants(h))
    BY ManifestFields DEF Listed
  <1>2. KeptOk(ts, TenantOrder, Len(TenantOrder), BuiltTenants(h), Tenants)
    BY <1>1, CorpusAssumption, InOrderLists
  <1> HIDE DEF ts
  <1>3. ts \in Seq(Tenants) /\ \A i \in 1 .. Len(ts) : ts[i] \in BuiltTenants(h)
    BY <1>2 DEF KeptOk
  <1> QED
    BY <1>3 DEF ts

-----------------------------------------------------------------------------
(* Releases only accumulate.                                               *)

(* A finished build stays finished when another one is released.           *)
LEMMA FinishedGrows ==
    ASSUME NEW h, NEW rel, NEW rel2, rel \subseteq rel2, Finished(h, rel)
    PROVE  Finished(h, rel2)
  BY DEF Finished

(* Every part of the invariant that speaks of the released builds survives
   a new release.                                                          *)
LEMMA ReleasedGrows ==
    ASSUME NEW rel, NEW rel2, rel \subseteq rel2
    PROVE  /\ \A d : DirOk(d, rel) => DirOk(d, rel2)
           /\ \A m, nodes, es : ImpOk(m, nodes, es, rel) => ImpOk(m, nodes, es, rel2)
           /\ \A mt : MetaOk(mt, rel) => MetaOk(mt, rel2)
           /\ \A o : OutOk(o, rel) => OutOk(o, rel2)
  <1>1. \A h : Finished(h, rel) => Finished(h, rel2)
    BY FinishedGrows
  <1>2. \A d : DirOk(d, rel) => DirOk(d, rel2)
    BY <1>1 DEF DirOk
  <1>3. \A m, nodes, es, h : Importing(m, nodes, es, rel, h) => Importing(m, nodes, es, rel2, h)
    BY <1>1, Zenon DEF Importing
  <1>4. \A m, nodes, es : ImpOk(m, nodes, es, rel) => ImpOk(m, nodes, es, rel2)
    BY <1>3, Zenon DEF ImpOk
  <1>5. \A mt : MetaOk(mt, rel) => MetaOk(mt, rel2)
    BY DEF MetaOk
  <1>6. \A o : OutOk(o, rel) => OutOk(o, rel2)
    BY <1>1, Zenon DEF OutOk
  <1> QED
    BY <1>2, <1>4, <1>5, <1>6

-----------------------------------------------------------------------------
(* The builder's steps.                                                    *)

(* The invariant holds before the first build.                             *)
LEMMA CorpusInitInv == CorpusInit => CorpusIInv
  <1> SUFFICES ASSUME CorpusInit
               PROVE  CorpusIInv
    OBVIOUS
  <1>1. ManifestFile \in Names
    BY NamesApart
  <1>2. EmptyDir = [n \in Names |-> EmptyDir[n]] /\ EmptyDir[ManifestFile] = NoFile
    BY <1>1 DEF EmptyDir
  <1>3. BuiltOk(built, out) /\ OutOk(out, released) /\ ReleasedOk(released) /\ DirOk(dir, released)
    BY <1>2 DEF CorpusInit, BuiltOk, OutOk, ReleasedOk, DirOk
  <1>4. ImpOk(imp, DOMAIN emb, edges, released)
    BY DEF CorpusInit, ImpOk, Idle
  <1>5. DOMAIN emb = {} /\ imp = Idle /\ loads = {}
    BY DEF CorpusInit, Idle
  <1>6. StoreOk(emb, imp, loads)
    <2>1. "bge" \in Models /\ OneFor(emb, imp, loads, "bge")
      BY <1>5 DEF Models, OneFor
    <2> QED
      BY <1>5, <2>1 DEF StoreOk, OfModel
  <1>7. MetaOk(meta, released)
    BY DEF CorpusInit, MetaOk
  <1>8. /\ \A e \in edges : {e.from, e.to} \subseteq AllNodes
        /\ builds \in 0 .. MaxBuilds /\ faults \in 0 .. MaxFaults
    BY CorpusAssumption DEF CorpusInit
  <1> QED
    BY <1>3, <1>4, <1>6, <1>7, <1>8 DEF CorpusIInv

(* A build that goes through is about to be written.                       *)
LEMMA BuildOk ==
    ASSUME NEW h \in Hosts, Build(h)
    PROVE  BuiltOk(built', out')
  <1>1. Builds(h)
    BY DEF Build, Builds
  <1>2. built' = [files |-> Release(h), left |-> WriteOrder(Release(h))]
    BY DEF Build, Release
  <1>3. Release(h)[ManifestFile] # NoFile
    BY <1>1, ReleaseFiles, BuiltFacts
  <1>4. LeftOk(WriteOrder(Release(h)))
    BY <1>3, WriteOrderEnds
  <1>5. built'.files = Release(h) /\ built'.left = WriteOrder(Release(h))
    BY <1>2
  <1>6. built' = [files |-> Release(h), left |-> built'.left] /\ Unwritten(built')
    BY <1>2, <1>5 DEF Unwritten
  <1>7. Writing(built', out')
    BY <1>1, <1>4, <1>5, <1>6 DEF Writing
  <1> QED
    BY <1>7 DEF BuiltOk

(* While it writes, the builder has put every file in place that it need   *)
(* not write any more.                                                     *)
LEMMA WritingFacts ==
    ASSUME BuiltOk(built, out), built # NotBuilding, Unwritten(built) => out = EmptyDir
    PROVE  \E h \in Hosts :
              /\ Builds(h) /\ built = [files |-> Release(h), left |-> built.left]
              /\ built.files = Release(h)
              /\ LeftOk(built.left) /\ PartWritten(built, out)
  <1>1. Writing(built, out)
    BY DEF BuiltOk
  <1>2. PICK h \in Hosts : Builds(h) /\ built = [files |-> Release(h), left |-> built.left]
    BY <1>1 DEF Writing
  <1>3. built.files = Release(h)
    BY <1>2
  <1>4. PartWritten(built, out)
    <2>1. CASE ~Unwritten(built)
      BY <1>1, <2>1 DEF Writing
    <2>2. CASE Unwritten(built)
      <3>1. Release(h)[ManifestFile] # NoFile
        BY <1>2, ReleaseFiles, BuiltFacts
      <3>2. built.left = WriteOrder(Release(h)) /\ out = EmptyDir
        BY <1>3, <2>2 DEF Unwritten
      <3>3. \A n \in Names : n \notin Elements(built.left) => Release(h)[n] = NoFile
        BY <3>1, <3>2, WriteOrderEnds
      <3>4. \A n \in Names : out[n] = NoFile
        BY <3>2 DEF EmptyDir
      <3> QED
        BY <1>3, <3>3, <3>4, NamesApart DEF PartWritten
    <2> QED
      BY <2>1, <2>2
  <1> QED
    BY <1>1, <1>2, <1>3, <1>4 DEF Writing

(* What is left after a file that is not the last still ends with the      *)
(* manifest.                                                               *)
LEMMA LeftShrinks ==
    ASSUME NEW left, LeftOk(left), Len(left) # 1
    PROVE  /\ LeftOk(Tail(left)) /\ Head(left) # ManifestFile
           /\ \A k \in Names : k \notin Elements(Tail(left)) =>
                                k = Head(left) \/ k \notin Elements(left)
  <1> DEFINE tl == Tail(left)
  <1>1. /\ left \in Seq(Names) /\ Len(left) \in Nat /\ Len(left) > 1
        /\ left[Len(left)] = ManifestFile /\ \A i \in 1 .. Len(left) - 1 : left[i] # ManifestFile
    <2>1. /\ left \in Seq(Names) /\ Len(left) \in Nat /\ Len(left) > 0
          /\ left[Len(left)] = ManifestFile
          /\ \A i \in 1 .. Len(left) - 1 : left[i] # ManifestFile
      BY DEF LeftOk
    <2>2. \A k \in Nat : k > 0 /\ k # 1 => k > 1
      OBVIOUS
    <2>3. Len(left) > 1
      BY <2>1, <2>2, Zenon
    <2> QED
      BY <2>1, <2>3
  <1>2. /\ tl \in Seq(Names) /\ Len(tl) = Len(left) - 1 /\ Head(left) = left[1]
        /\ \A i \in 1 .. Len(left) - 1 : tl[i] = left[i + 1]
    BY <1>1
  <1> HIDE DEF tl
  <1>3. Head(left) # ManifestFile
    BY <1>1, <1>2
  <1>4. LeftOk(tl)
    BY <1>1, <1>2 DEF LeftOk
  <1>5. ASSUME NEW k \in Elements(left), k # Head(left)
        PROVE  k \in Elements(tl)
    <2>1. PICK i \in 1 .. Len(left) : left[i] = k
      BY DEF Elements
    <2>2. i - 1 \in 1 .. Len(left) - 1 /\ (i - 1) + 1 = i
      BY <1>1, <1>2, <1>5, <2>1
    <2>3. i - 1 \in 1 .. Len(tl) /\ tl[i - 1] = k
      BY <1>2, <2>1, <2>2
    <2> QED
      BY <2>3 DEF Elements
  <1> QED
    BY <1>3, <1>4, <1>5 DEF tl

(* A file is written: the next of a release, or its manifest, which        *)
(* completes it.                                                           *)
LEMMA WriteNextOk ==
    ASSUME BuiltOk(built, out), OutOk(out, released), ReleasedOk(released), WriteNext
    PROVE  /\ BuiltOk(built', out') /\ OutOk(out', released') /\ ReleasedOk(released')
           /\ released \subseteq released'
  <1>1. built # NotBuilding /\ (Unwritten(built) => out = EmptyDir)
    BY DEF WriteNext
  <1>2. PICK h \in Hosts :
           /\ Builds(h) /\ built = [files |-> Release(h), left |-> built.left]
           /\ built.files = Release(h)
           /\ LeftOk(built.left) /\ PartWritten(built, out)
    BY <1>1, WritingFacts
  <1> DEFINE left == built.left
             files == Release(h)
             n == Head(left)
  <1>3. /\ left \in Seq(Names) /\ Len(left) \in Nat /\ Len(left) > 0 /\ n = left[1]
        /\ left[Len(left)] = ManifestFile /\ \A i \in 1 .. Len(left) - 1 : left[i] # ManifestFile
        /\ n \in Names
    BY <1>2 DEF LeftOk
  <1>4. /\ \A k \in Names : k \notin Elements(left) => out[k] = files[k]
        /\ out[ManifestFile] = NoFile
    BY <1>2 DEF PartWritten
  <1>5. out = [k \in Names |-> out[k]] /\ out' = [out EXCEPT ![n] = files[n]]
    BY <1>2 DEF OutOk, WriteNext
  <1> HIDE DEF files, n
  <1>6. /\ out' = [k \in Names |-> out'[k]] /\ out'[n] = files[n]
        /\ \A k \in Names : k # n => out'[k] = out[k]
    BY <1>3, <1>5
  <1>m. ManifestFile \in Names
    BY NamesApart
  <1>7. CASE Len(left) # 1
    <2>1. built' = [built EXCEPT !.left = Tail(left)] /\ released' = released
      BY <1>7 DEF WriteNext
    <2>2. /\ LeftOk(Tail(left)) /\ n # ManifestFile
          /\ \A k \in Names : k \notin Elements(Tail(left)) => k = n \/ k \notin Elements(left)
      BY <1>2, <1>7, LeftShrinks DEF n
    <2>3. built' = [files |-> files, left |-> Tail(left)]
      BY <1>2, <2>1 DEF files
    <2>4. built'.left = Tail(left) /\ built'.files = files
      BY <2>3
    <2>8. PartWritten(built', out')
      BY <1>4, <1>6, <1>m, <2>2, <2>4 DEF PartWritten
    <2>9. Writing(built', out')
      <3>1. Builds(h) /\ built' = [files |-> Release(h), left |-> built'.left]
        BY <1>2, <2>3, <2>4 DEF files
      <3> QED
        BY <2>2, <2>4, <2>8, <3>1 DEF Writing
    <2>10. OutOk(out', released')
      BY <1>4, <1>6, <1>m, <2>2 DEF OutOk
    <2> QED
      BY <2>1, <2>9, <2>10 DEF BuiltOk
  <1>8. CASE Len(left) = 1
    <2>1. n = ManifestFile /\ Elements(left) = {ManifestFile}
      BY <1>3, <1>8 DEF Elements
    <2>2. \A k \in Names : out'[k] = files[k]
      BY <1>4, <1>6, <2>1
    <2>3. files = [k \in Names |-> files[k]]
      BY ReleaseFiles DEF files
    <2>4. out' = files
      BY <1>6, <2>2, <2>3
    <2>5. /\ built' = NotBuilding
          /\ released' = released \cup {files[BundleFile(t)] :
                                          t \in {u \in Tenants : files[BundleFile(u)] # NoFile}}
      BY <1>2, <1>8 DEF WriteNext, files
    <2>6. \A t \in Tenants :
             /\ files[BundleFile(t)] = IF t \in BuiltTenants(h) THEN BundleOf(h, t) ELSE NoFile
             /\ BundleOf(h, t) # NoFile
      BY <1>2, ReleaseFiles, BuiltFacts DEF files
    <2>7. \A t \in BuiltTenants(h) : t \in Tenants
      BY <1>2, BuiltFacts
    <2>8. \A t \in BuiltTenants(h) : BundleOf(h, t) \in released'
      BY <2>5, <2>6, <2>7
    <2>9. \A b \in released' : b \in released \/ \E t \in BuiltTenants(h) : b = BundleOf(h, t)
      BY <2>5, <2>6
    <2>10. ReleasedOk(released')
      BY <1>2, <2>9 DEF ReleasedOk
    <2>11. Finished(h, released') /\ out' = Release(h)
      BY <1>2, <2>4, <2>8 DEF Finished, files
    <2>12. OutOk(out', released')
      BY <1>6, <2>11 DEF OutOk
    <2> QED
      BY <2>5, <2>10, <2>12 DEF BuiltOk
  <1> QED
    BY <1>7, <1>8

(* A builder that dies leaves no manifest that can be read.                *)
LEMMA BuilderDiesOk ==
    ASSUME BuiltOk(built, out), OutOk(out, released), BuilderDies
    PROVE  BuiltOk(built', out') /\ OutOk(out', released')
  <1>1. built # NotBuilding /\ (Unwritten(built) => out = EmptyDir)
    BY DEF BuilderDies
  <1>2. LeftOk(built.left) /\ PartWritten(built, out)
    BY <1>1, WritingFacts
  <1>3. out = [k \in Names |-> out[k]] /\ out[ManifestFile] = NoFile /\ ManifestFile \in Names
    BY <1>2, NamesApart DEF OutOk, PartWritten
  <1>4. Head(built.left) \in Names
    BY <1>2 DEF LeftOk
  <1>5. built' = NotBuilding /\ released' = released
    BY DEF BuilderDies
  <1>6. CASE out' = [out EXCEPT ![Head(built.left)] = Garbage]
    <2>1. out' = [k \in Names |-> out'[k]] /\ out'[ManifestFile] \in {NoFile, Garbage}
      BY <1>3, <1>4, <1>6
    <2> QED
      BY <1>5, <2>1 DEF BuiltOk, OutOk
  <1>7. CASE out' = out
    BY <1>5, <1>7 DEF BuiltOk
  <1> QED
    BY <1>6, <1>7 DEF BuilderDies

(* A cleared directory has no manifest.                                    *)
LEMMA CleanOutOk ==
    ASSUME CleanOut
    PROVE  BuiltOk(built', out') /\ OutOk(out', released')
  <1>1. out' = EmptyDir /\ built' = NotBuilding
    BY DEF CleanOut
  <1>2. EmptyDir = [n \in Names |-> EmptyDir[n]] /\ EmptyDir[ManifestFile] = NoFile
    BY NamesApart DEF EmptyDir
  <1> QED
    BY <1>1, <1>2 DEF BuiltOk, OutOk

-----------------------------------------------------------------------------
(* The copy.                                                               *)

(* A file of a finished release arrives.                                   *)
LEMMA CopyFileOk ==
    ASSUME OutOk(out, released), DirOk(dir, released), NEW n \in Copied, CopyFile(n)
    PROVE  DirOk(dir', released')
  <1>1. PICK h \in Hosts : Finished(h, released) /\ out = Release(h)
    BY DEF CopyFile, OutOk
  <1>2. out[ManifestFile] = ManifestOf(h)
    BY <1>1, ReleaseFiles
  <1>3. /\ dir' = [dir EXCEPT ![n] = out[n]] /\ dir = [k \in Names |-> dir[k]]
        /\ n \in Names /\ ManifestFile \in Names /\ released' = released
    BY NamesApart DEF CopyFile, DirOk, Copied
  <1>4. /\ dir' = [k \in Names |-> dir'[k]]
        /\ dir'[ManifestFile] = IF n = ManifestFile THEN out[ManifestFile] ELSE dir[ManifestFile]
    BY <1>3
  <1> QED
    BY <1>1, <1>2, <1>3, <1>4 DEF DirOk

(* A file is damaged; a damaged manifest does not match its digest.        *)
LEMMA DamageFileOk ==
    ASSUME DirOk(dir, released), NEW n \in Copied, DamageFile(n)
    PROVE  DirOk(dir', released')
  <1>1. /\ dir = [k \in Names |-> dir[k]] /\ dir[n] \notin {NoFile, Garbage}
        /\ n \in Names /\ ManifestFile \in Names /\ released' = released
    BY NamesApart DEF DamageFile, DirOk, Copied
  <1>2. CASE n # ManifestFile
    <2>1. dir' = [dir EXCEPT ![n] = Garbage]
      BY <1>2 DEF DamageFile
    <2>2. dir' = [k \in Names |-> dir'[k]] /\ dir'[ManifestFile] = dir[ManifestFile]
      BY <1>1, <1>2, <2>1
    <2> QED
      BY <1>1, <2>2 DEF DirOk
  <1>3. CASE n = ManifestFile
    <2> DEFINE m == [dir[ManifestFile] EXCEPT !.digest = Garbage]
    <2>1. dir' = [dir EXCEPT ![ManifestFile] = m]
      BY <1>3 DEF DamageFile
    <2>2. PICK h \in Hosts :
             /\ Finished(h, released)
             /\ \/ dir[ManifestFile] = ManifestOf(h)
                \/ dir[ManifestFile] = [body |-> ManifestOf(h).body, digest |-> Garbage]
      BY <1>1, <1>3 DEF DirOk
    <2>3. ManifestOf(h) = [body |-> ManifestOf(h).body, digest |-> ManifestOf(h).body]
      BY ManifestFields
    <2>4. m = [body |-> ManifestOf(h).body, digest |-> Garbage]
      <3>1. PICK c : c = ManifestOf(h).body
        OBVIOUS
      <3>2. dir[ManifestFile] \in {[body |-> c, digest |-> c], [body |-> c, digest |-> Garbage]}
        BY <2>2, <2>3, <3>1
      <3> QED
        BY <3>1, <3>2
    <2> HIDE DEF m
    <2>5. dir' = [k \in Names |-> dir'[k]] /\ dir'[ManifestFile] = m
      BY <1>1, <2>1
    <2> QED
      BY <1>1, <2>2, <2>4, <2>5 DEF DirOk
  <1> QED
    BY <1>2, <1>3

-----------------------------------------------------------------------------
(* The import.                                                             *)

(* The fields of an import that runs.                                      *)
LEMMA ImportFields ==
    ASSUME NEW m, NEW nodes, NEW es, NEW rel, NEW h, Importing(m, nodes, es, rel, h)
    PROVE  /\ Builds(h) /\ m.body = ManifestOf(h).body
           /\ m.pc \in {"verify", "tenant", "nodes", "record"} /\ m # Idle
           /\ m = [pc |-> m.pc, body |-> m.body, model |-> m.model, got |-> m.got,
                   at |-> m.at, done |-> m.done]
  <1>1. m = [pc |-> m.pc, body |-> ManifestOf(h).body, model |-> m.model, got |-> m.got,
             at |-> m.at, done |-> m.done]
    BY DEF Importing
  <1>2. m.body = ManifestOf(h).body
    <2>1. PICK c : c = ManifestOf(h).body
      OBVIOUS
    <2>2. m = [pc |-> m.pc, body |-> c, model |-> m.model, got |-> m.got,
               at |-> m.at, done |-> m.done]
      BY <1>1, <2>1
    <2> QED
      BY <2>1, <2>2
  <1>3. m.pc \in {"verify", "tenant", "nodes", "record"}
    BY DEF Importing, AtOk
  <1>4. m # Idle
    BY <1>3 DEF Idle
  <1> QED
    BY <1>1, <1>2, <1>3, <1>4 DEF Importing, Finished

(* An import that is not idle has read the manifest of one release.        *)
LEMMA RunningImport ==
    ASSUME NEW m, NEW nodes, NEW es, NEW rel, ImpOk(m, nodes, es, rel), m.pc # "idle"
    PROVE  \E h \in Hosts : Importing(m, nodes, es, rel, h)
  <1>1. m # Idle
    BY DEF Idle
  <1> QED
    BY <1>1 DEF ImpOk

(* A step of an import that stays with its release.                        *)
LEMMA ImportGoesOn ==
    ASSUME NEW m, NEW nodes, NEW es, NEW rel, NEW h \in Hosts, Importing(m, nodes, es, rel, h),
           NEW m2, NEW nodes2, NEW es2,
           m2 = [pc |-> m2.pc, body |-> m.body, model |-> m.model, got |-> m2.got,
                 at |-> m2.at, done |-> m2.done],
           GotOk(m2.got, h), AtOk(m2, nodes2, es2, Len(Listed(m.body)))
    PROVE  ImpOk(m2, nodes2, es2, rel)
  <1>1. m.body = ManifestOf(h).body
    BY ImportFields
  <1>2. m2.body = m.body /\ m2.model = m.model
    <2>1. PICK c : c = m.body
      OBVIOUS
    <2>2. PICK d : d = m.model
      OBVIOUS
    <2>3. m2 = [pc |-> m2.pc, body |-> c, model |-> d, got |-> m2.got,
                at |-> m2.at, done |-> m2.done]
      BY <2>1, <2>2
    <2> QED
      BY <2>1, <2>2, <2>3
  <1>3. m2 = [pc |-> m2.pc, body |-> ManifestOf(h).body, model |-> m2.model, got |-> m2.got,
              at |-> m2.at, done |-> m2.done]
    BY <1>1, <1>2
  <1>4. Importing(m2, nodes2, es2, rel, h)
    BY <1>2, <1>3 DEF Importing
  <1> QED
    BY <1>4 DEF ImpOk

(* The tenant an import is at: its bundle is that of the release, and its  *)
(* entry describes it.                                                     *)
LEMMA CurrentTenant ==
    ASSUME NEW m, NEW nodes, NEW es, NEW rel, NEW h, Importing(m, nodes, es, rel, h),
           m.at <= Len(m.got)
    PROVE  \E t \in BuiltTenants(h) :
              /\ t \in Tenants
              /\ m.got[m.at].bundle = BundleOf(h, t)
              /\ BundleOk(BundleOf(h, t), t) /\ BundleOf(h, t) \in rel
              /\ m.got[m.at].bundle.tenant = t
              /\ m.body.tenants[t] = TenantEntry(BundleOf(h, t), h.embed)
              /\ TenantEntry(BundleOf(h, t), h.embed).vectors # NoFile =>
                   m.got[m.at].vectors = EmbedVectors(BundleOf(h, t), h.embed)
  <1> DEFINE ts == Listed(ManifestOf(h).body)
             t == ts[m.at]
  <1>1. Builds(h) /\ m.body = ManifestOf(h).body /\ \A u \in BuiltTenants(h) : BundleOf(h, u) \in rel
    BY ImportFields DEF Importing, Finished
  <1>2. ts \in Seq(BuiltTenants(h)) /\ Len(ts) \in Nat
    BY <1>1, ListedTenants
  <1> HIDE DEF ts
  <1>3. /\ m.got \in Seq(Elements(m.got)) /\ Len(m.got) <= Len(ts)
        /\ \A i \in 1 .. Len(m.got) :
             /\ m.got[i].bundle = BundleOf(h, ts[i])
             /\ TenantEntry(BundleOf(h, ts[i]), h.embed).vectors # NoFile =>
                  m.got[i].vectors = EmbedVectors(BundleOf(h, ts[i]), h.embed)
    BY DEF Importing, GotOk, ts
  <1>4. m.at \in 1 .. Len(m.got) + 1
    BY DEF Importing, AtOk
  <1>5. m.at \in 1 .. Len(m.got) /\ m.at \in 1 .. Len(ts)
    <2>1. PICK k \in Nat : k = Len(m.got)
      BY <1>3
    <2> QED
      BY <1>2, <1>3, <1>4, <2>1
  <1>6. t \in BuiltTenants(h)
    BY <1>2, <1>5
  <1>7. t \in Tenants /\ BundleOk(BundleOf(h, t), t)
    BY <1>1, <1>6, BuiltFacts, BundleFacts
  <1>8. m.got[m.at].bundle = BundleOf(h, t)
    BY <1>3, <1>5
  <1>9. m.body.tenants[t] = TenantEntry(BundleOf(h, t), h.embed)
    BY <1>1, <1>6, ManifestFields
  <1>10. m.got[m.at].bundle.tenant = t
    BY <1>7, <1>8 DEF BundleOk
  <1>11. TenantEntry(BundleOf(h, t), h.embed).vectors # NoFile =>
            m.got[m.at].vectors = EmbedVectors(BundleOf(h, t), h.embed)
    BY <1>3, <1>5
  <1> HIDE DEF t
  <1> QED
    BY <1>1, <1>6, <1>7, <1>8, <1>9, <1>10, <1>11

(* A store of one model is opened with that model, as long as one kind of  *)
(* build opens it.                                                         *)
LEMMA LoadedModel ==
    ASSUME StoreOk(emb, imp, loads), imp = Idle, NEW force, NEW load \in Loads, NEW ls, NEW m,
           ls = loads \cup (IF load = "blind" THEN {"with", "blind"} ELSE {load}),
           m # Idle, m.model = LoadEmbedder(load, force)
    PROVE  StoreOk(emb, m, ls)
  <1> DEFINE model == LoadEmbedder(load, force)
             first == InOrder(IdOrder, DOMAIN emb)[1]
  <1>1. DOMAIN emb # {} => first \in DOMAIN emb
    <2>1. KeptOk(InOrder(IdOrder, DOMAIN emb), IdOrder, Len(IdOrder), DOMAIN emb, AllNodes)
      BY CorpusAssumption, InOrderLists
    <2>2. SUFFICES ASSUME NEW n \in DOMAIN emb PROVE first \in DOMAIN emb
      OBVIOUS
    <2>3. n \in AllNodes
      BY DEF StoreOk
    <2>4. PICK i \in 1 .. Len(IdOrder) : IdOrder[i] = n
      BY <2>3, CorpusAssumption
    <2> QED
      BY <2>1, <2>2, <2>4 DEF KeptOk
  <1>2. \A n \in DOMAIN emb : \E md \in Models : emb[n] = Own(md, n)
    BY DEF StoreOk, OfModel
  <1>3. \A n \in DOMAIN emb : emb[n].model \in Models
    BY <1>2 DEF Own, Vector
  <1>4. model \in Models
    BY <1>1, <1>3 DEF LoadEmbedder, Models
  <1>5. ls \subseteq Loads /\ ls # {}
    BY DEF StoreOk, OfModel, Loads
  <1>6. ASSUME ls \in {{}, {"with"}, {"without"}} PROVE OneFor(emb, m, ls, model)
    <2>1. ls = {load} /\ load # "blind" /\ loads \in {{}, {load}}
      BY <1>6 DEF Loads
    <2>2. PICK md \in Models : OneFor(emb, imp, loads, md)
      BY <1>6, <2>1 DEF StoreOk, OfModel, Loads
    <2>3. \A n \in DOMAIN emb : emb[n] = Own(md, n) /\ emb[n].model = md
      BY <2>2 DEF OneFor, Own, Vector
    <2>4. CASE DOMAIN emb = {}
      BY <2>1, <2>4 DEF OneFor, LoadEmbedder
    <2>5. CASE DOMAIN emb # {}
      <3>1. loads = {load}
        BY <2>1, <2>5 DEF StoreOk, OfModel
      <3>2. model = md
        BY <1>1, <2>1, <2>2, <2>3, <2>5, <3>1 DEF LoadEmbedder, OneFor, Loads
      <3> QED
        BY <2>1, <2>2, <2>3, <3>1, <3>2 DEF OneFor
    <2> QED
      BY <2>4, <2>5
  <1> QED
    BY <1>2, <1>4, <1>5, <1>6 DEF StoreOk, OfModel

(* An import begins with the manifest of a finished release.               *)
LEMMA StartImportOk ==
    ASSUME DirOk(dir, released), StoreOk(emb, imp, loads), NEW force,
           NEW load \in Loads, StartImport(load, force)
    PROVE  ImpOk(imp', DOMAIN emb, edges, released) /\ StoreOk(emb, imp', loads')
  <1> DEFINE model == LoadEmbedder(load, force)
             d == dir[ManifestFile]
  <1>1. d \notin {NoFile, Garbage} /\ d.digest = d.body
    BY DEF StartImport, ManifestOk
  <1>2. PICK h \in Hosts :
           /\ Finished(h, released)
           /\ d = ManifestOf(h) \/ d = [body |-> ManifestOf(h).body, digest |-> Garbage]
    BY <1>1 DEF DirOk
  <1>3. Builds(h) /\ ManifestOf(h).body # Garbage
    BY <1>2, BuiltFacts DEF Finished
  <1> HIDE DEF d
  <1>4. d.body = ManifestOf(h).body
    <2>1. CASE d = ManifestOf(h)
      BY <2>1
    <2>2. CASE d = [body |-> ManifestOf(h).body, digest |-> Garbage]
      BY <2>2
    <2> QED
      BY <1>2, <2>1, <2>2
  <1>5. imp' = [pc |-> "verify", body |-> ManifestOf(h).body, model |-> model, got |-> <<>>,
                at |-> 1, done |-> 0]
    BY <1>4, Zenon DEF StartImport, d
  <1>6. \A m : m # Idle /\ m.model = model => StoreOk(emb, m, loads')
    BY LoadedModel DEF StartImport
  <1> HIDE DEF model
  <1>7. PICK c : c = ManifestOf(h).body
    OBVIOUS
  <1>8. PICK m : m = imp'
    OBVIOUS
  <1>9. m = [pc |-> "verify", body |-> c, model |-> model, got |-> <<>>, at |-> 1, done |-> 0]
    BY <1>5, <1>7, <1>8
  <1>10. /\ m.pc = "verify" /\ m.body = c /\ m.model = model /\ m.got = <<>>
         /\ m.at = 1 /\ m.done = 0
    BY <1>9
  <1>11. GotOk(m.got, h)
    <2>1. Listed(ManifestOf(h).body) \in Seq(BuiltTenants(h))
      BY <1>3, ListedTenants
    <2>2. <<>> \in Seq(Elements(<<>>)) /\ Len(<<>>) = 0
      OBVIOUS
    <2> QED
      BY <1>10, <2>1, <2>2 DEF GotOk
  <1>12. AtOk(m, DOMAIN emb, edges, Len(Listed(m.body)))
    <2>1. Len(m.got) = 0
      BY <1>10
    <2>2. Len(IdOrder) \in Nat
      BY CorpusAssumption
    <2> QED
      BY <1>10, <2>1, <2>2 DEF AtOk
  <1>13. m = [pc |-> m.pc, body |-> ManifestOf(h).body, model |-> m.model, got |-> m.got,
              at |-> m.at, done |-> m.done]
    BY <1>7, <1>9, <1>10
  <1>14. Importing(m, DOMAIN emb, edges, released, h)
    BY <1>2, <1>11, <1>12, <1>13 DEF Importing
  <1>15. StoreOk(emb, m, loads')
    <2>1. m # Idle
      BY <1>10 DEF Idle
    <2> QED
      BY <1>6, <1>10, <2>1
  <1> QED
    BY <1>8, <1>14, <1>15 DEF ImpOk

(* One more verified tenant.                                               *)
LEMMA GotOneMore ==
    ASSUME NEW h, Builds(h), NEW got, GotOk(got, h), NEW x, NEW t,
           Len(got) < Len(Listed(ManifestOf(h).body)),
           t = Listed(ManifestOf(h).body)[Len(got) + 1],
           x.bundle = BundleOf(h, t),
           TenantEntry(BundleOf(h, t), h.embed).vectors # NoFile =>
              x.vectors = EmbedVectors(BundleOf(h, t), h.embed)
    PROVE  GotOk(Append(got, x), h) /\ Len(Append(got, x)) = Len(got) + 1
  <1> DEFINE ts == Listed(ManifestOf(h).body)
             g == Append(got, x)
  <1>1. ts \in Seq(BuiltTenants(h)) /\ Len(ts) \in Nat
    BY ListedTenants
  <1> HIDE DEF ts
  <1>2. /\ got \in Seq(Elements(got)) /\ Len(got) < Len(ts) /\ t = ts[Len(got) + 1]
        /\ \A i \in 1 .. Len(got) :
             /\ got[i].bundle = BundleOf(h, ts[i])
             /\ TenantEntry(BundleOf(h, ts[i]), h.embed).vectors # NoFile =>
                  got[i].vectors = EmbedVectors(BundleOf(h, ts[i]), h.embed)
    BY DEF GotOk, ts
  <1>3. Len(got) \in Nat
    BY <1>2
  <1>4. /\ g \in Seq(Elements(got) \cup {x}) /\ Len(g) = Len(got) + 1 /\ g[Len(got) + 1] = x
        /\ \A i \in 1 .. Len(got) : g[i] = got[i]
    BY <1>2
  <1> HIDE DEF g
  <1>5. g \in Seq(Elements(g))
    BY <1>4 DEF Elements
  <1>6. ASSUME NEW i \in 1 .. Len(g)
        PROVE  /\ g[i].bundle = BundleOf(h, ts[i])
               /\ TenantEntry(BundleOf(h, ts[i]), h.embed).vectors # NoFile =>
                    g[i].vectors = EmbedVectors(BundleOf(h, ts[i]), h.embed)
    <2>1. CASE i = Len(got) + 1
      BY <1>2, <1>4, <2>1
    <2>2. CASE i # Len(got) + 1
      <3>1. i \in 1 .. Len(got)
        BY <1>3, <1>4, <2>2
      <3> QED
        BY <1>2, <1>4, <3>1
    <2> QED
      BY <2>1, <2>2
  <1>7. Len(g) <= Len(ts)
    BY <1>1, <1>2, <1>3, <1>4
  <1> QED
    BY <1>4, <1>5, <1>6, <1>7 DEF GotOk, ts, g

(* A step of a running import that leaves its model and the store alone.   *)
LEMMA ModelStays ==
    ASSUME NEW e, NEW m, NEW m2, NEW ls, StoreOk(e, m, ls), m # Idle,
           m2 = Idle \/ m2.model = m.model
    PROVE  StoreOk(e, m2, ls)
  BY DEF StoreOk, OfModel, OneFor

(* A tenant that passes its checks is the release's own.                   *)
LEMMA VerifyTenantOk ==
    ASSUME ImpOk(imp, DOMAIN emb, edges, released), StoreOk(emb, imp, loads), VerifyTenant
    PROVE  ImpOk(imp', DOMAIN emb, edges, released) /\ StoreOk(emb, imp', loads)
  <1>1. PICK h \in Hosts : Importing(imp, DOMAIN emb, edges, released, h)
    BY RunningImport DEF VerifyTenant
  <1>2. /\ Builds(h) /\ imp.body = ManifestOf(h).body /\ imp # Idle
        /\ imp = [pc |-> imp.pc, body |-> imp.body, model |-> imp.model, got |-> imp.got,
                  at |-> imp.at, done |-> imp.done]
    BY <1>1, ImportFields
  <1> DEFINE ts == Listed(ManifestOf(h).body)
             t == ts[Len(imp.got) + 1]
             e == imp.body.tenants[t]
             x == [bundle |-> dir[BundleFile(t)], vectors |-> dir[VectorsFile(t)]]
             pc2 == IF Len(imp.got) + 1 = Len(ts) THEN "tenant" ELSE imp.pc
  <1>3. /\ imp.pc = "verify" /\ Len(imp.got) < Len(ts)
        /\ imp' = IF TenantOk(dir, t, e)
                  THEN [imp EXCEPT !.got = Append(imp.got, x), !.pc = pc2] ELSE Idle
    BY <1>2 DEF VerifyTenant
  <1>4. CASE ~TenantOk(dir, t, e)
    <2>1. imp' = Idle
      BY <1>3, <1>4
    <2> QED
      BY <1>2, <2>1, ModelStays DEF ImpOk
  <1>5. CASE TenantOk(dir, t, e)
    <2>1. GotOk(imp.got, h) /\ AtOk(imp, DOMAIN emb, edges, Len(Listed(imp.body)))
      BY <1>1 DEF Importing
    <2>2. ts \in Seq(BuiltTenants(h)) /\ Len(ts) \in Nat /\ Len(imp.got) \in Nat
      BY <1>2, <2>1, ListedTenants DEF GotOk
    <2>3. t \in BuiltTenants(h)
      <3>1. Len(imp.got) + 1 \in 1 .. Len(ts)
        BY <1>3, <2>2
      <3> QED
        BY <2>2, <3>1
    <2>4. e = TenantEntry(BundleOf(h, t), h.embed)
      BY <1>2, <2>3, ManifestFields
    <2> HIDE DEF e, t
    <2>5. /\ e.sha = BundleOf(h, t)
          /\ e.vectors # NoFile => e.vectors.sha = EmbedVectors(BundleOf(h, t), h.embed)
      BY <2>4, EntryFields
    <2>6. /\ x.bundle = BundleOf(h, t)
          /\ e.vectors # NoFile => x.vectors = EmbedVectors(BundleOf(h, t), h.embed)
      BY <1>5, <2>5 DEF TenantOk, VectorsOk
    <2> HIDE DEF x
    <2>7. GotOk(Append(imp.got, x), h) /\ Len(Append(imp.got, x)) = Len(imp.got) + 1
      <3>1. t = ts[Len(imp.got) + 1]
        BY DEF t
      <3> QED
        BY <1>2, <1>3, <2>1, <2>4, <2>6, <3>1, GotOneMore
    <2> DEFINE g == Append(imp.got, x)
    <2>8. imp' = [imp EXCEPT !.got = g, !.pc = pc2]
      BY <1>3, <1>5
    <2> HIDE DEF g, pc2
    <2>9. PICK m : m = imp'
      OBVIOUS
    <2>10. m = [pc |-> pc2, body |-> imp.body, model |-> imp.model, got |-> g,
                at |-> imp.at, done |-> imp.done]
      BY <1>2, <2>8, <2>9
    <2>11. /\ m.pc = pc2 /\ m.body = imp.body /\ m.model = imp.model /\ m.got = g
           /\ m.at = imp.at /\ m.done = imp.done
      BY <2>10
    <2>12. m = [pc |-> m.pc, body |-> imp.body, model |-> imp.model, got |-> m.got,
                at |-> m.at, done |-> m.done]
      BY <2>10, <2>11
    <2>13. pc2 = "verify" \/ (pc2 = "tenant" /\ Len(g) = Len(ts))
      BY <1>3, <2>7 DEF pc2, g
    <2>14. Len(g) \in Nat
      BY <2>2, <2>7 DEF g
    <2>15. m.at = 1 /\ m.done \in 0 .. Len(IdOrder)
      BY <1>3, <2>1, <2>11 DEF AtOk
    <2>16. AtOk(m, DOMAIN emb, edges, Len(Listed(imp.body)))
      BY <1>2, <2>11, <2>13, <2>14, <2>15 DEF AtOk
    <2>17. GotOk(m.got, h)
      BY <2>7, <2>11 DEF g
    <2>18. ImpOk(m, DOMAIN emb, edges, released)
      BY <1>1, <2>12, <2>16, <2>17, ImportGoesOn
    <2>19. StoreOk(emb, m, loads)
      BY <1>2, <2>11, ModelStays
    <2> QED
      BY <2>9, <2>18, <2>19
  <1> QED
    BY <1>4, <1>5

(* A tenant is skipped or begun.                                           *)
LEMMA StartTenantOk ==
    ASSUME ImpOk(imp, DOMAIN emb, edges, released), StoreOk(emb, imp, loads), StartTenant
    PROVE  ImpOk(imp', DOMAIN emb, edges, released) /\ StoreOk(emb, imp', loads)
  <1>1. PICK h \in Hosts : Importing(imp, DOMAIN emb, edges, released, h)
    BY RunningImport DEF StartTenant
  <1>2. /\ Builds(h) /\ imp.body = ManifestOf(h).body /\ imp # Idle
        /\ imp = [pc |-> imp.pc, body |-> imp.body, model |-> imp.model, got |-> imp.got,
                  at |-> imp.at, done |-> imp.done]
    BY <1>1, ImportFields
  <1>3. imp.pc = "tenant" /\ imp.at <= Len(imp.got)
    BY DEF StartTenant
  <1>4. GotOk(imp.got, h) /\ AtOk(imp, DOMAIN emb, edges, Len(Listed(imp.body)))
    BY <1>1 DEF Importing
  <1>5. /\ Len(imp.got) \in Nat /\ imp.at \in 1 .. Len(imp.got)
        /\ Len(imp.got) = Len(Listed(imp.body)) /\ imp.done \in 0 .. Len(IdOrder)
    BY <1>3, <1>4 DEF GotOk, AtOk
  <1>6. PICK t \in BuiltTenants(h) : /\ imp.got[imp.at].bundle = BundleOf(h, t)
                                     /\ BundleOk(BundleOf(h, t), t)
    BY <1>1, <1>3, CurrentTenant
  <1>7. Len(imp.got[imp.at].bundle.nodes) \in Nat /\ Len(IdOrder) \in Nat
    BY <1>6, CorpusAssumption DEF BundleOk
  <1>8. PICK m : m = imp'
    OBVIOUS
  <1>9. CASE imp' = [imp EXCEPT !.at = imp.at + 1]
    <2>1. m = [pc |-> imp.pc, body |-> imp.body, model |-> imp.model, got |-> imp.got,
               at |-> imp.at + 1, done |-> imp.done]
      BY <1>2, <1>8, <1>9
    <2>2. /\ m.pc = imp.pc /\ m.model = imp.model /\ m.got = imp.got
          /\ m.at = imp.at + 1 /\ m.done = imp.done
      BY <2>1
    <2>3. m = [pc |-> m.pc, body |-> imp.body, model |-> imp.model, got |-> m.got,
               at |-> m.at, done |-> m.done]
      BY <2>1, <2>2
    <2>4. AtOk(m, DOMAIN emb, edges, Len(Listed(imp.body)))
      BY <1>3, <1>5, <2>2 DEF AtOk
    <2>5. ImpOk(m, DOMAIN emb, edges, released)
      BY <1>1, <1>4, <2>2, <2>3, <2>4, ImportGoesOn
    <2> QED
      BY <1>2, <1>8, <2>2, <2>5, ModelStays
  <1>10. CASE imp' = [imp EXCEPT !.pc = "nodes", !.done = 0]
    <2>1. m = [pc |-> "nodes", body |-> imp.body, model |-> imp.model, got |-> imp.got,
               at |-> imp.at, done |-> 0]
      BY <1>2, <1>8, <1>10
    <2>2. /\ m.pc = "nodes" /\ m.model = imp.model /\ m.got = imp.got
          /\ m.at = imp.at /\ m.done = 0
      BY <2>1
    <2>3. m = [pc |-> m.pc, body |-> imp.body, model |-> imp.model, got |-> m.got,
               at |-> m.at, done |-> m.done]
      BY <2>1, <2>2
    <2>4. AtOk(m, DOMAIN emb, edges, Len(Listed(imp.body)))
      BY <1>5, <1>7, <2>2 DEF AtOk
    <2>5. ImpOk(m, DOMAIN emb, edges, released)
      BY <1>1, <1>4, <2>2, <2>3, <2>4, ImportGoesOn
    <2> QED
      BY <1>2, <1>8, <2>2, <2>5, ModelStays
  <1> QED
    BY <1>9, <1>10 DEF StartTenant

(* Where an import stands that merges a tenant.                            *)
LEMMA MergingTenant ==
    ASSUME ImpOk(imp, DOMAIN emb, edges, released), imp.pc \in {"nodes", "record"}
    PROVE  \E h \in Hosts : \E t \in BuiltTenants(h) :
              /\ Importing(imp, DOMAIN emb, edges, released, h)
              /\ t \in Tenants /\ Bundle = BundleOf(h, t) /\ Bundle.tenant = t
              /\ BundleOk(Bundle, t) /\ Bundle \in released
              /\ Entry = TenantEntry(Bundle, h.embed)
              /\ Entry.vectors # NoFile =>
                   imp.got[imp.at].vectors = EmbedVectors(Bundle, h.embed)
              /\ imp # Idle
              /\ imp = [pc |-> imp.pc, body |-> imp.body, model |-> imp.model, got |-> imp.got,
                        at |-> imp.at, done |-> imp.done]
              /\ GotOk(imp.got, h)
              /\ Len(imp.got) \in Nat /\ imp.at \in 1 .. Len(imp.got)
              /\ Len(imp.got) = Len(Listed(imp.body))
              /\ imp.done \in Nat /\ imp.done <= Len(Bundle.nodes)
              /\ \A i \in 1 .. imp.done : Bundle.nodes[i] \in DOMAIN emb
              /\ imp.pc = "record" => imp.done = Len(Bundle.nodes) /\ Bundle.edges \subseteq edges
  <1>1. PICK h \in Hosts : Importing(imp, DOMAIN emb, edges, released, h)
    BY RunningImport
  <1>2. imp # Idle /\ imp = [pc |-> imp.pc, body |-> imp.body, model |-> imp.model,
                             got |-> imp.got, at |-> imp.at, done |-> imp.done]
    BY <1>1, ImportFields
  <1>3. GotOk(imp.got, h) /\ AtOk(imp, DOMAIN emb, edges, Len(Listed(imp.body)))
    BY <1>1 DEF Importing
  <1>4. /\ Len(imp.got) \in Nat /\ imp.at \in 1 .. Len(imp.got)
        /\ Len(imp.got) = Len(Listed(imp.body)) /\ imp.done \in Nat
    BY <1>3, CorpusAssumption DEF GotOk, AtOk
  <1>5. PICK t \in BuiltTenants(h) :
              /\ t \in Tenants
              /\ imp.got[imp.at].bundle = BundleOf(h, t)
              /\ BundleOk(BundleOf(h, t), t) /\ BundleOf(h, t) \in released
              /\ imp.got[imp.at].bundle.tenant = t
              /\ imp.body.tenants[t] = TenantEntry(BundleOf(h, t), h.embed)
              /\ TenantEntry(BundleOf(h, t), h.embed).vectors # NoFile =>
                   imp.got[imp.at].vectors = EmbedVectors(BundleOf(h, t), h.embed)
    BY <1>1, <1>4, CurrentTenant
  <1>6. Bundle = BundleOf(h, t) /\ Bundle.tenant = t
    BY <1>5 DEF Bundle
  <1>7. Entry = TenantEntry(Bundle, h.embed)
    BY <1>5, <1>6 DEF Entry
  <1>8. /\ imp.done <= Len(Bundle.nodes)
        /\ \A i \in 1 .. imp.done : Bundle.nodes[i] \in DOMAIN emb
        /\ imp.pc = "record" => imp.done = Len(Bundle.nodes) /\ Bundle.edges \subseteq edges
    BY <1>3 DEF AtOk, Bundle
  <1> QED
    BY <1>1, <1>2, <1>3, <1>4, <1>5, <1>6, <1>7, <1>8

(* A batch adds the next nodes of the bundle, each with its own vector.    *)
LEMMA ImportBatchOk ==
    ASSUME ImpOk(imp, DOMAIN emb, edges, released), StoreOk(emb, imp, loads), ImportBatch
    PROVE  /\ ImpOk(imp', DOMAIN emb', edges, released) /\ StoreOk(emb', imp', loads)
           /\ DOMAIN emb \subseteq DOMAIN emb'
           /\ \E b \in released : DOMAIN emb' \subseteq DOMAIN emb \cup NodeSet(b)
  <1>1. imp.pc = "nodes" /\ imp.done < Len(Bundle.nodes)
    BY DEF ImportBatch
  <1>2. PICK h \in Hosts : \E t \in BuiltTenants(h) :
              /\ Importing(imp, DOMAIN emb, edges, released, h)
              /\ BundleOk(Bundle, t) /\ Bundle \in released
              /\ Entry = TenantEntry(Bundle, h.embed)
              /\ Entry.vectors # NoFile =>
                   imp.got[imp.at].vectors = EmbedVectors(Bundle, h.embed)
              /\ imp # Idle
              /\ imp = [pc |-> imp.pc, body |-> imp.body, model |-> imp.model, got |-> imp.got,
                        at |-> imp.at, done |-> imp.done]
              /\ GotOk(imp.got, h)
              /\ Len(imp.got) \in Nat /\ imp.at \in 1 .. Len(imp.got)
              /\ Len(imp.got) = Len(Listed(imp.body))
              /\ imp.done \in Nat
              /\ \A i \in 1 .. imp.done : Bundle.nodes[i] \in DOMAIN emb
    BY <1>1, MergingTenant
  <1>t. PICK t \in BuiltTenants(h) : BundleOk(Bundle, t)
    BY <1>2
  <1> DEFINE L == Len(Bundle.nodes)
             k == imp.done
             size == IF k + Batch > L THEN L - k ELSE Batch
             node(j) == Bundle.nodes[k + j]
             vector(j) == IF VectorsMatch(Entry) THEN VectorAt(k, j) ELSE EmbedText(node(j))
             N == {node(j) : j \in 1 .. size}
             new == [n \in N |-> vector(CHOOSE j \in 1 .. size : node(j) = n)]
             model == imp.model
  <1>3. emb' = MergeNodes(new) /\ imp' = [imp EXCEPT !.done = k + size]
    BY DEF ImportBatch
  <1>4. L \in Nat /\ L <= Len(IdOrder) /\ Len(IdOrder) \in Nat
    BY <1>t, CorpusAssumption DEF BundleOk
  <1>5. k \in Nat /\ k < L /\ Batch \in Nat /\ Batch > 0
    BY <1>1, <1>2, CorpusAssumption
  <1>6. size \in Nat /\ k + size <= L
    <2> HIDE DEF L, k
    <2> QED
      BY <1>4, <1>5
  <1> HIDE DEF L, k, size
  <1>7. \A j \in 1 .. size : k + j \in 1 .. L
    BY <1>4, <1>5, <1>6
  <1>8. model \in Models /\ \A n \in DOMAIN emb : \E md \in Models : emb[n] = Own(md, n)
    BY <1>2 DEF StoreOk, OfModel
  <1>9. ASSUME NEW j \in 1 .. size
        PROVE  vector(j) = Own(model, node(j))
    <2>1. CASE VectorsMatch(Entry)
      <3>1. Entry.vectors # NoFile /\ model = "bge" /\ Entry.vectors.weights = AppWeights
        BY <2>1 DEF VectorsMatch
      <3>2. h.embed = AppWeights
        BY <1>2, <3>1, EntryFields
      <3>3. imp.got[imp.at].vectors = EmbedVectors(Bundle, AppWeights)
        BY <1>2, <3>1, <3>2
      <3>4. VectorAt(k, j) = EmbedVectors(Bundle, AppWeights)[k + j]
        BY <3>3 DEF VectorAt
      <3>5. EmbedVectors(Bundle, AppWeights)[k + j] = Vector("bge", AppWeights, node(j))
        BY <1>4, <1>7, VectorsOfBundle DEF L
      <3> QED
        BY <2>1, <3>1, <3>4, <3>5 DEF Own
    <2>2. CASE ~VectorsMatch(Entry)
      BY <2>2 DEF EmbedText, Own
    <2> QED
      BY <2>1, <2>2
  <1>10. \A n \in N : new[n] = Own(model, n)
    <2>1. ASSUME NEW n \in N
          PROVE  new[n] = Own(model, n)
      <3> DEFINE j == CHOOSE i \in 1 .. size : node(i) = n
      <3>1. j \in 1 .. size /\ node(j) = n
        <4>1. \E i \in 1 .. size : node(i) = n
          OBVIOUS
        <4> QED
          BY <4>1
      <3>2. new[n] = vector(j)
        OBVIOUS
      <3> HIDE DEF j
      <3>3. vector(j) = Own(model, node(j))
        BY <1>9, <3>1
      <3> QED
        BY <3>1, <3>2, <3>3
    <2> QED
      BY <2>1
  <1>11. DOMAIN new = N
    OBVIOUS
  <1>12. N \subseteq NodeSet(Bundle) /\ \A i \in k + 1 .. k + size : Bundle.nodes[i] \in N
    <2>1. ASSUME NEW n \in N
          PROVE  n \in NodeSet(Bundle)
      <3>1. PICK j \in 1 .. size : n = Bundle.nodes[k + j]
        OBVIOUS
      <3> QED
        BY <1>7, <3>1 DEF NodeSet, L
    <2>2. ASSUME NEW i \in k + 1 .. k + size
          PROVE  Bundle.nodes[i] \in N
      <3>1. i - k \in 1 .. size /\ k + (i - k) = i
        BY <1>5, <1>6
      <3>2. Bundle.nodes[k + (i - k)] \in N
        BY <3>1
      <3> QED
        BY <3>1, <3>2
    <2> QED
      BY <2>1, <2>2
  <1> HIDE DEF new, N, model
  <1>13. emb' = [n \in DOMAIN emb \cup N |->
                   IF n \notin N THEN emb[n]
                   ELSE IF n \notin DOMAIN emb THEN new[n]
                   ELSE MinEmbedding(emb[n], new[n])]
    BY <1>3, <1>11 DEF MergeNodes
  <1>14. \A a, b : MinEmbedding(a, b) \in {a, b}
    BY DEF MinEmbedding
  <1>15. /\ DOMAIN emb' = DOMAIN emb \cup N
         /\ \A n \in DOMAIN emb' : (n \in DOMAIN emb /\ emb'[n] = emb[n]) \/ emb'[n] = Own(model, n)
    <2>1. DOMAIN emb' = DOMAIN emb \cup N
      BY <1>13
    <2>2. ASSUME NEW n \in DOMAIN emb'
          PROVE  (n \in DOMAIN emb /\ emb'[n] = emb[n]) \/ emb'[n] = Own(model, n)
      <3>1. emb'[n] = IF n \notin N THEN emb[n]
                      ELSE IF n \notin DOMAIN emb THEN new[n]
                      ELSE MinEmbedding(emb[n], new[n])
        BY <1>13, <2>1
      <3>2. MinEmbedding(emb[n], new[n]) \in {emb[n], new[n]}
        BY <1>14
      <3> QED
        BY <1>10, <2>1, <3>1, <3>2
    <2> QED
      BY <2>1, <2>2
  <1>16. PICK m : m = imp'
    OBVIOUS
  <1>17. m = [pc |-> imp.pc, body |-> imp.body, model |-> imp.model, got |-> imp.got,
              at |-> imp.at, done |-> k + size]
    BY <1>2, <1>3, <1>16 DEF k
  <1>18. /\ m.pc = imp.pc /\ m.model = imp.model /\ m.got = imp.got
         /\ m.at = imp.at /\ m.done = k + size
    BY <1>17
  <1>19. m = [pc |-> m.pc, body |-> imp.body, model |-> imp.model, got |-> m.got,
              at |-> m.at, done |-> m.done]
    BY <1>17, <1>18
  <1>20. \A i \in 1 .. k + size : Bundle.nodes[i] \in DOMAIN emb'
    <2>1. ASSUME NEW i \in 1 .. k + size
          PROVE  Bundle.nodes[i] \in DOMAIN emb'
      <3>1. i \in 1 .. k \/ i \in k + 1 .. k + size
        BY <1>5, <1>6
      <3> QED
        BY <1>2, <1>12, <1>15, <3>1 DEF k
    <2> QED
      BY <2>1
  <1>21. AtOk(m, DOMAIN emb', edges, Len(Listed(imp.body)))
    <2>1. m.got[m.at].bundle = Bundle
      BY <1>18 DEF Bundle
    <2>2. m.done \in 0 .. Len(IdOrder) /\ m.done <= L
      BY <1>4, <1>5, <1>6, <1>18
    <2> QED
      BY <1>1, <1>2, <1>18, <1>20, <2>1, <2>2 DEF AtOk, L
  <1>22. ImpOk(m, DOMAIN emb', edges, released)
    BY <1>2, <1>18, <1>19, <1>21, ImportGoesOn
  <1>23. DOMAIN emb' \subseteq AllNodes
    BY <1>t, <1>12, <1>15 DEF StoreOk, BundleOk
  <1>24. StoreOk(emb', m, loads)
    <2>1. \A n \in DOMAIN emb' : \E md \in Models : emb'[n] = Own(md, n)
      BY <1>8, <1>15
    <2>2. loads \subseteq Loads /\ loads # {} /\ m.model = model
      BY <1>2, <1>18 DEF StoreOk, OfModel, model
    <2>3. ASSUME loads \in {{}, {"with"}, {"without"}}
          PROVE  \E md \in Models : OneFor(emb', m, loads, md)
      <3>1. OneFor(emb, imp, loads, model)
        BY <1>2, <2>3 DEF StoreOk, OfModel, OneFor, model
      <3>2. OneFor(emb', m, loads, model)
        BY <1>15, <2>2, <3>1 DEF OneFor
      <3> QED
        BY <1>8, <3>2
    <2> QED
      BY <1>8, <1>23, <2>1, <2>2, <2>3 DEF StoreOk, OfModel
  <1> QED
    BY <1>2, <1>12, <1>15, <1>16, <1>22, <1>24

(* The edges of the bundle arrive when all its nodes are there.            *)
LEMMA ImportEdgesOk ==
    ASSUME ImpOk(imp, DOMAIN emb, edges, released), StoreOk(emb, imp, loads), ImportEdges
    PROVE  /\ ImpOk(imp', DOMAIN emb, edges', released) /\ StoreOk(emb, imp', loads)
           /\ \E b \in released :
                /\ edges' = edges \cup b.edges
                /\ \A e \in b.edges : {e.from, e.to} \subseteq AllNodes
  <1>1. imp.pc = "nodes" /\ imp.done = Len(Bundle.nodes) /\ edges' = edges \cup Bundle.edges
    BY DEF ImportEdges
  <1>2. PICK h \in Hosts : \E t \in BuiltTenants(h) :
              /\ Importing(imp, DOMAIN emb, edges, released, h)
              /\ BundleOk(Bundle, t) /\ Bundle \in released
              /\ imp # Idle
              /\ imp = [pc |-> imp.pc, body |-> imp.body, model |-> imp.model, got |-> imp.got,
                        at |-> imp.at, done |-> imp.done]
              /\ GotOk(imp.got, h)
              /\ Len(imp.got) \in Nat /\ imp.at \in 1 .. Len(imp.got)
              /\ Len(imp.got) = Len(Listed(imp.body))
              /\ imp.done \in Nat
              /\ \A i \in 1 .. imp.done : Bundle.nodes[i] \in DOMAIN emb
    BY <1>1, MergingTenant
  <1>3. PICK t \in BuiltTenants(h) : BundleOk(Bundle, t)
    BY <1>2
  <1>4. PICK m : m = imp'
    OBVIOUS
  <1>5. m = [pc |-> "record", body |-> imp.body, model |-> imp.model, got |-> imp.got,
             at |-> imp.at, done |-> imp.done]
    BY <1>2, <1>4 DEF ImportEdges
  <1>6. /\ m.pc = "record" /\ m.model = imp.model /\ m.got = imp.got
        /\ m.at = imp.at /\ m.done = imp.done
    BY <1>5
  <1>7. m = [pc |-> m.pc, body |-> imp.body, model |-> imp.model, got |-> m.got,
             at |-> m.at, done |-> m.done]
    BY <1>5, <1>6
  <1>8. AtOk(m, DOMAIN emb, edges', Len(Listed(imp.body)))
    <2>1. m.got[m.at].bundle = Bundle
      BY <1>6 DEF Bundle
    <2>2. m.done \in 0 .. Len(IdOrder) /\ Len(Bundle.nodes) \in Nat
      BY <1>1, <1>3, <1>6, CorpusAssumption DEF BundleOk
    <2>3. m.done = Len(Bundle.nodes)
      BY <1>1, <1>6
    <2> QED
      BY <1>1, <1>2, <1>6, <2>1, <2>2, <2>3 DEF AtOk
  <1>9. ImpOk(m, DOMAIN emb, edges', released)
    BY <1>2, <1>6, <1>7, <1>8, ImportGoesOn
  <1>10. StoreOk(emb, m, loads)
    BY <1>2, <1>6, ModelStays
  <1>11. \A e \in Bundle.edges : {e.from, e.to} \subseteq AllNodes
    BY <1>3 DEF BundleOk
  <1> QED
    BY <1>1, <1>2, <1>4, <1>9, <1>10, <1>11

(* The hash that is recorded is that of a bundle all of which is there.    *)
LEMMA ImportRecordOk ==
    ASSUME ImpOk(imp, DOMAIN emb, edges, released), StoreOk(emb, imp, loads), MetaOk(meta, released),
           ImportRecord
    PROVE  /\ ImpOk(imp', DOMAIN emb, edges, released) /\ StoreOk(emb, imp', loads)
           /\ MetaOk(meta', released)
           /\ \E b \in released :
                /\ meta' = [meta EXCEPT ![b.tenant] = b] /\ b.tenant \in Tenants /\ b # NoFile
                /\ NodeSet(b) \subseteq DOMAIN emb /\ b.edges \subseteq edges
  <1>1. imp.pc = "record" /\ meta' = [meta EXCEPT ![Bundle.tenant] = Entry.sha]
    BY DEF ImportRecord
  <1>2. PICK h \in Hosts : \E t \in BuiltTenants(h) :
              /\ Importing(imp, DOMAIN emb, edges, released, h)
              /\ t \in Tenants /\ Bundle = BundleOf(h, t) /\ Bundle.tenant = t
              /\ Bundle \in released
              /\ Entry = TenantEntry(Bundle, h.embed)
              /\ imp # Idle
              /\ imp = [pc |-> imp.pc, body |-> imp.body, model |-> imp.model, got |-> imp.got,
                        at |-> imp.at, done |-> imp.done]
              /\ GotOk(imp.got, h)
              /\ Len(imp.got) \in Nat /\ imp.at \in 1 .. Len(imp.got)
              /\ Len(imp.got) = Len(Listed(imp.body))
              /\ \A i \in 1 .. imp.done : Bundle.nodes[i] \in DOMAIN emb
              /\ imp.pc = "record" => imp.done = Len(Bundle.nodes) /\ Bundle.edges \subseteq edges
    BY <1>1, MergingTenant
  <1>3. PICK t \in BuiltTenants(h) : t \in Tenants /\ Bundle = BundleOf(h, t) /\ Bundle.tenant = t
    BY <1>2
  <1>4. Entry.sha = Bundle
    BY <1>2, EntryFields
  <1>5. Builds(h)
    BY <1>2, ImportFields
  <1>6. Bundle # NoFile
    BY <1>3, <1>5, BuiltFacts
  <1>7. NodeSet(Bundle) \subseteq DOMAIN emb /\ Bundle.edges \subseteq edges
    BY <1>1, <1>2 DEF NodeSet
  <1>8. PICK m : m = imp'
    OBVIOUS
  <1>9. m = [pc |-> "tenant", body |-> imp.body, model |-> imp.model, got |-> imp.got,
             at |-> imp.at + 1, done |-> imp.done]
    BY <1>2, <1>8 DEF ImportRecord
  <1>10. /\ m.pc = "tenant" /\ m.model = imp.model /\ m.got = imp.got
         /\ m.at = imp.at + 1 /\ m.done = imp.done
    BY <1>9
  <1>11. m = [pc |-> m.pc, body |-> imp.body, model |-> imp.model, got |-> m.got,
              at |-> m.at, done |-> m.done]
    BY <1>9, <1>10
  <1>12. AtOk(m, DOMAIN emb, edges, Len(Listed(imp.body)))
    <2>1. imp.done \in 0 .. Len(IdOrder)
      BY <1>2 DEF Importing, AtOk
    <2> QED
      BY <1>2, <1>10, <2>1 DEF AtOk
  <1>13. ImpOk(m, DOMAIN emb, edges, released)
    BY <1>2, <1>10, <1>11, <1>12, ImportGoesOn
  <1>14. StoreOk(emb, m, loads)
    BY <1>2, <1>10, ModelStays
  <1> DEFINE b == Bundle
  <1>15. b \in released /\ b.tenant = t /\ meta' = [meta EXCEPT ![b.tenant] = b]
    BY <1>1, <1>2, <1>3, <1>4
  <1> HIDE DEF b
  <1>16. /\ meta' = [u \in Tenants |-> meta'[u]] /\ meta'[t] = b
         /\ \A u \in Tenants : u # t => meta'[u] = meta[u]
    BY <1>3, <1>15 DEF MetaOk
  <1>17. MetaOk(meta', released)
    BY <1>15, <1>16 DEF MetaOk
  <1> QED
    BY <1>3, <1>6, <1>7, <1>8, <1>13, <1>14, <1>15, <1>17 DEF b

(* An import that ends, by itself or by a fault, leaves the store as it    *)
(* is.                                                                     *)
LEMMA ImportEndsOk ==
    ASSUME StoreOk(emb, imp, loads), imp' = Idle
    PROVE  ImpOk(imp', DOMAIN emb, edges, released) /\ StoreOk(emb, imp', loads)
  BY DEF ImpOk, StoreOk, OfModel, OneFor

(* A shredded tenant's nodes, edges and record go; the others stay.        *)
LEMMA ShredTenantOk ==
    ASSUME StoreOk(emb, imp, loads), MetaOk(meta, released), NEW t \in Tenants, ShredTenant(t)
    PROVE  /\ ImpOk(imp', DOMAIN emb', edges', released) /\ StoreOk(emb', imp', loads)
           /\ MetaOk(meta', released) /\ edges' \subseteq edges
           /\ DOMAIN emb' = {m \in DOMAIN emb : TenantOf(m[1]) # t}
  <1>1. imp' = Idle
    BY DEF ShredTenant
  <1>2. /\ DOMAIN emb' = {m \in DOMAIN emb : TenantOf(m[1]) # t}
        /\ \A n \in DOMAIN emb' : emb'[n] = emb[n]
    BY DEF ShredTenant
  <1>3. StoreOk(emb', imp', loads)
    BY <1>1, <1>2 DEF StoreOk, OfModel, OneFor
  <1>4. meta' = [meta EXCEPT ![t] = NoFile] /\ meta = [u \in Tenants |-> meta[u]]
    BY DEF ShredTenant, MetaOk
  <1>5. /\ meta' = [u \in Tenants |-> meta'[u]] /\ meta'[t] = NoFile
        /\ \A u \in Tenants : u # t => meta'[u] = meta[u]
    BY <1>4
  <1>6. MetaOk(meta', released)
    BY <1>5 DEF MetaOk
  <1>7. edges' \subseteq edges
    BY DEF ShredTenant
  <1> QED
    BY <1>1, <1>2, <1>3, <1>6, <1>7 DEF ImpOk

-----------------------------------------------------------------------------
(* The invariant is inductive.                                             *)

(* Every step of the builder, the mirror and the importer preserves it.    *)
LEMMA CorpusNextInv == CorpusIInv /\ [CorpusNext]_corpusVars => CorpusIInv'
  <1> SUFFICES ASSUME CorpusIInv, [CorpusNext]_corpusVars
               PROVE  CorpusIInv'
    OBVIOUS
  <1> USE DEF storeVars
  <1>0. /\ BuiltOk(built, out) /\ OutOk(out, released) /\ ReleasedOk(released)
        /\ DirOk(dir, released) /\ ImpOk(imp, DOMAIN emb, edges, released)
        /\ StoreOk(emb, imp, loads) /\ MetaOk(meta, released)
        /\ \A e \in edges : {e.from, e.to} \subseteq AllNodes
        /\ builds \in 0 .. MaxBuilds /\ faults \in 0 .. MaxFaults
    BY DEF CorpusIInv
  <1>b. MaxBuilds \in Nat /\ MaxFaults \in Nat
    BY CorpusAssumption
  <1>1. ASSUME NEW h \in Hosts, Build(h)
        PROVE  CorpusIInv'
    <2>1. BuiltOk(built', out')
      BY <1>1, BuildOk
    <2>2. /\ builds' = builds + 1 /\ builds < MaxBuilds
          /\ UNCHANGED <<out, released, dir, imp, emb, edges, meta, loads, faults>>
      BY <1>1 DEF Build
    <2>3. builds' \in 0 .. MaxBuilds
      BY <1>0, <1>b, <2>2
    <2> QED
      BY <1>0, <2>1, <2>2, <2>3 DEF CorpusIInv
  <1>2. CASE WriteRefused
    <2>1. built' = NotBuilding /\ UNCHANGED <<out, released, dir, imp, emb, edges, meta, loads, builds, faults>>
      BY <1>2 DEF WriteRefused
    <2>2. BuiltOk(built', out')
      BY <2>1 DEF BuiltOk
    <2> QED
      BY <1>0, <2>1, <2>2 DEF CorpusIInv
  <1>3. CASE WriteNext
    <2>1. /\ BuiltOk(built', out') /\ OutOk(out', released') /\ ReleasedOk(released')
          /\ released \subseteq released'
      BY <1>0, <1>3, WriteNextOk
    <2>2. UNCHANGED <<dir, imp, emb, edges, meta, loads, builds, faults>>
      BY <1>3 DEF WriteNext
    <2>3. /\ DirOk(dir, released') /\ ImpOk(imp, DOMAIN emb, edges, released')
          /\ MetaOk(meta, released')
      BY <1>0, <2>1, ReleasedGrows
    <2> QED
      BY <1>0, <2>1, <2>2, <2>3 DEF CorpusIInv
  <1>4. CASE BuilderDies
    <2>1. BuiltOk(built', out') /\ OutOk(out', released')
      BY <1>0, <1>4, BuilderDiesOk
    <2>2. /\ faults' = faults + 1 /\ faults < MaxFaults
          /\ UNCHANGED <<released, dir, imp, emb, edges, meta, loads, builds>>
      BY <1>4 DEF BuilderDies
    <2>3. faults' \in 0 .. MaxFaults
      BY <1>0, <1>b, <2>2
    <2> QED
      BY <1>0, <2>1, <2>2, <2>3 DEF CorpusIInv
  <1>5. CASE CleanOut
    <2>1. BuiltOk(built', out') /\ OutOk(out', released')
      BY <1>5, CleanOutOk
    <2>2. UNCHANGED <<released, dir, imp, emb, edges, meta, loads, builds, faults>>
      BY <1>5 DEF CleanOut
    <2> QED
      BY <1>0, <2>1, <2>2 DEF CorpusIInv
  <1>6. ASSUME NEW n \in Copied, CopyFile(n)
        PROVE  CorpusIInv'
    <2>1. DirOk(dir', released')
      BY <1>0, <1>6, CopyFileOk
    <2>2. UNCHANGED <<built, out, released, imp, emb, edges, meta, loads, builds, faults>>
      BY <1>6 DEF CopyFile
    <2> QED
      BY <1>0, <2>1, <2>2 DEF CorpusIInv
  <1>7. ASSUME NEW n \in Copied, DamageFile(n)
        PROVE  CorpusIInv'
    <2>1. DirOk(dir', released')
      BY <1>0, <1>7, DamageFileOk
    <2>2. /\ faults' = faults + 1 /\ faults < MaxFaults
          /\ UNCHANGED <<built, out, released, imp, emb, edges, meta, loads, builds>>
      BY <1>7 DEF DamageFile
    <2>3. faults' \in 0 .. MaxFaults
      BY <1>0, <1>b, <2>2
    <2> QED
      BY <1>0, <2>1, <2>2, <2>3 DEF CorpusIInv
  <1>8. ASSUME NEW load \in Loads, NEW force \in BOOLEAN, StartImport(load, force)
        PROVE  CorpusIInv'
    <2>1. ImpOk(imp', DOMAIN emb, edges, released) /\ StoreOk(emb, imp', loads')
      BY <1>0, <1>8, StartImportOk
    <2>2. UNCHANGED <<built, out, released, dir, emb, edges, meta, builds>>
      BY <1>8 DEF StartImport
    <2>3. faults' \in 0 .. MaxFaults
      BY <1>0, <1>b, <1>8 DEF StartImport
    <2> QED
      BY <1>0, <2>1, <2>2, <2>3 DEF CorpusIInv
  <1>9. CASE VerifyTenant
    <2>1. ImpOk(imp', DOMAIN emb, edges, released) /\ StoreOk(emb, imp', loads)
      BY <1>0, <1>9, VerifyTenantOk
    <2>2. UNCHANGED <<built, out, released, dir, emb, edges, meta, loads, builds, faults>>
      BY <1>9 DEF VerifyTenant
    <2> QED
      BY <1>0, <2>1, <2>2 DEF CorpusIInv
  <1>10. CASE StartTenant
    <2>1. ImpOk(imp', DOMAIN emb, edges, released) /\ StoreOk(emb, imp', loads)
      BY <1>0, <1>10, StartTenantOk
    <2>2. UNCHANGED <<built, out, released, dir, emb, edges, meta, loads, builds, faults>>
      BY <1>10 DEF StartTenant
    <2> QED
      BY <1>0, <2>1, <2>2 DEF CorpusIInv
  <1>11. CASE ImportBatch
    <2>1. ImpOk(imp', DOMAIN emb', edges, released) /\ StoreOk(emb', imp', loads)
      BY <1>0, <1>11, ImportBatchOk
    <2>2. UNCHANGED <<built, out, released, dir, edges, meta, loads, builds, faults>>
      BY <1>11 DEF ImportBatch
    <2> QED
      BY <1>0, <2>1, <2>2 DEF CorpusIInv
  <1>12. CASE ImportEdges
    <2>1. ImpOk(imp', DOMAIN emb, edges', released) /\ StoreOk(emb, imp', loads)
      BY <1>0, <1>12, ImportEdgesOk
    <2>2. \A e \in edges' : {e.from, e.to} \subseteq AllNodes
      <3>1. PICK b \in released : /\ edges' = edges \cup b.edges
                                  /\ \A e \in b.edges : {e.from, e.to} \subseteq AllNodes
        BY <1>0, <1>12, ImportEdgesOk
      <3> QED
        BY <1>0, <3>1
    <2>3. UNCHANGED <<built, out, released, dir, emb, meta, loads, builds, faults>>
      BY <1>12 DEF ImportEdges
    <2> QED
      BY <1>0, <2>1, <2>2, <2>3 DEF CorpusIInv
  <1>13. CASE ImportRecord
    <2>1. /\ ImpOk(imp', DOMAIN emb, edges, released) /\ StoreOk(emb, imp', loads)
          /\ MetaOk(meta', released)
      BY <1>0, <1>13, ImportRecordOk
    <2>2. UNCHANGED <<built, out, released, dir, emb, edges, loads, builds, faults>>
      BY <1>13 DEF ImportRecord
    <2> QED
      BY <1>0, <2>1, <2>2 DEF CorpusIInv
  <1>14. CASE ImportDone
    <2>1. imp' = Idle /\ UNCHANGED <<built, out, released, dir, emb, edges, meta, loads, builds, faults>>
      BY <1>14 DEF ImportDone
    <2>2. ImpOk(imp', DOMAIN emb, edges, released) /\ StoreOk(emb, imp', loads)
      BY <1>0, <2>1, ImportEndsOk
    <2> QED
      BY <1>0, <2>1, <2>2 DEF CorpusIInv
  <1>15. CASE ImportDies
    <2>1. /\ imp' = Idle /\ faults' = faults + 1 /\ faults < MaxFaults
          /\ UNCHANGED <<built, out, released, dir, emb, edges, meta, loads, builds>>
      BY <1>15 DEF ImportDies
    <2>2. ImpOk(imp', DOMAIN emb, edges, released) /\ StoreOk(emb, imp', loads)
      BY <1>0, <2>1, ImportEndsOk
    <2>3. faults' \in 0 .. MaxFaults
      BY <1>0, <1>b, <2>1
    <2> QED
      BY <1>0, <2>1, <2>2, <2>3 DEF CorpusIInv
  <1>16. ASSUME NEW t \in Tenants, ShredTenant(t)
         PROVE  CorpusIInv'
    <2>1. /\ ImpOk(imp', DOMAIN emb', edges', released) /\ StoreOk(emb', imp', loads)
          /\ MetaOk(meta', released) /\ edges' \subseteq edges
      BY <1>0, <1>16, ShredTenantOk
    <2>2. /\ faults' = faults + 1 /\ faults < MaxFaults
          /\ UNCHANGED <<built, out, released, dir, loads, builds>>
      BY <1>16 DEF ShredTenant
    <2>3. faults' \in 0 .. MaxFaults /\ \A e \in edges' : {e.from, e.to} \subseteq AllNodes
      BY <1>0, <1>b, <2>1, <2>2
    <2> QED
      BY <1>0, <2>1, <2>2, <2>3 DEF CorpusIInv
  <1>17. CASE UNCHANGED corpusVars
    <2>1. UNCHANGED <<built, out, released, dir, imp, emb, edges, meta, loads, builds, faults>>
      BY <1>17 DEF corpusVars
    <2> QED
      BY <1>0, <2>1 DEF CorpusIInv
  <1> QED
    BY <1>1, <1>2, <1>3, <1>4, <1>5, <1>6, <1>7, <1>8, <1>9, <1>10, <1>11, <1>12, <1>13, <1>14,
       <1>15, <1>16, <1>17 DEF CorpusNext, ImportStep

(* The inductive invariant holds in every reachable state.                 *)
LEMMA CorpusIInvHolds == CorpusSpec => []CorpusIInv
  <1>1. CorpusInit => CorpusIInv
    BY CorpusInitInv
  <1>2. CorpusIInv /\ [CorpusNext]_corpusVars => CorpusIInv'
    BY CorpusNextInv
  <1> QED
    BY <1>1, <1>2, PTL DEF CorpusSpec

-----------------------------------------------------------------------------
(* What holds of the release directory and of the store.                   *)

(* The types follow from the invariant.                                    *)
LEMMA TypesFromInv == CorpusIInv => CorpusTypeOK
  <1> SUFFICES ASSUME CorpusIInv
               PROVE  CorpusTypeOK
    OBVIOUS
  <1>1. DOMAIN built.files = Names
    <2>1. CASE built = NotBuilding
      BY <2>1 DEF NotBuilding, EmptyDir
    <2>2. CASE Writing(built, out)
      <3>1. PICK h \in Hosts : built = [files |-> Release(h), left |-> built.left]
        BY <2>2 DEF Writing
      <3>2. built.files = Release(h)
        BY <3>1
      <3>3. DOMAIN Release(h) = Names
        BY DEF Release, BuildCorpus
      <3> QED
        BY <3>2, <3>3
    <2> QED
      BY <2>1, <2>2 DEF CorpusIInv, BuiltOk
  <1>2. DOMAIN out = Names /\ DOMAIN dir = Names
    BY DEF CorpusIInv, OutOk, DirOk
  <1>3. ASSUME NEW b \in released
        PROVE  /\ b.tenant \in Tenants /\ NodeSet(b) \subseteq AllNodes
               /\ \A e \in b.edges : {e.from, e.to} \subseteq AllNodes
    <2>1. PICK h \in Hosts : Builds(h) /\ \E t \in BuiltTenants(h) : b = BundleOf(h, t)
      BY DEF CorpusIInv, ReleasedOk
    <2>2. PICK t \in BuiltTenants(h) : b = BundleOf(h, t)
      BY <2>1
    <2>3. t \in Tenants /\ BundleOk(b, t)
      BY <2>1, <2>2, BuiltFacts, BundleFacts
    <2> QED
      BY <2>3 DEF BundleOk
  <1>4. imp = Idle \/ /\ imp.pc \in {"verify", "tenant", "nodes", "record"}
                      /\ imp.at \in 1 .. Len(imp.got) + 1
                      /\ imp.done \in 0 .. Len(IdOrder)
    BY DEF CorpusIInv, ImpOk, Importing, AtOk
  <1>5. DOMAIN emb \subseteq AllNodes /\ \A e \in edges : {e.from, e.to} \subseteq AllNodes
    BY DEF CorpusIInv, StoreOk
  <1>6. \A t \in Tenants : meta[t] = NoFile \/ meta[t].tenant = t
    BY DEF CorpusIInv, MetaOk
  <1>7. builds \in 0 .. MaxBuilds /\ faults \in 0 .. MaxFaults /\ loads \subseteq Loads
    BY DEF CorpusIInv, StoreOk, OfModel
  <1> QED
    BY <1>1, <1>2, <1>3, <1>4, <1>5, <1>6, <1>7 DEF CorpusTypeOK

(* Whatever dies or is damaged at whichever step, the store has only nodes *)
(* and edges that a build can mint, each node with its own vector, and all *)
(* of them of one model while one kind of build imports.                   *)
THEOREM CorpusInvHolds == CorpusSpec => []CorpusInv
  <1>1. CorpusIInv => CorpusInv
    <2> SUFFICES ASSUME CorpusIInv
                 PROVE  CorpusInv
      OBVIOUS
    <2>1. \A n \in DOMAIN emb : \E model \in Models : emb[n] = Own(model, n)
      BY DEF CorpusIInv, StoreOk, OfModel
    <2>2. \A model, n : Own(model, n).model = model
      BY DEF Own, Vector
    <2>3. VectorsOwn
      BY <2>1, <2>2 DEF VectorsOwn, Own
    <2>4. OneModel
      <3> SUFFICES ASSUME SameBuild
                   PROVE  Cardinality({emb[n].model : n \in DOMAIN emb}) <= 1
        BY DEF OneModel
      <3>1. PICK model \in Models : \A n \in DOMAIN emb : emb[n] = Own(model, n)
        BY DEF CorpusIInv, StoreOk, OfModel, OneFor, SameBuild
      <3> DEFINE used == {emb[n].model : n \in DOMAIN emb}
      <3>2. used \subseteq {model}
        BY <2>2, <3>1
      <3>3. IsFiniteSet({model}) /\ Cardinality({model}) = 1
        BY FS_Singleton
      <3> HIDE DEF used
      <3>4. Cardinality(used) <= Cardinality({model})
        BY <3>2, <3>3, FS_Subset
      <3> QED
        BY <3>3, <3>4 DEF used
    <2>5. CorpusTypeOK
      BY TypesFromInv
    <2> QED
      BY <2>3, <2>4, <2>5 DEF CorpusInv
  <1> QED
    BY <1>1, CorpusIInvHolds, PTL

(* A release directory with a manifest passes every check of the importer, *)
(* and its NOTICE lists every source in it, whatever died there before.    *)
THEOREM ReleaseSoundHolds == CorpusSpec => []ReleaseSound
  <1>1. CorpusIInv => ReleaseSound
    <2> SUFFICES ASSUME CorpusIInv, out[ManifestFile] \notin {NoFile, Garbage}
                 PROVE  /\ ManifestOk(out)
                        /\ LockOk(out, out[ManifestFile].body)
                        /\ \A t \in DOMAIN out[ManifestFile].body.tenants :
                             TenantOk(out, t, out[ManifestFile].body.tenants[t])
                        /\ \A t \in DOMAIN out[ManifestFile].body.tenants :
                             \A n \in NodeSet(out[BundleFile(t)]) :
                                SourceOf[n[1]] \in out[NoticeFile]
      BY DEF ReleaseSound, BuiltVerifies, NoticeCovers
    <2>1. PICK h \in Hosts : Finished(h, released) /\ out = Release(h)
      BY DEF CorpusIInv, OutOk
    <2> QED
      BY <2>1, ReleaseFit DEF Finished
  <1> QED
    BY <1>1, CorpusIInvHolds, PTL

-----------------------------------------------------------------------------
(* The import installs editions of finished releases.                      *)

(* The items of a released bundle are of its tenant.                       *)
LEMMA EditionOfOneTenant ==
    ASSUME NEW rel, ReleasedOk(rel), NEW b \in rel
    PROVE  /\ b # NoFile /\ b.tenant \in Tenants
           /\ EditionOf(b) = [tenant |-> b.tenant, items |-> Items(NodeSet(b), b.edges)]
           /\ \A i \in Items(NodeSet(b), b.edges) : ItemTenant(i) = b.tenant
  <1>1. PICK h \in Hosts : Builds(h) /\ \E t \in BuiltTenants(h) : b = BundleOf(h, t)
    BY DEF ReleasedOk
  <1>2. PICK t \in BuiltTenants(h) : b = BundleOf(h, t)
    BY <1>1
  <1>3. t \in Tenants /\ BundleOk(b, t) /\ b # NoFile
    BY <1>1, <1>2, BuiltFacts, BundleFacts
  <1>4. b.tenant = t
    BY <1>3 DEF BundleOk
  <1>5. \A n \in NodeSet(b) : ItemTenant(<<"node", n>>) = t
    BY <1>3 DEF BundleOk, ItemTenant
  <1>6. \A e \in b.edges : ItemTenant(<<"edge", e>>) = t
    BY <1>3 DEF BundleOk, ItemTenant
  <1>7. \A i \in Items(NodeSet(b), b.edges) : ItemTenant(i) = t
    BY <1>5, <1>6 DEF Items
  <1> QED
    BY <1>3, <1>4, <1>7 DEF EditionOf

(* Nothing is published, known or recorded at first.                       *)
LEMMA InstallFromInit == CorpusInit => Install!InstallInit
  <1> SUFFICES ASSUME CorpusInit
               PROVE  Install!InstallInit
    OBVIOUS
  <1>1. Items(DOMAIN emb, edges) = {}
    <2>1. DOMAIN emb = {} /\ edges = {}
      BY DEF CorpusInit
    <2> QED
      BY <2>1 DEF Items
  <1>2. {EditionOf(b) : b \in released} = {}
    BY DEF CorpusInit
  <1>3. [t \in Tenants |-> EditionOf(meta[t])] = [t \in Tenants |-> NoFile]
    BY DEF CorpusInit, EditionOf
  <1> QED
    BY <1>1, <1>2, <1>3 DEF Install!InstallInit

(* The files of a release that is written to the end are published.        *)
LEMMA WriteNextInstalls ==
    ASSUME CorpusIInv, CorpusIInv', WriteNext
    PROVE  Install!Publish
  <1>1. released \subseteq released' /\ UNCHANGED <<emb, edges, meta>>
    BY WriteNextOk DEF CorpusIInv, WriteNext, storeVars
  <1> DEFINE pub == {EditionOf(b) : b \in released}
             pub2 == {EditionOf(b) : b \in released'}
  <1>2. pub \subseteq pub2
    BY <1>1
  <1>3. ASSUME NEW x \in pub2
        PROVE  x.tenant \in Tenants /\ \A i \in x.items : ItemTenant(i) = x.tenant
    <2>1. PICK b \in released' : x = EditionOf(b)
      OBVIOUS
    <2>2. /\ b.tenant \in Tenants
          /\ EditionOf(b) = [tenant |-> b.tenant, items |-> Items(NodeSet(b), b.edges)]
          /\ \A i \in Items(NodeSet(b), b.edges) : ItemTenant(i) = b.tenant
      BY EditionOfOneTenant DEF CorpusIInv
    <2> QED
      BY <2>1, <2>2
  <1> QED
    BY <1>1, <1>2, <1>3 DEF Install!Publish, Install!OfOneTenant

(* What arrives of a released bundle is learnt.                            *)
LEMMA PartsAreLearnt ==
    ASSUME ReleasedOk(released), NEW b \in released, UNCHANGED <<released, meta>>,
           DOMAIN emb \subseteq DOMAIN emb', edges \subseteq edges',
           DOMAIN emb' \subseteq DOMAIN emb \cup NodeSet(b), edges' \subseteq edges \cup b.edges
    PROVE  Install!Learn
  <1> DEFINE pub == {EditionOf(x) : x \in released}
             k == Items(DOMAIN emb, edges)
             k2 == Items(DOMAIN emb', edges')
  <1>1. EditionOf(b) \in pub /\ EditionOf(b).items = Items(NodeSet(b), b.edges)
    BY EditionOfOneTenant
  <1>2. k \subseteq k2 /\ k2 \subseteq k \cup Items(NodeSet(b), b.edges)
    BY DEF Items
  <1>3. k2 \ k \subseteq EditionOf(b).items
    BY <1>1, <1>2
  <1>4. /\ {EditionOf(x) : x \in released'} = pub
        /\ [t \in Tenants |-> EditionOf(meta'[t])] = [t \in Tenants |-> EditionOf(meta[t])]
    OBVIOUS
  <1> QED
    BY <1>1, <1>2, <1>3, <1>4 DEF Install!Learn

(* A bundle whose hash is recorded is known as a whole.                    *)
LEMMA WholeIsRecorded ==
    ASSUME ReleasedOk(released), MetaOk(meta, released), UNCHANGED <<released, emb, edges>>,
           NEW b \in released, meta' = [meta EXCEPT ![b.tenant] = b],
           NodeSet(b) \subseteq DOMAIN emb, b.edges \subseteq edges
    PROVE  Install!Record
  <1> DEFINE ed == [t \in Tenants |-> EditionOf(meta[t])]
             ed2 == [t \in Tenants |-> EditionOf(meta'[t])]
             x == EditionOf(b)
  <1>1. /\ x \in {EditionOf(c) : c \in released} /\ b.tenant \in Tenants
        /\ x = [tenant |-> b.tenant, items |-> Items(NodeSet(b), b.edges)]
    BY EditionOfOneTenant
  <1>2. x.tenant = b.tenant /\ x.items = Items(NodeSet(b), b.edges)
    BY <1>1
  <1>3. x.items \subseteq Items(DOMAIN emb, edges)
    BY <1>2 DEF Items
  <1>4. meta = [t \in Tenants |-> meta[t]]
    BY DEF MetaOk
  <1>5. meta'[b.tenant] = b /\ \A t \in Tenants : t # b.tenant => meta'[t] = meta[t]
    BY <1>1, <1>4
  <1>6. ed2 = [ed EXCEPT ![x.tenant] = x]
    <2>1. \A t \in Tenants : ed2[t] = IF t = b.tenant THEN x ELSE ed[t]
      BY <1>5
    <2> HIDE DEF x
    <2>2. [ed EXCEPT ![x.tenant] = x] = [t \in Tenants |-> IF t = b.tenant THEN x ELSE ed[t]]
      BY <1>1, <1>2
    <2> QED
      BY <2>1, <2>2
  <1> HIDE DEF x
  <1>7. /\ {EditionOf(c) : c \in released'} = {EditionOf(c) : c \in released}
        /\ Items(DOMAIN emb', edges') = Items(DOMAIN emb, edges)
    OBVIOUS
  <1> QED
    BY <1>1, <1>3, <1>6, <1>7 DEF Install!Record

(* A shredded tenant is forgotten, and only that tenant.                   *)
LEMMA ShredForgets ==
    ASSUME MetaOk(meta, released), NEW t \in Tenants, ShredTenant(t)
    PROVE  Install!Forget
  <1> DEFINE k == Items(DOMAIN emb, edges)
             k2 == Items(DOMAIN emb', edges')
             ed == [u \in Tenants |-> EditionOf(meta[u])]
             ed2 == [u \in Tenants |-> EditionOf(meta'[u])]
  <1>1. /\ DOMAIN emb' = {m \in DOMAIN emb : TenantOf(m[1]) # t}
        /\ edges' = {e \in edges : TenantOf(e.from[1]) # t}
        /\ meta' = [meta EXCEPT ![t] = NoFile] /\ released' = released
    BY DEF ShredTenant
  <1>2. /\ \A n : ItemTenant(<<"node", n>>) = TenantOf(n[1])
        /\ \A e : ItemTenant(<<"edge", e>>) = TenantOf(e.from[1])
    BY DEF ItemTenant
  <1>3. k2 = {i \in k : ItemTenant(i) # t}
    <2>1. ASSUME NEW i \in k2
          PROVE  i \in k /\ ItemTenant(i) # t
      BY <1>1, <1>2 DEF Items
    <2>2. ASSUME NEW i \in k, ItemTenant(i) # t
          PROVE  i \in k2
      BY <1>1, <1>2, <2>2 DEF Items
    <2> QED
      BY <2>1, <2>2
  <1>4. meta'[t] = NoFile /\ \A u \in Tenants : u # t => meta'[u] = meta[u]
    BY <1>1 DEF MetaOk
  <1>5. ed2 = [ed EXCEPT ![t] = NoFile]
    <2>1. \A u \in Tenants : ed2[u] = IF u = t THEN NoFile ELSE ed[u]
      BY <1>4 DEF EditionOf
    <2>2. [ed EXCEPT ![t] = NoFile] = [u \in Tenants |-> IF u = t THEN NoFile ELSE ed[u]]
      OBVIOUS
    <2> QED
      BY <2>1, <2>2
  <1>6. {EditionOf(c) : c \in released'} = {EditionOf(c) : c \in released}
    BY <1>1
  <1> HIDE DEF k, k2, ed, ed2
  <1> QED
    BY <1>3, <1>5, <1>6 DEF Install!Forget, k, k2, ed, ed2

(* Every other step leaves what is published, known and recorded alone.    *)
LEMMA InstallStutters ==
    ASSUME UNCHANGED <<released, emb, edges, meta>>
    PROVE  UNCHANGED Install!installVars
  BY DEF Install!installVars

(* import-corpus does what import.rs promises: only files of a finished    *)
(* release enter the store, nothing is lost but by shredding, and a        *)
(* recorded hash means that the whole tenant landed.                       *)
THEOREM InstallsWholeHolds == CorpusSpec => InstallsWhole
  <1>1. CorpusInit => Install!InstallInit
    BY InstallFromInit
  <1>2. CorpusIInv /\ CorpusIInv' /\ [CorpusNext]_corpusVars
           => [Install!InstallNext]_(Install!installVars)
    <2> SUFFICES ASSUME CorpusIInv, CorpusIInv', [CorpusNext]_corpusVars
                 PROVE  Install!InstallNext \/ UNCHANGED Install!installVars
      OBVIOUS
    <2>0. /\ ReleasedOk(released) /\ ImpOk(imp, DOMAIN emb, edges, released)
          /\ StoreOk(emb, imp, loads) /\ MetaOk(meta, released)
      BY DEF CorpusIInv
    <2>1. CASE WriteNext
      BY <2>1, WriteNextInstalls DEF Install!InstallNext
    <2>2. CASE ImportBatch
      <3>1. PICK b \in released : DOMAIN emb' \subseteq DOMAIN emb \cup NodeSet(b)
        BY <2>0, <2>2, ImportBatchOk
      <3>2. DOMAIN emb \subseteq DOMAIN emb'
        BY <2>0, <2>2, ImportBatchOk
      <3>3. UNCHANGED <<released, edges, meta>>
        BY <2>2 DEF ImportBatch
      <3>4. Install!Learn
        BY <2>0, <3>1, <3>2, <3>3, PartsAreLearnt
      <3> QED
        BY <3>4 DEF Install!InstallNext
    <2>3. CASE ImportEdges
      <3>1. PICK b \in released : edges' = edges \cup b.edges
        BY <2>0, <2>3, ImportEdgesOk
      <3>2. UNCHANGED <<released, emb, meta>>
        BY <2>3 DEF ImportEdges
      <3>3. Install!Learn
        BY <2>0, <3>1, <3>2, PartsAreLearnt
      <3> QED
        BY <3>3 DEF Install!InstallNext
    <2>4. CASE ImportRecord
      <3>1. PICK b \in released :
               /\ meta' = [meta EXCEPT ![b.tenant] = b]
               /\ NodeSet(b) \subseteq DOMAIN emb /\ b.edges \subseteq edges
        BY <2>0, <2>4, ImportRecordOk
      <3>2. UNCHANGED <<released, emb, edges>>
        BY <2>4 DEF ImportRecord
      <3>3. Install!Record
        BY <2>0, <3>1, <3>2, WholeIsRecorded
      <3> QED
        BY <3>3 DEF Install!InstallNext
    <2>5. ASSUME NEW t \in Tenants, ShredTenant(t)
          PROVE  Install!InstallNext
      BY <2>0, <2>5, ShredForgets DEF Install!InstallNext
    <2>6. CASE UNCHANGED <<released, emb, edges, meta>>
      BY <2>6, InstallStutters
    <2>7. \/ WriteNext \/ ImportBatch \/ ImportEdges \/ ImportRecord
          \/ \E t \in Tenants : ShredTenant(t)
          \/ UNCHANGED <<released, emb, edges, meta>>
      BY DEF CorpusNext, ImportStep, Build, WriteRefused, BuilderDies, CleanOut, CopyFile,
             DamageFile, StartImport, VerifyTenant, StartTenant, ImportDone, ImportDies,
             corpusVars, storeVars
    <2> QED
      BY <2>1, <2>2, <2>3, <2>4, <2>5, <2>6, <2>7
  <1> QED
    BY <1>1, <1>2, CorpusIInvHolds, PTL DEF CorpusSpec, InstallsWhole, Install!InstallSpec
=============================================================================
