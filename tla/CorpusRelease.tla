---------------------------- MODULE CorpusRelease ----------------------------
(***************************************************************************)
(* The release corpus of crates/mem-corpus, from the build host to a       *)
(* member's store: build_corpus and embed_vectors turn a spec's sources    *)
(* into one bundle per knowledge tenant, write_corpus puts them into a     *)
(* directory, an update copies that directory file by file to the app, and *)
(* `mem-mcp import-corpus` verifies the copy and merges it in batches.     *)
(* Builder and importer may die between any two writes, the copy may be    *)
(* damaged, and a tenant may be shredded between two imports.              *)
(*                                                                         *)
(* A file's sha256 stands for its bytes, so a hash is the content itself.  *)
(* A node is <<file, version, part>>: its id is a function of the bytes of *)
(* the file and of the span, part 0 being the whole file.                  *)
(***************************************************************************)
EXTENDS Naturals, Sequences, FiniteSets

CONSTANTS
    TenantOrder,  \* KNOWLEDGE_TENANTS, in build and import order
    Sources,
    SourceSpec,   \* per source: [tenant, kind, optional, listed]
    Files,
    SourceOf,     \* the source of a file
    SkillOf,      \* for a skill's file, its SKILL.md (itself included)
    Versions,     \* texts a file may hold
    Chunks,       \* per file, the chunks its text is cut into
    IdOrder,      \* every node, in the byte order of ids
    Hosts,        \* builds: [roots, cleared, file, lock, embed]
    Weights,      \* model weights a release may be embedded with
    AppWeights,   \* the weights the app ships
    Batch,        \* IMPORT_BATCH
    MaxBuilds, MaxFaults,
    NoFile, Garbage

Tenants == {TenantOrder[i] : i \in 1 .. Len(TenantOrder)}

(* CorpusSpec::validate, as far as a property sees it.                     *)
ValidSpec ==
    \A s \in Sources :
        /\ SourceSpec[s].tenant \in Tenants
        /\ SourceSpec[s].kind \in {"docs", "skills"}
        /\ SourceSpec[s].optional \in BOOLEAN /\ SourceSpec[s].listed \in BOOLEAN

TenantOf(f) == SourceSpec[SourceOf[f]].tenant
FilesOf(s) == {f \in Files : SourceOf[f] = s}
SkillsOf(s) == {f \in FilesOf(s) : SkillOf[f] = f}

(* node and doc_node; chunk_text makes Chunks[f] spans of a text.          *)
NodesOf(f, v) == {<<f, v, i>> : i \in 0 .. Chunks[f]}
AllNodes == UNION {NodesOf(f, v) : f \in Files, v \in Versions}

ASSUME CorpusAssumption ==
    /\ ValidSpec
    /\ TenantOrder \in Seq(Tenants)
    /\ SourceOf \in [Files -> Sources]
    /\ \A f \in Files : SourceSpec[SourceOf[f]].kind = "skills" =>
          SkillOf[f] \in SkillsOf(SourceOf[f])
    /\ Chunks \in [Files -> Nat]
    /\ IdOrder \in Seq(AllNodes)
    /\ AllNodes = {IdOrder[i] : i \in 1 .. Len(IdOrder)}
    /\ Batch \in Nat \ {0}
    /\ AppWeights \in Weights
    /\ MaxBuilds \in Nat /\ MaxFaults \in Nat
    /\ NoFile # Garbage

VARIABLES
    built,     \* the builder: what it holds in memory and has yet to write
    out,       \* the release directory
    released,  \* history: bundles of releases written to the end
    dir,       \* the app's copy of a release
    imp,       \* the import process
    emb,       \* the store's corpus nodes and their vectors
    edges,     \* the store's corpus edges
    meta,      \* per tenant, corpus_tenant_sha256
    loads,     \* history: the kinds of embedder choice imports have made
    builds, faults   \* bounds

corpusVars == <<built, out, released, dir, imp, emb, edges, meta, loads, builds, faults>>

-----------------------------------------------------------------------------
(* The build.                                                              *)

(* The members of S, in the order of seq: what a BTreeMap iterates over.   *)
InOrder(seq, S) ==
    LET kept[n \in 0 .. Len(seq)] ==
          IF n = 0 THEN <<>>
          ELSE LET sofar == kept[n - 1]
               IN  IF seq[n] \in S THEN Append(sofar, seq[n]) ELSE sofar
    IN  kept[Len(seq)]

CorpusEdge(from, to, kind) == [from |-> from, to |-> to, kind |-> kind]

(* add_file: a file node, its chunks, and an edge from each to the file.   *)
AddFile(f, v) ==
    [nodes |-> NodesOf(f, v),
     edges |-> {CorpusEdge(n, <<f, v, 0>>, "DerivedFrom") : n \in NodesOf(f, v) \ {<<f, v, 0>>}}]

(* What a read of a file yields: read_regular refuses what is missing, not *)
(* a regular file or too large; the rest is text, bytes that are not, or a *)
(* text without the frontmatter the source requires.                       *)
ReadRegular(h, f) == h.file[f]
Unreadable == {"missing", "refused"}

(* build_docs skips what it cannot use, except a listed file that is gone. *)
DocsFail(h, s) ==
    SourceSpec[s].listed /\ \E f \in FilesOf(s) : ReadRegular(h, f) = "missing"

DocsFiles(h, s) == {f \in FilesOf(s) : ReadRegular(h, f) \in Versions}

(* LockSkill::ship                                                         *)
Ships(h, k) == h.lock.verdict[k] = "include"

(* read_pinned: the bytes are the ones the lock pins.                      *)
Pinned(h, f) ==
    ReadRegular(h, f) \notin Unreadable /\ ReadRegular(h, f) = h.lock.pin[f]

(* build_skills fails on an unknown verdict, on drift of any shipped file  *)
(* and on a SKILL.md that is no text; a pinned ref that is no text is left *)
(* out.                                                                    *)
SkillsFail(h, s) ==
    \E k \in SkillsOf(s) :
        \/ h.lock.verdict[k] \notin {"include", "exclude"}
        \/ /\ Ships(h, k)
           /\ \/ \E f \in FilesOf(s) : SkillOf[f] = k /\ ~Pinned(h, f)
              \/ ReadRegular(h, k) \notin Versions

(* Mutant: a pinned ref is shipped whatever its bytes are.                 *)
SkillsFilesAnyBytes(h, s) == {f \in FilesOf(s) : Ships(h, SkillOf[f])}

SkillsFiles(h, s) ==
    {f \in FilesOf(s) : Ships(h, SkillOf[f]) /\ ReadRegular(h, f) \in Versions}

ReferenceEdges(h, s) ==
    {CorpusEdge(<<SkillOf[f], ReadRegular(h, SkillOf[f]), 0>>, <<f, ReadRegular(h, f), 0>>,
                "References") : f \in {g \in SkillsFiles(h, s) : SkillOf[g] # g}}

(* A source is listed without being read when its licence is not cleared.  *)
Skipped(h, s) ==
    \/ s \notin h.cleared
    \/ s \notin h.roots /\ SourceSpec[s].optional

SourceFiles(h, s) ==
    IF SourceSpec[s].kind = "docs" THEN DocsFiles(h, s) ELSE SkillsFiles(h, s)

SourceFails(h, s) ==
    /\ ~Skipped(h, s)
    /\ \/ s \notin h.roots
       \/ SourceSpec[s].kind = "docs" /\ DocsFail(h, s)
       \/ SourceSpec[s].kind = "docs" /\ DocsFiles(h, s) = {} /\ ~SourceSpec[s].optional
       \/ SourceSpec[s].kind = "skills" /\ SkillsFail(h, s)

(* Mutant: the licence is looked at after the files are in the graph.      *)
SourceGraphUnread(h, s) ==
    LET added == {AddFile(f, ReadRegular(h, f)) : f \in SourceFiles(h, s)}
    IN  [nodes |-> UNION {a.nodes : a \in added},
         edges |-> (UNION {a.edges : a \in added})
                     \cup (IF SourceSpec[s].kind = "skills" THEN ReferenceEdges(h, s) ELSE {})]

(* build_source: what a source adds to its tenant's graph.                 *)
SourceGraph(h, s) ==
    LET files == IF Skipped(h, s) THEN {} ELSE SourceFiles(h, s)
        added == {AddFile(f, ReadRegular(h, f)) : f \in files}
    IN  [nodes |-> UNION {a.nodes : a \in added},
         edges |-> (UNION {a.edges : a \in added})
                     \cup (IF SourceSpec[s].kind = "skills" /\ files # {}
                           THEN ReferenceEdges(h, s) ELSE {})]

(* Its SourceEntry says included; a docs source without a usable file is   *)
(* not.                                                                    *)
Included(h, s) ==
    /\ ~Skipped(h, s)
    /\ SourceSpec[s].kind = "docs" => DocsFiles(h, s) # {}

(* One tenant's bundle: nodes in id order, edges by key.                   *)
BundleOf(h, t) ==
    LET graphs == {SourceGraph(h, s) : s \in {q \in Sources : SourceSpec[q].tenant = t}}
        ids == UNION {g.nodes : g \in graphs}
    IN  [tenant |-> t,
         nodes |-> InOrder(IdOrder, ids),
         edges |-> UNION {g.edges : g \in graphs}]

BuiltTenants(h) == {t \in Tenants : BundleOf(h, t).nodes # <<>>}

Vector(model, w, n) == [model |-> model, weights |-> w, of |-> n]

(* embed_vectors: one vector per node, in the order of the tenant file.    *)
EmbedVectors(b, w) == [i \in 1 .. Len(b.nodes) |-> Vector("bge", w, b.nodes[i])]

TenantEntry(b, w) ==
    [sha |-> b, nodes |-> Len(b.nodes), edges |-> Cardinality(b.edges),
     vectors |-> IF w = NoFile THEN NoFile
                 ELSE [sha |-> EmbedVectors(b, w), weights |-> w]]

(* compute_digest covers every other field.                                *)
WithDigest(body) == [body |-> body, digest |-> body]

Manifest(h, w) ==
    WithDigest([lock |-> IF \E s \in Sources : SourceSpec[s].kind = "skills" THEN h.lock ELSE NoFile,
                included |-> {s \in Sources : Included(h, s)},
                tenants |-> [t \in BuiltTenants(h) |-> TenantEntry(BundleOf(h, t), w)]])

(* notice: a section for every included source.                            *)
Notice(m) == m.body.included

BundleFile(t) == <<"bundle", t>>
VectorsFile(t) == <<"vectors", t>>
LockFile == <<"lock", NoFile>>
NoticeFile == <<"notice", NoFile>>
ManifestFile == <<"manifest", NoFile>>
Names == {BundleFile(t) : t \in Tenants} \cup {VectorsFile(t) : t \in Tenants}
           \cup {LockFile, NoticeFile, ManifestFile}

EmptyDir == [n \in Names |-> NoFile]

(* BuiltCorpus, as the files write_corpus will write.                      *)
BuildCorpus(h, w) ==
    [n \in Names |->
        IF n[1] = "bundle" THEN IF n[2] \in BuiltTenants(h) THEN BundleOf(h, n[2]) ELSE NoFile
        ELSE IF n[1] = "vectors"
             THEN IF w # NoFile /\ n[2] \in BuiltTenants(h)
                  THEN EmbedVectors(BundleOf(h, n[2]), w) ELSE NoFile
        ELSE IF n[1] = "lock" THEN Manifest(h, w).body.lock
        ELSE IF n[1] = "notice" THEN Notice(Manifest(h, w))
        ELSE Manifest(h, w)]

(* The files that write_corpus puts before the manifest.                   *)
Payload ==
    [i \in 1 .. Len(TenantOrder) |-> BundleFile(TenantOrder[i])]
      \o [i \in 1 .. Len(TenantOrder) |-> VectorsFile(TenantOrder[i])]
      \o <<LockFile, NoticeFile>>

(* Mutant: the manifest is the first file written.                         *)
WriteOrderManifestFirst(files) ==
    InOrder(<<ManifestFile>> \o Payload, {n \in Names : files[n] # NoFile})

(* The order of write_corpus; the manifest is last.                        *)
WriteOrder(files) ==
    InOrder(Append(Payload, ManifestFile), {n \in Names : files[n] # NoFile})

(* A file that a build makes is told from none and from a damaged one.     *)
ASSUME ContentsAssumption ==
    \A h \in Hosts :
        /\ Manifest(h, h.embed) \notin {NoFile, Garbage}
        /\ Manifest(h, h.embed).body # Garbage
        /\ \A t \in Tenants : BundleOf(h, t) # NoFile

NotBuilding == [files |-> EmptyDir, left |-> <<>>]

-----------------------------------------------------------------------------
CorpusInit ==
    /\ built = NotBuilding
    /\ out = EmptyDir
    /\ released = {}
    /\ dir = EmptyDir
    /\ imp = [pc |-> "idle"]
    /\ emb = <<>>
    /\ edges = {}
    /\ meta = [t \in Tenants |-> NoFile]
    /\ loads = {}
    /\ builds = 0 /\ faults = 0

storeVars == <<emb, edges, meta, loads>>

(* mem-corpus build, with or without --embed-bge; h is what the sources    *)
(* look like to this build.                                                *)
Build(h) ==
    /\ built = NotBuilding /\ builds < MaxBuilds
    /\ ~\E s \in Sources : SourceFails(h, s)
    /\ LET files == BuildCorpus(h, h.embed)
       IN  built' = [files |-> files, left |-> WriteOrder(files)]
    /\ builds' = builds + 1
    /\ UNCHANGED <<out, released, dir, imp, storeVars, faults>>

Unwritten(b) == b.left = WriteOrder(b.files)

(* write_corpus refuses a directory that is not empty ...                  *)
WriteRefused ==
    /\ built # NotBuilding /\ Unwritten(built) /\ out # EmptyDir
    /\ built' = NotBuilding
    /\ UNCHANGED <<out, released, dir, imp, storeVars, builds, faults>>

(* ... and writes one file after the other.                                *)
WriteNext ==
    /\ built # NotBuilding /\ (Unwritten(built) => out = EmptyDir)
    /\ LET n == Head(built.left)
       IN  /\ out' = [out EXCEPT ![n] = built.files[n]]
           /\ IF Len(built.left) = 1
              THEN /\ built' = NotBuilding
                   /\ released' = released \cup
                        {built.files[BundleFile(t)] :
                           t \in {u \in Tenants : built.files[BundleFile(u)] # NoFile}}
              ELSE /\ built' = [built EXCEPT !.left = Tail(@)]
                   /\ released' = released
    /\ UNCHANGED <<dir, imp, storeVars, builds, faults>>

(* The builder dies, the file it was writing cut short or not begun.       *)
BuilderDies ==
    /\ built # NotBuilding /\ faults < MaxFaults
    /\ Unwritten(built) => out = EmptyDir
    /\ built' = NotBuilding
    /\ \/ out' = [out EXCEPT ![Head(built.left)] = Garbage]
       \/ out' = out
    /\ faults' = faults + 1
    /\ UNCHANGED <<released, dir, imp, storeVars, builds>>

(* The release engineer clears the directory for another build.            *)
CleanOut ==
    /\ built = NotBuilding /\ out # EmptyDir /\ builds < MaxBuilds
    /\ out' = EmptyDir
    /\ UNCHANGED <<built, released, dir, imp, storeVars, builds, faults>>

-----------------------------------------------------------------------------
(* An update copies the files of a finished release, in any order.  The    *)
(* importer never opens the NOTICE, so the copy is modelled without it.    *)
Copied == Names \ {NoticeFile}

CopyFile(n) ==
    /\ built = NotBuilding /\ out[ManifestFile] \notin {NoFile, Garbage}
    /\ dir[n] # out[n]
    /\ dir' = [dir EXCEPT ![n] = out[n]]
    /\ UNCHANGED <<built, out, released, imp, storeVars, builds, faults>>

(* A file of the copy is damaged, or the manifest edited by hand.          *)
DamageFile(n) ==
    /\ faults < MaxFaults
    /\ dir[n] \notin {NoFile, Garbage}
    /\ dir' = [dir EXCEPT ![n] = IF n = ManifestFile THEN [@ EXCEPT !.digest = Garbage]
                                 ELSE Garbage]
    /\ faults' = faults + 1
    /\ UNCHANGED <<built, out, released, imp, storeVars, builds>>

-----------------------------------------------------------------------------
(* Verification.                                                           *)

NodeSet(b) == {b.nodes[i] : i \in 1 .. Len(b.nodes)}

(* check_bundle: the counts, and edges only within the bundle; every node  *)
(* of this model is a plain corpus node.                                   *)
CheckBundle(t, e, b) ==
    /\ b.tenant = t
    /\ Len(b.nodes) = e.nodes /\ Cardinality(b.edges) = e.edges
    /\ \A n \in NodeSet(b) : TenantOf(n[1]) = t
    /\ \A x \in b.edges : x.from \in NodeSet(b) /\ x.to \in NodeSet(b)

(* read_vectors                                                            *)
VectorsOk(d, t, e) ==
    e.vectors # NoFile =>
        d[VectorsFile(t)] = e.vectors.sha /\ Len(d[VectorsFile(t)]) = e.nodes

(* One round of the loop of verify_corpus.                                 *)
TenantOk(d, t, e) ==
    /\ d[BundleFile(t)] = e.sha
    /\ CheckBundle(t, e, d[BundleFile(t)])
    /\ VectorsOk(d, t, e)

ManifestOk(d) ==
    /\ d[ManifestFile] \notin {NoFile, Garbage}
    /\ d[ManifestFile].digest = d[ManifestFile].body

LockOk(d, body) == body.lock # NoFile => d[LockFile] = body.lock

Listed(body) == InOrder(TenantOrder, DOMAIN body.tenants)

Idle == [pc |-> "idle"]

(* Mutant: the environment overrides the store's model.                    *)
LoadEmbedderForced(load, force) == IF load # "without" /\ force THEN "bge" ELSE "hashing"

(* load_query_embedder: the model of the first row of the scan             *)
(* (detect_store_embedding_model); in a fresh store, and likewise when the *)
(* scan fails, what CITRATE_MEM_EMBED asks for.  A build without the       *)
(* transformer feature hashes whatever the store holds.                    *)
LoadEmbedder(load, force) ==
    IF load = "without" THEN "hashing"
    ELSE IF load = "with" /\ DOMAIN emb # {} THEN emb[InOrder(IdOrder, DOMAIN emb)[1]].model
    ELSE IF force THEN "bge" ELSE "hashing"

Odd(load) == load = "blind" \/ (load \notin loads /\ loads # {})

(* import-corpus: the store is opened, which takes its lock, the embedder  *)
(* chosen, and manifest and skills.lock are read.  The binary is built     *)
(* "with" or "without" the feature; "blind" is a build with it whose scan  *)
(* of the store failed.  That, and a change of the build, count as faults. *)
StartImport(load, force) ==
    /\ imp = Idle
    /\ ManifestOk(dir) /\ LockOk(dir, dir[ManifestFile].body)
    /\ Odd(load) => faults < MaxFaults
    /\ imp' = [pc |-> "verify", body |-> dir[ManifestFile].body, model |-> LoadEmbedder(load, force),
               got |-> <<>>, at |-> 1, done |-> 0]
    /\ loads' = loads \cup (IF load = "blind" THEN {"with", "blind"} ELSE {load})
    /\ faults' = IF Odd(load) THEN faults + 1 ELSE faults
    /\ UNCHANGED <<built, out, released, dir, emb, edges, meta, builds>>

(* The tenants are verified one by one while the copy may still change;    *)
(* the bundle read here is the one imported later.                         *)
VerifyTenant ==
    /\ imp.pc = "verify" /\ Len(imp.got) < Len(Listed(imp.body))
    /\ LET t == Listed(imp.body)[Len(imp.got) + 1]
       IN  imp' = IF TenantOk(dir, t, imp.body.tenants[t])
                  THEN [imp EXCEPT !.got = Append(@, [bundle |-> dir[BundleFile(t)],
                                                      vectors |-> dir[VectorsFile(t)]]),
                                   !.pc = IF Len(imp.got) + 1 = Len(Listed(imp.body))
                                          THEN "tenant" ELSE @]
                  ELSE Idle
    /\ UNCHANGED <<built, out, released, dir, storeVars, builds, faults>>

-----------------------------------------------------------------------------
(* Import.                                                                 *)

Bundle == imp.got[imp.at].bundle
Entry == imp.body.tenants[Bundle.tenant]

(* vectors_match: the same model, and proven weights.                      *)
VectorsMatch(e) ==
    e.vectors # NoFile /\ imp.model = "bge" /\ e.vectors.weights = AppWeights

EmbedText(n) == Vector(imp.model, IF imp.model = "bge" THEN AppWeights ELSE NoFile, n)

(* Mutant: the index restarts in every batch.                              *)
VectorAtBatch(done, j) == imp.got[imp.at].vectors[j]

(* vector_at                                                               *)
VectorAt(done, j) == imp.got[imp.at].vectors[done + j]

(* min_embedding: what is there already stays unless the other model sorts *)
(* first.                                                                  *)
MinEmbedding(a, b) == IF a.model = "hashing" /\ b.model = "bge" THEN b ELSE a

(* merge_bundle on a batch of nodes.                                       *)
MergeNodes(new) ==
    [n \in DOMAIN emb \cup DOMAIN new |->
        IF n \notin DOMAIN new THEN emb[n]
        ELSE IF n \notin DOMAIN emb THEN new[n]
        ELSE MinEmbedding(emb[n], new[n])]

(* Mutant: a tenant with any recorded hash is skipped.                     *)
StartTenantOnce ==
    /\ imp.pc = "tenant" /\ imp.at <= Len(imp.got)
    /\ imp' = IF meta[Bundle.tenant] # NoFile THEN [imp EXCEPT !.at = @ + 1]
              ELSE [imp EXCEPT !.pc = "nodes", !.done = 0]
    /\ UNCHANGED <<built, out, released, dir, storeVars, builds, faults>>

(* A tenant whose hash is recorded already is skipped.                     *)
StartTenant ==
    /\ imp.pc = "tenant" /\ imp.at <= Len(imp.got)
    /\ imp' = IF meta[Bundle.tenant] = Entry.sha THEN [imp EXCEPT !.at = @ + 1]
              ELSE [imp EXCEPT !.pc = "nodes", !.done = 0]
    /\ UNCHANGED <<built, out, released, dir, storeVars, builds, faults>>

ImportBatch ==
    /\ imp.pc = "nodes" /\ imp.done < Len(Bundle.nodes)
    /\ LET size == IF imp.done + Batch > Len(Bundle.nodes)
                   THEN Len(Bundle.nodes) - imp.done ELSE Batch
           node(j) == Bundle.nodes[imp.done + j]
           vector(j) == IF VectorsMatch(Entry) THEN VectorAt(imp.done, j) ELSE EmbedText(node(j))
       IN  /\ emb' = MergeNodes([n \in {node(j) : j \in 1 .. size} |->
                                   vector(CHOOSE j \in 1 .. size : node(j) = n)])
           /\ imp' = [imp EXCEPT !.done = @ + size]
    /\ UNCHANGED <<built, out, released, dir, edges, meta, loads, builds, faults>>

(* Mutant: the hash is recorded before the edges are merged.               *)
ImportEdgesLate ==
    /\ imp.pc = "nodes" /\ imp.done = Len(Bundle.nodes)
    /\ meta' = [meta EXCEPT ![Bundle.tenant] = Entry.sha]
    /\ imp' = [imp EXCEPT !.pc = "record"]
    /\ UNCHANGED <<built, out, released, dir, emb, edges, loads, builds, faults>>

ImportEdges ==
    /\ imp.pc = "nodes" /\ imp.done = Len(Bundle.nodes)
    /\ edges' = edges \cup Bundle.edges
    /\ imp' = [imp EXCEPT !.pc = "record"]
    /\ UNCHANGED <<built, out, released, dir, emb, meta, loads, builds, faults>>

(* The hash is recorded when the whole tenant is there.                    *)
ImportRecord ==
    /\ imp.pc = "record"
    /\ meta' = [meta EXCEPT ![Bundle.tenant] = Entry.sha]
    /\ imp' = [imp EXCEPT !.pc = "tenant", !.at = @ + 1]
    /\ UNCHANGED <<built, out, released, dir, emb, edges, loads, builds, faults>>

ImportDone ==
    /\ imp.pc \in {"verify", "tenant"}
    /\ imp.at > Len(Listed(imp.body))
    /\ imp' = Idle
    /\ UNCHANGED <<built, out, released, dir, storeVars, builds, faults>>

(* The process dies, or the embedder or the store fails.                   *)
ImportDies ==
    /\ imp # Idle /\ faults < MaxFaults
    /\ imp' = Idle
    /\ faults' = faults + 1
    /\ UNCHANGED <<built, out, released, dir, storeVars, builds>>

(* shred_tenant, by the operator's tool, which needs the store's lock: the *)
(* rows of the tenant and its record can no longer be read.                *)
ShredTenant(t) ==
    /\ imp = Idle /\ faults < MaxFaults
    /\ emb' = [n \in {m \in DOMAIN emb : TenantOf(m[1]) # t} |-> emb[n]]
    /\ edges' = {e \in edges : TenantOf(e.from[1]) # t}
    /\ meta' = [meta EXCEPT ![t] = NoFile]
    /\ faults' = faults + 1
    /\ UNCHANGED <<built, out, released, dir, imp, loads, builds>>

Loads == {"with", "without", "blind"}

ImportStep ==
    \/ VerifyTenant \/ StartTenant \/ ImportBatch \/ ImportEdges \/ ImportRecord \/ ImportDone

CorpusNext ==
    \/ \E h \in Hosts : Build(h)
    \/ WriteRefused \/ WriteNext \/ BuilderDies \/ CleanOut
    \/ \E n \in Copied : CopyFile(n) \/ DamageFile(n)
    \/ \E load \in Loads, force \in BOOLEAN : StartImport(load, force)
    \/ ImportStep \/ ImportDies
    \/ \E t \in Tenants : ShredTenant(t)

(* Processes are scheduled until they are done; an update is carried       *)
(* through, and the app imports at every start.                            *)
CorpusFairness ==
    /\ WF_corpusVars(WriteRefused \/ WriteNext)
    /\ \A n \in Copied : WF_corpusVars(CopyFile(n))
    /\ WF_corpusVars(\E load \in Loads, force \in BOOLEAN : StartImport(load, force))
    /\ WF_corpusVars(ImportStep)

CorpusSpec == CorpusInit /\ [][CorpusNext]_corpusVars /\ CorpusFairness

-----------------------------------------------------------------------------
(* Properties.                                                             *)

(* The type invariant: released and stored nodes and edges are ones a      *)
(* build can mint from text, and the importer never runs past its tenants. *)
CorpusTypeOK ==
    /\ DOMAIN built.files = Names /\ DOMAIN out = Names /\ DOMAIN dir = Names
    /\ \A b \in released :
         /\ b.tenant \in Tenants /\ NodeSet(b) \subseteq AllNodes
         /\ \A e \in b.edges : {e.from, e.to} \subseteq AllNodes
    /\ imp = Idle \/ /\ imp.pc \in {"verify", "tenant", "nodes", "record"}
                     /\ imp.at \in 1 .. Len(imp.got) + 1
                     /\ imp.done \in 0 .. Len(IdOrder)
    /\ DOMAIN emb \subseteq AllNodes
    /\ \A e \in edges : {e.from, e.to} \subseteq AllNodes
    /\ \A t \in Tenants : meta[t] = NoFile \/ meta[t].tenant = t
    /\ loads \subseteq Loads
    /\ builds \in 0 .. MaxBuilds /\ faults \in 0 .. MaxFaults

(* A release directory with a manifest in it passes every check the        *)
(* importer makes, whatever build died in that directory before.           *)
BuiltVerifies ==
    out[ManifestFile] \notin {NoFile, Garbage} =>
        /\ ManifestOk(out)
        /\ LockOk(out, out[ManifestFile].body)
        /\ \A t \in DOMAIN out[ManifestFile].body.tenants :
             TenantOk(out, t, out[ManifestFile].body.tenants[t])

(* Nothing ships without its notice: every node of a finished release is   *)
(* from a source that the NOTICE lists, so from one that was cleared.      *)
NoticeCovers ==
    out[ManifestFile] \notin {NoFile, Garbage} =>
        \A t \in DOMAIN out[ManifestFile].body.tenants :
            \A n \in NodeSet(out[BundleFile(t)]) : SourceOf[n[1]] \in out[NoticeFile]

(* Every node of the store carries its own vector, made by its model with  *)
(* the weights the app queries with: whether embedded here or taken from   *)
(* the release, in whichever batch, after whichever interruption.          *)
VectorsOwn ==
    \A n \in DOMAIN emb :
        emb[n] = Vector(emb[n].model, IF emb[n].model = "bge" THEN AppWeights ELSE NoFile, n)

(* Every import so far was by the same kind of build, and none was blind.  *)
SameBuild == loads \in {{}, {"with"}, {"without"}}

(* As long as the same kind of build imports and reads the store it        *)
(* imports into, the store is embedded with one model, so that one query   *)
(* embedder finds everything, whatever the environment asks for later.     *)
OneModel == SameBuild => Cardinality({emb[n].model : n \in DOMAIN emb}) <= 1

Items(nodes, es) == {<<"node", n>> : n \in nodes} \cup {<<"edge", e>> : e \in es}
ItemTenant(i) == IF i[1] = "node" THEN TenantOf(i[2][1]) ELSE TenantOf(i[2].from[1])

EditionOf(b) == IF b = NoFile THEN NoFile ELSE [tenant |-> b.tenant, items |-> Items(NodeSet(b), b.edges)]

Install == INSTANCE KnowledgeInstall WITH
    TenantOf <- ItemTenant,
    NoEdition <- NoFile,
    published <- {EditionOf(b) : b \in released},
    known <- Items(DOMAIN emb, edges),
    edition <- [t \in Tenants |-> EditionOf(meta[t])]

(* What import.rs promises: only files of a finished release enter the     *)
(* store, nothing is lost but by shredding, and a recorded hash means the  *)
(* whole tenant landed.                                                    *)
InstallsWhole == Install!InstallSpec

(* An update that is carried through ends with the release installed: an   *)
(* interrupted, refused or shredded import is made good by a later one.    *)
InstallCompletes ==
    <>[](out[ManifestFile] \notin {NoFile, Garbage} =>
           \A t \in DOMAIN out[ManifestFile].body.tenants : meta[t] = out[BundleFile(t)])

(* A release directory with a manifest is fit to ship: it passes the       *)
(* importer's checks and its NOTICE lists every source in it.              *)
ReleaseSound == BuiltVerifies /\ NoticeCovers

(* What holds of the store between any two steps of an import: types,      *)
(* every vector the node's own, and one model for all of them while one    *)
(* kind of build imports.                                                  *)
CorpusInv == CorpusTypeOK /\ VectorsOwn /\ OneModel
=============================================================================
