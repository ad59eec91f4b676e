----------------------------- MODULE SealedStore -----------------------------
(***************************************************************************)
(* The life of one store on disk: sealing rows under tenant keys, the      *)
(* migration that seals what an older release left in plaintext, shredding *)
(* a tenant, rolling checkpoints, and the processes that open the store    *)
(* (crates/mem-store lib.rs, shred.rs, rocks.rs and crates/mem-mcp         *)
(* main.rs).                                                               *)
(*                                                                         *)
(* A batch is synced and makes everything before it durable; a plain put   *)
(* is not, so a power failure brings back the disk as it was at some point *)
(* since the last sync.  A key is a number no other key has, so that two   *)
(* keys of one generation can be told apart.                               *)
(***************************************************************************)
EXTENDS Naturals, FiniteSets

CONSTANTS
    Slots,       \* storage slots: node, edge and meta rows
    CfOf,        \* Slots -> {"node", "edge", "meta"}
    OwnerOf,     \* the tenant a row is written for
    SealTenant,  \* the tenant the migration takes it for, or NoTenant
    NoTenant,
    Procs,       \* processes that open the store
    Nobody,
    Keep,        \* MEM_CHECKPOINT_KEEP
    Worlds       \* the store found, and how often things happen

Tenants == {OwnerOf[s] : s \in Slots}

(* Every name the keyring may have a row for.                              *)
Names == Tenants \cup ({SealTenant[s] : s \in Slots} \ {NoTenant})

Row == [form : {"absent", "plain", "sealed"}, tenant : Names \cup {NoTenant},
        gen : Nat, key : Nat]

Absent == [form |-> "absent", tenant |-> NoTenant, gen |-> 0, key |-> 0]
Plain == [form |-> "plain", tenant |-> NoTenant, gen |-> 0, key |-> 0]

(* The column families and two pieces of history: before, the rows older   *)
(* than the last shred of their owner; missed, those among them that were  *)
(* still in plaintext when a release without the migration shredded it.    *)
Disk == [rows : [Slots -> Row], keyring : [Names -> [gen : Nat, key : Nat]],
         marker : BOOLEAN, before : SUBSET Slots, missed : SUBSET Slots]

ASSUME SealedStoreAssumption ==
    /\ CfOf \in [Slots -> {"node", "edge", "meta"}]
    /\ DOMAIN OwnerOf = Slots /\ DOMAIN SealTenant = Slots
    /\ NoTenant \notin Tenants
    /\ Nobody \notin Procs
    /\ Keep \in Nat \ {0}
    /\ \A w \in Worlds :
          /\ w.disk \in Disk
          /\ w.shreds \subseteq Tenants     \* the tenants that are shredded
          /\ w.writes \in Nat               \* bound on rows written
          /\ w.crashes \in Nat              \* bound on kills and power failures
          /\ w.clock \in Nat                \* bound on the clock
          /\ w.restores \in Nat             \* bound on restored checkpoints

VARIABLES
    disk,      \* what a reader of the store sees
    past,      \* the disks a power failure may bring back
    minted,    \* keys generated so far
    pc, job,   \* per process, where it is and the tenant it is to shred
    lock,      \* the process that has the database open
    socket,    \* the process that bound the socket file last
    ckpts,     \* the directories under <db>.checkpoints
    copying,   \* the checkpoint thread: "idle", "copy" or "prune"
    clock, stepped,
    last,      \* the stamp of the last checkpoint that succeeded
    done,      \* crashes, writes and restores so far
    world

daemon == <<pc, job, lock, socket>>
files == <<ckpts, copying, clock, stepped, last>>
vars == <<disk, past, minted, daemon, files, done, world>>

(* The state has its types, and every sealed row names a key that was      *)
(* generated.                                                              *)
SealedTypeOK ==
    /\ disk \in Disk
    /\ past \subseteq Disk
    /\ \A s \in Slots : disk.rows[s].form = "sealed" => disk.rows[s].key \in 1 .. minted
    /\ minted \in Nat
    /\ pc \in [Procs -> {"down", "migrate", "ready", "startup", "checkpoint", "audit", "bind", "serving"}]
    /\ job \in [Procs -> Tenants \cup {NoTenant}]
    /\ lock \in Procs \cup {Nobody}
    /\ socket \in Procs \cup {Nobody}
    /\ \A c \in ckpts : c \in [stamp : Nat, whole : BOOLEAN, snap : Disk]
    /\ copying \in {"idle", "copy", "prune"}
    /\ clock \in Nat /\ stepped \in BOOLEAN /\ last \in Nat
    /\ done \in [crashes : Nat, writes : Nat, restores : Nat]
    /\ world \in Worlds

-----------------------------------------------------------------------------
(* Sealing.                                                                *)

(* new_auto: a store with a keyring row is an encrypted one.               *)
Encrypted(d) == \E t \in Names : d.keyring[t].gen > 0

(* Mutant: a fresh key under the old generation.                           *)
EnsureKeySameGen(d, t, k) ==
    IF d.keyring[t].key # 0 THEN d
    ELSE [d EXCEPT !.keyring[t] = [gen |-> IF @.gen = 0 THEN 1 ELSE @.gen, key |-> k]]

(* Mutant: the generation is counted and the key left out.                 *)
EnsureKeyMissing(d, t, k) ==
    IF d.keyring[t].key # 0 THEN d
    ELSE [d EXCEPT !.keyring[t] = [gen |-> @.gen + 1, key |-> 0]]

(* ensure_tenant_key: the live key, or k under the next generation.        *)
EnsureKey(d, t, k) ==
    IF d.keyring[t].key # 0 THEN d
    ELSE [d EXCEPT !.keyring[t] = [gen |-> @.gen + 1, key |-> k]]

SealedRow(d, t) ==
    [form |-> "sealed", tenant |-> t, gen |-> d.keyring[t].gen, key |-> d.keyring[t].key]

(* Mutant: the row is stored before the key that seals it.                 *)
SealKeyless(d, s, t, k) == [d EXCEPT !.rows[s] = SealedRow(EnsureKey(d, t, k), t)]

(* seal, seal_at: the row under the key just ensured.                      *)
Seal(d, s, t, k) == [EnsureKey(d, t, k) EXCEPT !.rows[s] = SealedRow(EnsureKey(d, t, k), t)]

(* decode_node, decode_edge and get_meta get past the generation check.    *)
Opens(d, s) ==
    LET r == d.rows[s]
    IN  r.form = "sealed" /\ d.keyring[r.tenant].key # 0 /\ d.keyring[r.tenant].gen = r.gen

(* The value is returned: in plaintext, or the key authenticates.          *)
Readable(d, s) ==
    \/ d.rows[s].form = "plain"
    \/ Opens(d, s) /\ d.keyring[d.rows[s].tenant].key = d.rows[s].key

(* What a disk says of each row: a sealed one names its owner or the name  *)
(* the migration would give it, and one of the n keys generated so far; it *)
(* is open unless its owner was shredded since, and then only if it was    *)
(* missed or under a name that is not its owner's.  Plaintext that         *)
(* outlived a shred is a node, which nothing seals after the fact, could   *)
(* not be attributed to its owner, or was missed.                          *)
RowSound(d, s, n) ==
    LET r == d.rows[s]
        k == d.keyring[r.tenant]
    IN  /\ r.form = "sealed" =>
              /\ r.tenant \in {OwnerOf[s], SealTenant[s]} \ {NoTenant}
              /\ r.key \in 1 .. n
              /\ r.gen <= k.gen
              /\ r.gen = k.gen /\ k.key # 0 => r.key = k.key
              /\ s \notin d.before \ d.missed => r.gen = k.gen /\ r.key = k.key
              /\ s \in d.before \ d.missed /\ r.tenant = OwnerOf[s] => r.gen < k.gen \/ k.key = 0
        /\ r.form = "plain" /\ CfOf[s] # "node" =>
              /\ d.marker => SealTenant[s] = NoTenant
              /\ s \in d.before \ d.missed => SealTenant[s] # OwnerOf[s]

(* Only the migration of an encrypted store sets the marker.               *)
Sound(d, n) ==
    /\ \A t \in Names : d.keyring[t].key <= n
    /\ d.marker => Encrypted(d)
    /\ d.missed \subseteq {s \in d.before : SealTenant[s] = OwnerOf[s]}
    /\ \A s \in Slots : RowSound(d, s, n)

(* A store is found as some release left it, and a name the migration      *)
(* makes of a branch watermark ("<repo>:<branch>") is no tenant's.         *)
ASSUME FoundAssumption ==
    /\ IsFiniteSet(Names)
    /\ \A s \in Slots : SealTenant[s] \in Tenants => SealTenant[s] = OwnerOf[s]
    /\ \A w \in Worlds : Sound(w.disk, Cardinality(Names))

(* kv_put: seen at once, durable with the next sync.  The keyring row is a *)
(* put of its own.                                                         *)
Put(d, keyed) ==
    /\ disk' = d
    /\ past' = past \cup {disk, keyed}
    /\ minted' = IF keyed.keyring # disk.keyring THEN minted + 1 ELSE minted

SealedInit ==
    /\ world \in Worlds
    /\ disk = world.disk
    /\ past = {}
    /\ minted = Cardinality(Names)
    /\ pc = [p \in Procs |-> "down"]
    /\ job = [p \in Procs |-> NoTenant]
    /\ lock = Nobody /\ socket = Nobody
    /\ ckpts = {} /\ copying = "idle"
    /\ clock = 1 /\ stepped = FALSE /\ last = 0
    /\ done = [crashes |-> 0, writes |-> 0, restores |-> 0]

-----------------------------------------------------------------------------
(* Opening the store.                                                      *)

(* Mutant: the socket is cleared before the database is opened.            *)
OpenStoreClearing(p, t) ==
    /\ pc[p] = "down"
    /\ socket' = Nobody
    /\ pc' = [pc EXCEPT ![p] = IF lock = Nobody THEN "migrate" ELSE "down"]
    /\ lock' = IF lock = Nobody THEN p ELSE lock
    /\ job' = [job EXCEPT ![p] = t]
    /\ UNCHANGED <<disk, past, minted, files, done, world>>

(* Mutant: the store is opened without the migration.                      *)
OpenStoreAsIs(p, t) ==
    /\ pc[p] = "down"
    /\ lock = Nobody
    /\ lock' = p
    /\ pc' = [pc EXCEPT ![p] = "ready"]
    /\ job' = [job EXCEPT ![p] = t]
    /\ UNCHANGED <<disk, past, minted, socket, files, done, world>>

(* open_rocksdb_auto, by the daemon or by the shred tool: a second opener  *)
(* is refused and exits.                                                   *)
OpenStore(p, t) ==
    /\ pc[p] = "down"
    /\ lock = Nobody
    /\ lock' = p
    /\ pc' = [pc EXCEPT ![p] = IF Encrypted(disk) THEN "migrate" ELSE "ready"]
    /\ job' = [job EXCEPT ![p] = t]
    /\ UNCHANGED <<disk, past, minted, socket, files, done, world>>

(* The rows of a column family the migration can still seal.               *)
ToSeal(cfs) ==
    {s \in Slots : CfOf[s] \in cfs /\ disk.rows[s].form = "plain" /\ SealTenant[s] # NoTenant}

(* migrate_seal_v2: the edges row by row, then the meta rows ...           *)
MigrateRow(p, s) ==
    /\ pc[p] = "migrate"
    /\ ~disk.marker
    /\ s \in ToSeal(IF ToSeal({"edge"}) # {} THEN {"edge"} ELSE {"meta"})
    /\ Put(Seal(disk, s, SealTenant[s], minted + 1), EnsureKey(disk, SealTenant[s], minted + 1))
    /\ UNCHANGED <<daemon, files, done, world>>

(* Mutant: the marker comes first.                                         *)
MigrateEndEarly(p) ==
    /\ pc[p] = "migrate"
    /\ Put([disk EXCEPT !.marker = TRUE], disk)
    /\ pc' = [pc EXCEPT ![p] = IF disk.marker \/ ToSeal({"edge", "meta"}) = {} THEN "ready" ELSE @]
    /\ UNCHANGED <<job, lock, socket, files, done, world>>

(* Mutant: the marker waits for the rows that cannot be sealed as well.    *)
MigrateEndStrict(p) ==
    /\ pc[p] = "migrate"
    /\ disk.marker \/ \A s \in Slots : CfOf[s] # "node" => disk.rows[s].form # "plain"
    /\ Put([disk EXCEPT !.marker = TRUE], disk)
    /\ pc' = [pc EXCEPT ![p] = "ready"]
    /\ UNCHANGED <<job, lock, socket, files, done, world>>

(* ... and the marker last; a store that has it is not migrated.  Rows     *)
(* whose tenant is unknown are counted and left.                           *)
MigrateEnd(p) ==
    /\ pc[p] = "migrate"
    /\ \/ disk.marker /\ UNCHANGED <<disk, past, minted>>
       \/ ~disk.marker /\ ToSeal({"edge", "meta"}) = {} /\ Put([disk EXCEPT !.marker = TRUE], disk)
    /\ pc' = [pc EXCEPT ![p] = "ready"]
    /\ UNCHANGED <<job, lock, socket, files, done, world>>

Exit(p) ==
    /\ pc' = [pc EXCEPT ![p] = "down"]
    /\ job' = [job EXCEPT ![p] = NoTenant]
    /\ lock' = Nobody
    /\ copying' = "idle"

(* shred_tenant: the key goes, its generation stays.  It closes what an    *)
(* older release's shred had missed.                                       *)
Shred(p) ==
    /\ pc[p] = "ready"
    /\ job[p] # NoTenant
    /\ LET t == job[p]
           mine == {s \in Slots : OwnerOf[s] = t /\ disk.rows[s].form # "absent"}
           d == [disk EXCEPT !.keyring[t].key = 0, !.before = @ \cup mine, !.missed = @ \ mine]
       IN  IF disk.keyring[t].gen = 0 THEN UNCHANGED <<disk, past, minted>>
           ELSE disk' = d /\ past' = past \cup {disk} /\ UNCHANGED minted
    /\ Exit(p)
    /\ UNCHANGED <<socket, ckpts, clock, stepped, last, done, world>>

-----------------------------------------------------------------------------
(* The daemon.                                                             *)

Goto(p, from, to) == pc[p] = from /\ pc' = [pc EXCEPT ![p] = to]

(* The lock proves that a socket file is stale.                            *)
RemoveSocket(p) ==
    /\ job[p] = NoTenant
    /\ Goto(p, "ready", "startup")
    /\ socket' = Nobody
    /\ UNCHANGED <<disk, past, minted, job, lock, files, done, world>>

(* One checkpoint is tried before the socket is bound, unless checkpoints  *)
(* are turned off.                                                         *)
StartupDone(p) ==
    /\ copying = "idle"
    /\ Goto(p, "startup", "audit") \/ Goto(p, "checkpoint", "audit")
    /\ UNCHANGED <<disk, past, minted, job, lock, socket, files, done, world>>

(* The audit chain is verified; a chain that is rejected ends the process. *)
OpenAudit(p) ==
    /\ Goto(p, "audit", "bind")
    /\ UNCHANGED <<disk, past, minted, job, lock, socket, files, done, world>>

AuditRejected(p) ==
    /\ pc[p] = "audit"
    /\ Exit(p)
    /\ UNCHANGED <<disk, past, minted, socket, ckpts, clock, stepped, last, done, world>>

(* Binding a path that is taken would end the process.                     *)
Bind(p) ==
    /\ socket = Nobody
    /\ Goto(p, "bind", "serving")
    /\ socket' = p
    /\ UNCHANGED <<disk, past, minted, job, lock, files, done, world>>

(* put_node, put_meta: sealed for the owner in an encrypted store.         *)
Written(d, s, k) ==
    [(IF Encrypted(d) THEN Seal(d, s, OwnerOf[s], k) ELSE [d EXCEPT !.rows[s] = Plain])
        EXCEPT !.before = @ \ {s}, !.missed = @ \ {s}]

WriteRow(p, s) ==
    /\ pc[p] = "serving"
    /\ CfOf[s] # "edge"
    /\ done.writes < world.writes
    /\ done' = [done EXCEPT !.writes = @ + 1]
    /\ Put(Written(disk, s, minted + 1),
           IF Encrypted(disk) THEN EnsureKey(disk, OwnerOf[s], minted + 1) ELSE disk)
    /\ UNCHANGED <<daemon, files, world>>

(* commit, add_edge: a synced batch.  An encrypted store refuses an edge   *)
(* neither of whose endpoints it has.                                      *)
WriteBatch(p, s) ==
    /\ pc[p] = "serving"
    /\ CfOf[s] = "edge"
    /\ Encrypted(disk) => SealTenant[s] # NoTenant
    /\ done.writes < world.writes
    /\ done' = [done EXCEPT !.writes = @ + 1]
    /\ disk' = Written(disk, s, minted + 1)
    /\ past' = {}
    /\ minted' = IF disk'.keyring # disk.keyring THEN minted + 1 ELSE minted
    /\ UNCHANGED <<daemon, files, world>>

-----------------------------------------------------------------------------
(* rolling_checkpoint, at startup and then on an interval.                 *)

(* The directory is staged under a name that counts as a checkpoint; the   *)
(* copy flushes what was not durable.  A stamp that is taken is an error.  *)
CheckpointBegin(p) ==
    /\ pc[p] \in {"startup", "serving"}
    /\ copying = "idle"
    /\ clock > last \/ stepped
    /\ \A c \in ckpts : c.stamp = clock => ~c.whole
    /\ copying' = "copy"
    /\ ckpts' = {c \in ckpts : c.stamp # clock} \cup {[stamp |-> clock, whole |-> FALSE, snap |-> disk]}
    /\ past' = {}
    /\ pc' = [pc EXCEPT ![p] = IF @ = "startup" THEN "checkpoint" ELSE @]
    /\ UNCHANGED <<disk, minted, job, lock, socket, clock, stepped, last, done, world>>

CheckpointEnd(p) ==
    /\ lock = p /\ copying = "copy"
    /\ copying' = "prune"
    /\ ckpts' = {[c EXCEPT !.whole = c.whole \/ c.stamp = clock] : c \in ckpts}
    /\ last' = clock
    /\ UNCHANGED <<disk, past, minted, daemon, clock, stepped, done, world>>

(* An error is logged, and what was staged stays.                          *)
CheckpointFails(p) ==
    /\ lock = p /\ copying = "copy"
    /\ copying' = "idle"
    /\ UNCHANGED <<disk, past, minted, daemon, ckpts, clock, stepped, last, done, world>>

(* Mutant: the list is cut at the wrong end.                               *)
SurplusNewest == {c \in ckpts : Cardinality({e \in ckpts : e.stamp < c.stamp}) >= Keep}

(* The directories beyond the newest Keep, by name.                        *)
Surplus == {c \in ckpts : Cardinality({e \in ckpts : e.stamp > c.stamp}) >= Keep}

(* remove_dir_all takes a directory apart before it is gone.               *)
Prune(p) ==
    /\ lock = p /\ copying = "prune"
    /\ \/ /\ Surplus = {}
          /\ copying' = "idle"
          /\ UNCHANGED ckpts
       \/ \E c \in Surplus :
             /\ ckpts' = IF c.whole THEN (ckpts \ {c}) \cup {[c EXCEPT !.whole = FALSE]}
                                    ELSE ckpts \ {c}
             /\ UNCHANGED copying
    /\ UNCHANGED <<disk, past, minted, daemon, clock, stepped, last, done, world>>

-----------------------------------------------------------------------------
(* The world outside.                                                      *)

Crashing(p) ==
    /\ lock = p
    /\ done.crashes < world.crashes
    /\ done' = [done EXCEPT !.crashes = @ + 1]
    /\ Exit(p)

(* The process is killed; what it put is still seen.                       *)
Kill(p) ==
    /\ Crashing(p)
    /\ UNCHANGED <<disk, past, minted, socket, ckpts, clock, stepped, last, world>>

(* The machine loses power; any unsynced suffix is lost.                   *)
PowerFails(p) ==
    /\ Crashing(p)
    /\ \E d \in past : disk' = d
    /\ past' = {}
    /\ UNCHANGED <<minted, socket, ckpts, clock, stepped, last, world>>

(* The operator copies a checkpoint over the live store.                   *)
Restore(c) ==
    /\ lock = Nobody
    /\ c.whole
    /\ done.restores < world.restores
    /\ done' = [done EXCEPT !.restores = @ + 1]
    /\ disk' = c.snap
    /\ past' = {}
    /\ UNCHANGED <<minted, daemon, files, world>>

Tick ==
    /\ clock < world.clock
    /\ copying = "idle"
    /\ clock' = clock + 1
    /\ UNCHANGED <<disk, past, minted, daemon, ckpts, copying, stepped, last, done, world>>

(* The wall clock is set back.                                             *)
StepBack ==
    /\ clock > 1 /\ ~stepped
    /\ copying = "idle"
    /\ clock' = clock - 1
    /\ stepped' = TRUE
    /\ UNCHANGED <<disk, past, minted, daemon, ckpts, copying, last, done, world>>

-----------------------------------------------------------------------------
Step(p) ==
    \/ \E s \in Slots : MigrateRow(p, s)
    \/ MigrateEnd(p) \/ Shred(p)
    \/ RemoveSocket(p) \/ StartupDone(p) \/ OpenAudit(p) \/ AuditRejected(p) \/ Bind(p)
    \/ CheckpointEnd(p) \/ CheckpointFails(p) \/ Prune(p)

Next ==
    \/ \E p \in Procs, t \in world.shreds \cup {NoTenant} : OpenStore(p, t)
    \/ \E p \in Procs : Step(p) \/ CheckpointBegin(p) \/ Kill(p) \/ PowerFails(p)
    \/ \E p \in Procs, s \in Slots : WriteRow(p, s) \/ WriteBatch(p, s)
    \/ \E c \in ckpts : Restore(c)
    \/ Tick
    \/ StepBack

(* A process that has started goes on until it serves or exits.            *)
SealedSpec == SealedInit /\ [][Next]_vars /\ \A p \in Procs : WF_vars(Step(p))

-----------------------------------------------------------------------------
(* Properties.                                                             *)

(* A row whose generation is the live one was sealed by the live key, so   *)
(* that reading it never fails as tampering, whatever shreds, power        *)
(* failures and restored checkpoints came between.                         *)
KeysAgree ==
    \A s \in Slots :
        Opens(disk, s) => disk.keyring[disk.rows[s].tenant].key = disk.rows[s].key

(* No crash of the migration or of a write loses a row: what is there is   *)
(* readable unless its owner was shredded after it was written.            *)
NothingLost ==
    \A s \in Slots \ disk.before :
        disk.rows[s].form # "absent" => Readable(disk, s)

(* Of the rows older than their owner's shred, only these can be read:     *)
(* rows the migration had sealed under a name that is not their owner's or *)
(* could not attribute at all; nodes from before encryption, which it      *)
(* leaves; and rows an older release's shred missed, which it seals under  *)
(* a fresh key - until the tenant is shredded by this release.             *)
Forgotten ==
    \A s \in disk.before : Readable(disk, s) =>
        \/ SealTenant[s] # OwnerOf[s]
        \/ CfOf[s] = "node" /\ disk.rows[s].form = "plain"
        \/ s \in disk.missed

(* The marker never hides work: with it, the only plaintext rows of an     *)
(* encrypted store are nodes and rows of an unknown tenant.                *)
MarkerHonest ==
    disk.marker =>
        \A s \in Slots : disk.rows[s].form = "plain" /\ CfOf[s] # "node" => SealTenant[s] = NoTenant

(* The last checkpoint that succeeded can be restored, whatever dies while *)
(* it is pruned around, as long as the clock is not set back.              *)
Restorable == last # 0 /\ ~stepped => \E c \in ckpts : c.stamp = last /\ c.whole

(* The socket leads to the process that has the store open.                *)
SocketLive == \A p \in Procs : pc[p] = "serving" => lock = p /\ socket = p

(* A process that opens the store serves or exits.                         *)
StartEnds == \A p \in Procs : (lock = p) ~> (pc[p] \in {"serving", "down"})

(* What holds of the disk and its processes at any moment: types, rows     *)
(* that agree with the keyring, a marker that hides no work and a socket   *)
(* that leads to the process with the lock.                                *)
SealedInv == SealedTypeOK /\ KeysAgree /\ MarkerHonest /\ SocketLive
=============================================================================
