-------------------------- MODULE SealedStoreProofs --------------------------
(* Theorems about SealedStore, for every set of rows, tenants, processes   *)
(* and found stores, and every bound.                                      *)
EXTENDS SealedStore, FiniteSetTheorems, TLAPS

-----------------------------------------------------------------------------
(* Facts about the operators.                                              *)

(* Owners and attributed tenants have keyring rows, and NoTenant has none. *)
LEMMA NamesFacts ==
    /\ NoTenant \notin Names
    /\ Tenants \subseteq Names
    /\ \A s \in Slots : OwnerOf[s] \in Tenants
    /\ \A s \in Slots : SealTenant[s] # NoTenant => SealTenant[s] \in Names
    /\ Cardinality(Names) \in Nat
  BY SealedStoreAssumption, FoundAssumption, FS_CardinalityType DEF Names, Tenants

(* A disk is determined by its fields.                                     *)
LEMMA DiskFields ==
    ASSUME NEW d \in Disk
    PROVE  /\ d.rows \in [Slots -> Row]
           /\ d.keyring \in [Names -> [gen : Nat, key : Nat]]
           /\ d.marker \in BOOLEAN
           /\ d.before \subseteq Slots /\ d.missed \subseteq Slots
           /\ \A t \in Names : d.keyring[t].gen \in Nat /\ d.keyring[t].key \in Nat
           /\ \A s \in Slots : /\ d.rows[s] \in Row
                               /\ d.rows[s].gen \in Nat /\ d.rows[s].key \in Nat
                               /\ d.rows[s].form \in {"absent", "plain", "sealed"}
  BY DEF Disk, Row

(* Keys generated later do not disturb a disk that was sound.              *)
LEMMA SoundMonotone ==
    ASSUME NEW d \in Disk, NEW n \in Nat, NEW m \in Nat, n <= m, Sound(d, n)
    PROVE  Sound(d, m)
  BY DiskFields DEF Sound, RowSound

(* ensure_tenant_key changes the keyring row of its tenant only, and only  *)
(* when there is no live key.                                              *)
LEMMA EnsureKeyFields ==
    ASSUME NEW d \in Disk, NEW t \in Names, NEW k \in Nat \ {0}
    PROVE  LET e == EnsureKey(d, t, k)
           IN  /\ e \in Disk
               /\ e.rows = d.rows /\ e.marker = d.marker /\ e.before = d.before /\ e.missed = d.missed
               /\ \A u \in Names \ {t} : e.keyring[u] = d.keyring[u]
               /\ d.keyring[t].key # 0 => e = d
               /\ d.keyring[t].key = 0 =>
                     /\ e.keyring[t].gen = d.keyring[t].gen + 1
                     /\ e.keyring[t].key = k
                     /\ e.keyring # d.keyring
               /\ e.keyring[t].key # 0
               /\ Encrypted(d) => Encrypted(e)
  <1> DEFINE e == EnsureKey(d, t, k)
  <1> USE DiskFields
  <1>1. CASE d.keyring[t].key # 0
    BY <1>1 DEF EnsureKey
  <1>2. CASE d.keyring[t].key = 0
    <2>1. e = [d EXCEPT !.keyring = [d.keyring EXCEPT ![t] = [gen |-> d.keyring[t].gen + 1, key |-> k]]]
      BY <1>2 DEF EnsureKey
    <2>2. e.keyring = [d.keyring EXCEPT ![t] = [gen |-> d.keyring[t].gen + 1, key |-> k]]
      BY <2>1 DEF Disk
    <2>3. e.rows = d.rows /\ e.marker = d.marker /\ e.before = d.before /\ e.missed = d.missed
      BY <2>1 DEF Disk
    <2>7. e \in Disk
      <3>1. [d.keyring EXCEPT ![t] = [gen |-> d.keyring[t].gen + 1, key |-> k]]
              \in [Names -> [gen : Nat, key : Nat]]
        OBVIOUS
      <3>. QED
        BY <2>1, <3>1 DEF Disk
    <2>4. /\ \A u \in Names \ {t} : e.keyring[u] = d.keyring[u]
          /\ e.keyring[t].gen = d.keyring[t].gen + 1
          /\ e.keyring[t].key = k
      BY <2>2
    <2>5. e.keyring # d.keyring
      BY <2>4
    <2>6. Encrypted(d) => Encrypted(e)
      BY <2>4 DEF Encrypted
    <2>. QED
      BY <1>2, <2>3, <2>4, <2>5, <2>6, <2>7
  <1>. QED
    BY <1>1, <1>2

(* The keyring row that ensure_tenant_key puts leaves the disk sound: the  *)
(* rows of a tenant without a live key were shredded, and the new          *)
(* generation is above theirs.                                             *)
LEMMA EnsureKeySound ==
    ASSUME NEW d \in Disk, NEW n \in Nat, NEW t \in Names, Sound(d, n), Encrypted(d),
           NEW m \in Nat,
           m = IF EnsureKey(d, t, n + 1).keyring # d.keyring THEN n + 1 ELSE n
    PROVE  Sound(EnsureKey(d, t, n + 1), m)
  <1> DEFINE e == EnsureKey(d, t, n + 1)
  <1> USE DiskFields
  <1>0. n + 1 \in Nat \ {0}
    OBVIOUS
  <1>1. CASE d.keyring[t].key # 0
    BY <1>0, <1>1, EnsureKeyFields
  <1>2. CASE d.keyring[t].key = 0
    <2>1. /\ e \in Disk
          /\ e.rows = d.rows /\ e.marker = d.marker /\ e.before = d.before /\ e.missed = d.missed
          /\ \A u \in Names \ {t} : e.keyring[u] = d.keyring[u]
          /\ e.keyring[t].gen = d.keyring[t].gen + 1
          /\ e.keyring[t].key = n + 1
          /\ Encrypted(e)
          /\ m = n + 1
      <3> HIDE DEF e
      <3>1. /\ e \in Disk
            /\ e.rows = d.rows /\ e.marker = d.marker /\ e.before = d.before /\ e.missed = d.missed
            /\ \A u \in Names \ {t} : e.keyring[u] = d.keyring[u]
            /\ d.keyring[t].key = 0 =>
                  /\ e.keyring[t].gen = d.keyring[t].gen + 1
                  /\ e.keyring[t].key = n + 1
                  /\ e.keyring # d.keyring
            /\ Encrypted(d) => Encrypted(e)
        BY <1>0, EnsureKeyFields DEF e
      <3>2. m = n + 1
        BY <1>2, <3>1 DEF e
      <3>. QED
        BY <1>2, <3>1, <3>2
    <2> HIDE DEF e
    <2>2. \A u \in Names : e.keyring[u].key <= m
      BY <2>1 DEF Sound
    <2>3. ASSUME NEW s \in Slots PROVE RowSound(e, s, m)
      <3>1. RowSound(d, s, n)
        BY DEF Sound
      <3>2. d.rows[s].form = "sealed" => d.rows[s].tenant \in Names
        BY <3>1, NamesFacts DEF RowSound
      <3>3. CASE d.rows[s].form = "sealed" /\ d.rows[s].tenant = t
        BY <1>2, <2>1, <3>1, <3>3 DEF RowSound
      <3>4. CASE d.rows[s].form # "sealed" \/ d.rows[s].tenant # t
        BY <2>1, <3>1, <3>2, <3>4 DEF RowSound
      <3>. QED
        BY <3>3, <3>4
    <2>. QED
      BY <2>1, <2>2, <2>3 DEF Sound, e
  <1>. QED
    BY <1>1, <1>2

(* seal: the row is stored under the key just ensured, and the rest of the *)
(* disk is as ensure_tenant_key left it.                                   *)
LEMMA SealFields ==
    ASSUME NEW d \in Disk, NEW s \in Slots, NEW t \in Names, NEW k \in Nat \ {0}
    PROVE  LET e == EnsureKey(d, t, k)
               f == Seal(d, s, t, k)
           IN  /\ f \in Disk
               /\ f.keyring = e.keyring /\ f.marker = d.marker /\ f.before = d.before /\ f.missed = d.missed
               /\ \A u \in Slots \ {s} : f.rows[u] = d.rows[u]
               /\ f.rows[s] = [form |-> "sealed", tenant |-> t, gen |-> e.keyring[t].gen,
                               key |-> e.keyring[t].key]
  <1> DEFINE e == EnsureKey(d, t, k)
             f == Seal(d, s, t, k)
             row == [form |-> "sealed", tenant |-> t, gen |-> e.keyring[t].gen, key |-> e.keyring[t].key]
  <1>1. /\ e \in Disk /\ e.rows = d.rows /\ e.marker = d.marker /\ e.before = d.before /\ e.missed = d.missed
    BY EnsureKeyFields
  <1>2. f = [e EXCEPT !.rows = [e.rows EXCEPT ![s] = row]]
    BY DEF Seal, SealedRow
  <1> HIDE DEF e
  <1>3. row \in Row
    BY <1>1, DiskFields DEF Row
  <1> HIDE DEF row
  <1>4. [e.rows EXCEPT ![s] = row] \in [Slots -> Row]
    BY <1>1, <1>3, DiskFields
  <1>5. f \in Disk
    BY <1>1, <1>2, <1>4 DEF Disk
  <1>6. f.keyring = e.keyring /\ f.marker = d.marker /\ f.before = d.before /\ f.missed = d.missed
        /\ f.rows = [e.rows EXCEPT ![s] = row]
    BY <1>1, <1>2 DEF Disk
  <1>. QED
    BY <1>1, <1>4, <1>5, <1>6, DiskFields DEF e, row

(* Disk g is disk e with the row s sealed under the live key of t.         *)
SealsRow(e, g, s, t) ==
    /\ g.keyring = e.keyring /\ g.marker = e.marker
    /\ \A u \in Slots \ {s} : g.rows[u] = e.rows[u]
    /\ g.rows[s] = [form |-> "sealed", tenant |-> t, gen |-> e.keyring[t].gen,
                    key |-> e.keyring[t].key]
    /\ e.keyring[t].key # 0

(* A row sealed under the live key of its owner, or of the tenant the      *)
(* migration takes it for, leaves a sound disk sound.                      *)
LEMMA SealedRowSound ==
    ASSUME NEW e \in Disk, NEW g \in Disk, NEW m \in Nat, NEW s \in Slots, NEW t \in Names,
           Sound(e, m), SealsRow(e, g, s, t),
           t \in {OwnerOf[s], SealTenant[s]},
           \/ /\ g.before = e.before /\ g.missed = e.missed
              /\ s \in e.before \ e.missed => t # OwnerOf[s]
           \/ g.before = e.before \ {s} /\ g.missed = e.missed \ {s}
    PROVE  Sound(g, m)
  <1> USE DiskFields, NamesFacts DEF SealsRow
  <1>1. Encrypted(g) <=> Encrypted(e)
    BY DEF Encrypted
  <1>2. RowSound(g, s, m)
    BY DEF RowSound, Sound
  <1>3. ASSUME NEW u \in Slots \ {s} PROVE RowSound(g, u, m)
    <2>1. RowSound(e, u, m)
      BY DEF Sound
    <2>2. u \in g.before \ g.missed <=> u \in e.before \ e.missed
      OBVIOUS
    <2>. QED
      BY <1>1, <2>1, <2>2 DEF RowSound
  <1>. QED
    BY <1>1, <1>2, <1>3 DEF Sound

(* Disk g is disk d with the row s in plaintext.                           *)
PlainRow(d, g, s) ==
    /\ g.keyring = d.keyring /\ g.marker = d.marker
    /\ \A u \in Slots \ {s} : g.rows[u] = d.rows[u]
    /\ g.rows[s] = Plain

(* put_node, put_meta, commit: the disk a write leaves.                    *)
LEMMA WrittenFields ==
    ASSUME NEW d \in Disk, NEW s \in Slots, NEW k \in Nat \ {0}
    PROVE  /\ Written(d, s, k) \in Disk
           /\ Written(d, s, k).before = d.before \ {s}
           /\ Written(d, s, k).missed = d.missed \ {s}
           /\ Encrypted(d) => SealsRow(EnsureKey(d, OwnerOf[s], k), Written(d, s, k), s, OwnerOf[s])
           /\ ~Encrypted(d) => PlainRow(d, Written(d, s, k), s)
  <1> DEFINE t == OwnerOf[s]
             e == EnsureKey(d, t, k)
             f == IF Encrypted(d) THEN Seal(d, s, t, k) ELSE [d EXCEPT !.rows[s] = Plain]
             g == Written(d, s, k)
  <1> USE DiskFields
  <1>1. t \in Names
    BY NamesFacts
  <1>2. g = [f EXCEPT !.before = f.before \ {s}, !.missed = f.missed \ {s}]
    BY DEF Written
  <1>3. /\ f \in Disk
        /\ f.marker = d.marker /\ f.before = d.before /\ f.missed = d.missed
        /\ \A u \in Slots \ {s} : f.rows[u] = d.rows[u]
        /\ Encrypted(d) =>
              /\ f.keyring = e.keyring
              /\ f.rows[s] = [form |-> "sealed", tenant |-> t, gen |-> e.keyring[t].gen,
                              key |-> e.keyring[t].key]
        /\ ~Encrypted(d) => f.keyring = d.keyring /\ f.rows[s] = Plain
    <2>1. CASE Encrypted(d)
      BY <1>1, <2>1, SealFields
    <2>2. CASE ~Encrypted(d)
      <3>1. Plain \in Row
        BY DEF Plain, Row
      <3>2. [d.rows EXCEPT ![s] = Plain] \in [Slots -> Row]
        BY <3>1
      <3>3. f = [d EXCEPT !.rows = [d.rows EXCEPT ![s] = Plain]]
        BY <2>2
      <3>4. f \in Disk
        BY <3>2, <3>3 DEF Disk
      <3>5. /\ f.marker = d.marker /\ f.before = d.before /\ f.missed = d.missed /\ f.keyring = d.keyring
            /\ f.rows = [d.rows EXCEPT ![s] = Plain]
        BY <3>3 DEF Disk
      <3>. QED
        BY <2>2, <3>2, <3>4, <3>5
    <2>. QED
      BY <2>1, <2>2
  <1> HIDE DEF f, e
  <1>4. /\ g \in Disk
        /\ g.marker = f.marker /\ g.keyring = f.keyring /\ g.rows = f.rows
        /\ g.before = f.before \ {s} /\ g.missed = f.missed \ {s}
    BY <1>2, <1>3 DEF Disk
  <1>5. e.rows = d.rows /\ e.marker = d.marker /\ e.keyring[t].key # 0
    BY <1>1, EnsureKeyFields DEF e
  <1>. QED
    BY <1>3, <1>4, <1>5 DEF e, SealsRow, PlainRow

(* A write leaves the disk sound, and so does the keyring row before it.   *)
LEMMA WrittenSound ==
    ASSUME NEW d \in Disk, NEW n \in Nat, NEW s \in Slots, Sound(d, n),
           NEW m \in Nat,
           m = IF Encrypted(d) /\ EnsureKey(d, OwnerOf[s], n + 1).keyring # d.keyring THEN n + 1 ELSE n
    PROVE  Sound(Written(d, s, n + 1), m)
  <1> DEFINE e == EnsureKey(d, OwnerOf[s], n + 1)
             g == Written(d, s, n + 1)
  <1>1. n + 1 \in Nat \ {0} /\ OwnerOf[s] \in Names
    BY NamesFacts
  <1>2. /\ g \in Disk
        /\ g.before = d.before \ {s} /\ g.missed = d.missed \ {s}
        /\ Encrypted(d) => SealsRow(e, g, s, OwnerOf[s])
        /\ ~Encrypted(d) => PlainRow(d, g, s)
    BY <1>1, WrittenFields
  <1> HIDE DEF g
  <1>3. CASE Encrypted(d)
    <2>1. Sound(e, m)
      BY <1>1, <1>3, EnsureKeySound
    <2>2. e \in Disk /\ e.before = d.before /\ e.missed = d.missed
      BY <1>1, EnsureKeyFields
    <2> HIDE DEF e
    <2>3. Sound(g, m)
      BY <1>1, <1>2, <1>3, <2>1, <2>2, SealedRowSound
    <2>. QED
      BY <2>3 DEF g
  <1>4. CASE ~Encrypted(d)
    <2> USE <1>4, DiskFields
    <2>1. PlainRow(d, g, s) /\ m = n
      BY <1>2
    <2>2. ~Encrypted(g) /\ ~g.marker
      BY <2>1 DEF Encrypted, Sound, PlainRow
    <2>3. RowSound(g, s, n)
      BY <1>2, <2>1, <2>2 DEF RowSound, PlainRow, Plain
    <2>4. ASSUME NEW u \in Slots \ {s} PROVE RowSound(g, u, n)
      <3>1. RowSound(d, u, n)
        BY DEF Sound
      <3>2. u \in g.before \ g.missed <=> u \in d.before \ d.missed
        BY <1>2
      <3>. QED
        BY <2>1, <2>2, <3>1, <3>2 DEF RowSound, PlainRow
    <2>5. g.missed \subseteq {u \in g.before : SealTenant[u] = OwnerOf[u]}
      BY <1>2 DEF Sound
    <2>6. \A u \in Names : g.keyring[u].key <= n
      BY <2>1 DEF Sound, PlainRow
    <2>. QED
      BY <2>1, <2>2, <2>3, <2>4, <2>5, <2>6 DEF Sound, g
  <1>. QED
    BY <1>3, <1>4

(* shred_tenant: with its key gone, no row of the tenant opens, the rows   *)
(* an earlier shred missed included.  Its plaintext rows are those the     *)
(* migration left, and no row of another owner was sealed under its name.  *)
Shredded(d, t) ==
    LET mine == {s \in Slots : OwnerOf[s] = t /\ d.rows[s].form # "absent"}
    IN  [d EXCEPT !.keyring[t].key = 0, !.before = @ \cup mine, !.missed = @ \ mine]

(* A shredded disk is a sound disk.                                        *)
LEMMA ShreddedSound ==
    ASSUME NEW d \in Disk, NEW n \in Nat, NEW t \in Tenants, Sound(d, n),
           Encrypted(d), d.marker
    PROVE  Shredded(d, t) \in Disk /\ Sound(Shredded(d, t), n)
  <1> DEFINE g == Shredded(d, t)
             rows == {s \in Slots : OwnerOf[s] = t /\ d.rows[s].form # "absent"}
             ring == [d.keyring EXCEPT ![t] = [d.keyring[t] EXCEPT !.key = 0]]
  <1> USE DiskFields
  <1>0. t \in Names
    BY NamesFacts
  <1>1. g = [d EXCEPT !.keyring = ring, !.before = d.before \cup rows, !.missed = d.missed \ rows]
    BY DEF Shredded
  <1>2. /\ ring \in [Names -> [gen : Nat, key : Nat]]
        /\ ring[t].key = 0
        /\ \A u \in Names : ring[u].gen = d.keyring[u].gen
        /\ \A u \in Names \ {t} : ring[u] = d.keyring[u]
    BY <1>0
  <1> HIDE DEF ring
  <1>3. g \in Disk
    BY <1>1, <1>2 DEF Disk
  <1>4. /\ g.keyring = ring /\ g.rows = d.rows /\ g.marker = d.marker
        /\ g.before = d.before \cup rows /\ g.missed = d.missed \ rows
    BY <1>1 DEF Disk
  <1> HIDE DEF g
  <1>5. Encrypted(g)
    BY <1>2, <1>4 DEF Encrypted
  <1>6. \A u \in Names : g.keyring[u].key <= n
    BY <1>2, <1>4 DEF Sound
  <1>7. ASSUME NEW s \in Slots PROVE RowSound(g, s, n)
    <2>1. RowSound(d, s, n)
      BY DEF Sound
    <2>2. CASE d.rows[s].form = "sealed"
      <3>1. d.rows[s].tenant \in {OwnerOf[s], SealTenant[s]} /\ d.rows[s].tenant \in Names
        BY <2>1, <2>2, NamesFacts DEF RowSound
      <3>2. CASE d.rows[s].tenant = t
        <4>1. OwnerOf[s] = t
          BY <3>1, <3>2, FoundAssumption
        <4>2. s \in g.before \ g.missed
          BY <1>4, <2>2, <4>1
        <4>. QED
          BY <1>2, <1>4, <2>1, <2>2, <3>1, <3>2, <4>2 DEF RowSound
      <3>3. CASE d.rows[s].tenant # t
        <4>1. s \in g.before \ g.missed => s \in d.before \ d.missed \/ OwnerOf[s] = t
          BY <1>4
        <4>2. s \notin g.before \ g.missed => s \notin d.before \ d.missed
          BY <1>4
        <4>. QED
          BY <1>2, <1>4, <2>1, <2>2, <3>1, <3>3, <4>1, <4>2 DEF RowSound
      <3>. QED
        BY <3>2, <3>3
    <2>3. CASE d.rows[s].form = "plain"
      <3>1. CfOf[s] # "node" => SealTenant[s] = NoTenant
        BY <2>1, <2>3 DEF RowSound
      <3>2. OwnerOf[s] # NoTenant
        BY NamesFacts
      <3>. QED
        BY <1>4, <2>3, <3>1, <3>2 DEF RowSound
    <2>. QED
      BY <1>4, <2>2, <2>3 DEF RowSound
  <1>. QED
    BY <1>3, <1>4, <1>5, <1>6, <1>7 DEF Sound, g

-----------------------------------------------------------------------------
(* The inductive invariant.                                                *)

(* The disk, every disk a power failure may bring back and every           *)
(* checkpoint that may be restored is sound.                               *)
DiskInv ==
    /\ disk \in Disk /\ past \subseteq Disk /\ minted \in Nat
    /\ Sound(disk, minted)
    /\ \A d \in past : Sound(d, minted)
    /\ \A c \in ckpts : /\ c \in [stamp : Nat, whole : BOOLEAN, snap : Disk]
                        /\ Sound(c.snap, minted)

(* Only the process with the lock runs; it migrates encrypted stores only  *)
(* and is ready for a shred only after the migration; while it serves the  *)
(* socket is its own.                                                      *)
ProcInv ==
    /\ pc \in [Procs -> {"down", "migrate", "ready", "startup", "checkpoint", "audit", "bind", "serving"}]
    /\ job \in [Procs -> Tenants \cup {NoTenant}]
    /\ lock \in Procs \cup {Nobody}
    /\ socket \in Procs \cup {Nobody}
    /\ \A p \in Procs :
          /\ (pc[p] # "down") <=> (lock = p)
          /\ pc[p] = "migrate" => Encrypted(disk)
          /\ pc[p] = "ready" /\ Encrypted(disk) => disk.marker
          /\ pc[p] = "serving" => socket = p

(* While the clock is not set back no checkpoint is newer than it, the one *)
(* being copied has its stamp, and pruning starts at the newest.           *)
CkptInv ==
    /\ copying \in {"idle", "copy", "prune"}
    /\ clock \in Nat /\ stepped \in BOOLEAN /\ last \in Nat
    /\ ~stepped =>
          /\ last <= clock
          /\ \A c \in ckpts : c.stamp <= clock
          /\ copying = "copy" => \E c \in ckpts : c.stamp = clock
          /\ copying = "prune" => last = clock
          /\ last # 0 => \E c \in ckpts : c.stamp = last /\ c.whole

CountInv ==
    /\ done \in [crashes : Nat, writes : Nat, restores : Nat]
    /\ world \in Worlds

SealedIInv == DiskInv /\ ProcInv /\ CkptInv /\ CountInv

(* The inductive invariant implies the four invariants the run checks.     *)
LEMMA SealedIInvImplies ==
    ASSUME SealedIInv
    PROVE  SealedInv /\ NothingLost /\ Forgotten /\ Restorable
  <1> USE DEF SealedIInv
  <1>1. \A s \in Slots : RowSound(disk, s, minted)
    BY DEF DiskInv, Sound
  <1>2. /\ disk \in Disk
        /\ \A s \in Slots : disk.rows[s].form = "sealed" => disk.rows[s].tenant \in Names
    BY <1>1, NamesFacts DEF DiskInv, RowSound
  <1>3. SealedTypeOK
    BY <1>1 DEF DiskInv, ProcInv, CkptInv, CountInv, SealedTypeOK, RowSound
  <1>4. KeysAgree
    BY <1>1, <1>2 DEF KeysAgree, Opens, RowSound
  <1>5. MarkerHonest
    BY <1>1 DEF MarkerHonest, RowSound
  <1>6. SocketLive
    BY DEF ProcInv, SocketLive
  <1>7. NothingLost
    <2> SUFFICES ASSUME NEW s \in Slots, s \notin disk.before, disk.rows[s].form # "absent"
                 PROVE  Readable(disk, s)
      BY DEF NothingLost
    <2>1. RowSound(disk, s, minted)
      BY <1>1
    <2>2. CASE disk.rows[s].form = "plain"
      BY <2>2 DEF Readable
    <2>3. CASE disk.rows[s].form = "sealed"
      BY <2>1, <2>3, DiskFields DEF Readable, Opens, RowSound, DiskInv
    <2>. QED
      BY <1>2, <2>2, <2>3, DiskFields
  <1>8. Forgotten
    <2> SUFFICES ASSUME NEW s \in disk.before, Readable(disk, s)
                 PROVE  \/ SealTenant[s] # OwnerOf[s]
                        \/ CfOf[s] = "node" /\ disk.rows[s].form = "plain"
                        \/ s \in disk.missed
      BY DEF Forgotten
    <2>1. s \in Slots
      BY <1>2, DiskFields
    <2>2. RowSound(disk, s, minted)
      BY <1>1, <2>1
    <2>. QED
      BY <1>2, <2>1, <2>2, DiskFields DEF RowSound, Readable, Opens
  <1>9. Restorable
    BY DEF CkptInv, Restorable
  <1>. QED
    BY <1>3, <1>4, <1>5, <1>6, <1>7, <1>8, <1>9 DEF SealedInv

(* The store as it is found.                                               *)
LEMMA SealedInitIInv == SealedInit => SealedIInv
  <1> SUFFICES ASSUME SealedInit PROVE SealedIInv
    OBVIOUS
  <1>1. DiskInv
    BY SealedStoreAssumption, FoundAssumption, NamesFacts DEF SealedInit, DiskInv
  <1>2. ProcInv
    BY SealedStoreAssumption DEF SealedInit, ProcInv
  <1>3. CkptInv
    <2>1. copying = "idle" /\ clock = 1 /\ stepped \in BOOLEAN /\ last = 0 /\ ckpts = {}
      BY DEF SealedInit
    <2>. QED
      BY <2>1 DEF CkptInv
  <1>4. CountInv
    BY DEF SealedInit, CountInv
  <1>. QED
    BY <1>1, <1>2, <1>3, <1>4 DEF SealedIInv

(* A put of a sound disk, after a keyring row that leaves one.             *)
LEMMA PutDiskInv ==
    ASSUME DiskInv, NEW d \in Disk, NEW keyed \in Disk, Put(d, keyed),
           Sound(d, minted'), Sound(keyed, minted'), UNCHANGED ckpts
    PROVE  DiskInv'
  <1>1. minted' \in Nat /\ minted <= minted'
    BY DEF DiskInv, Put
  <1>2. \A e \in Disk : Sound(e, minted) => Sound(e, minted')
    BY <1>1, SoundMonotone DEF DiskInv
  <1>3. disk' = d /\ past' = past \cup {disk, keyed}
    BY DEF Put
  <1>4. \A c \in ckpts : c.snap \in Disk
    BY DEF DiskInv
  <1>. QED
    BY <1>1, <1>2, <1>3, <1>4 DEF DiskInv

(* The migration seals a row under the tenant it takes it for.             *)
LEMMA MigrateRowDisk ==
    ASSUME DiskInv, ProcInv, NEW p \in Procs, NEW s \in Slots, MigrateRow(p, s)
    PROVE  DiskInv' /\ Encrypted(disk)'
  <1> DEFINE t == SealTenant[s]
             e == EnsureKey(disk, t, minted + 1)
             g == Seal(disk, s, t, minted + 1)
  <1>1. /\ disk \in Disk /\ minted \in Nat /\ Sound(disk, minted) /\ Encrypted(disk)
        /\ disk.rows[s].form = "plain" /\ t # NoTenant /\ t \in Names
        /\ minted + 1 \in Nat \ {0}
        /\ Put(g, e) /\ UNCHANGED ckpts
    BY NamesFacts DEF DiskInv, ProcInv, MigrateRow, ToSeal, files
  <1>2. /\ e \in Disk /\ e.rows = disk.rows /\ e.marker = disk.marker
        /\ e.before = disk.before /\ e.missed = disk.missed
        /\ e.keyring[t].key # 0 /\ Encrypted(e)
    BY <1>1, EnsureKeyFields
  <1>3. minted' = (IF e.keyring # disk.keyring THEN minted + 1 ELSE minted) /\ minted' \in Nat
    BY <1>1 DEF Put
  <1>4. Sound(e, minted')
    BY <1>1, <1>3, EnsureKeySound
  <1>5. /\ g \in Disk
        /\ g.keyring = e.keyring /\ g.marker = disk.marker /\ g.before = disk.before /\ g.missed = disk.missed
        /\ \A u \in Slots \ {s} : g.rows[u] = disk.rows[u]
        /\ g.rows[s] = [form |-> "sealed", tenant |-> t, gen |-> e.keyring[t].gen,
                        key |-> e.keyring[t].key]
    BY <1>1, SealFields
  <1> HIDE DEF e, g
  <1>6. SealsRow(e, g, s, t)
    BY <1>2, <1>5 DEF SealsRow
  <1>7. s \in e.before \ e.missed => t # OwnerOf[s]
    <2>1. CfOf[s] # "node"
      BY DEF MigrateRow, ToSeal
    <2>. QED
      BY <1>1, <1>2, <2>1 DEF Sound, RowSound
  <1>8. Sound(g, minted')
    BY <1>1, <1>2, <1>3, <1>4, <1>5, <1>6, <1>7, SealedRowSound
  <1>9. DiskInv'
    BY <1>1, <1>2, <1>4, <1>5, <1>8, PutDiskInv
  <1>10. Encrypted(g)
    BY <1>2, <1>5 DEF Encrypted
  <1>. QED
    BY <1>1, <1>9, <1>10 DEF Put

(* The marker is set when no row is left that the migration can seal.      *)
LEMMA MigrateEndDisk ==
    ASSUME DiskInv, ProcInv, NEW p \in Procs, MigrateEnd(p)
    PROVE  DiskInv' /\ Encrypted(disk)' /\ disk'.marker
  <1> DEFINE g == [disk EXCEPT !.marker = TRUE]
  <1>1. disk \in Disk /\ minted \in Nat /\ Sound(disk, minted) /\ Encrypted(disk) /\ UNCHANGED ckpts
    BY DEF DiskInv, ProcInv, MigrateEnd, files
  <1>2. CASE disk.marker /\ UNCHANGED <<disk, past, minted>>
    BY <1>1, <1>2 DEF DiskInv
  <1>3. CASE ToSeal({"edge", "meta"}) = {} /\ Put(g, disk)
    <2>1. /\ g \in Disk /\ g.marker /\ g.rows = disk.rows /\ g.keyring = disk.keyring
          /\ g.before = disk.before /\ g.missed = disk.missed
      BY <1>1 DEF Disk
    <2> HIDE DEF g
    <2>2. Encrypted(g)
      BY <1>1, <2>1 DEF Encrypted
    <2>3. minted' = minted
      BY <1>1, <1>3 DEF Put
    <2>4. ASSUME NEW s \in Slots PROVE RowSound(g, s, minted)
      <3>1. RowSound(disk, s, minted)
        BY <1>1 DEF Sound
      <3>2. disk.rows[s].form = "plain" /\ CfOf[s] # "node" => SealTenant[s] = NoTenant
        BY <1>3, SealedStoreAssumption DEF ToSeal
      <3>. QED
        BY <1>1, <2>1, <2>2, <3>1, <3>2 DEF RowSound
    <2>5. Sound(g, minted)
      BY <1>1, <2>1, <2>2, <2>4 DEF Sound
    <2>6. DiskInv'
      BY <1>1, <1>3, <2>1, <2>3, <2>5, PutDiskInv
    <2>. QED
      BY <1>3, <2>1, <2>2, <2>6 DEF Put
  <1>. QED
    BY <1>2, <1>3 DEF MigrateEnd

(* A shred finds the migration done.                                       *)
LEMMA ShredDisk ==
    ASSUME DiskInv, ProcInv, NEW p \in Procs, Shred(p)
    PROVE  DiskInv'
  <1> DEFINE t == job[p]
  <1>1. disk \in Disk /\ minted \in Nat /\ Sound(disk, minted) /\ t \in Tenants /\ UNCHANGED ckpts
        /\ (Encrypted(disk) => disk.marker)
    BY DEF DiskInv, ProcInv, Shred
  <1>2. CASE disk.keyring[t].gen = 0
    BY <1>1, <1>2 DEF Shred, DiskInv
  <1>3. CASE disk.keyring[t].gen # 0
    <2>1. disk' = Shredded(disk, t) /\ past' = past \cup {disk} /\ UNCHANGED minted
      BY <1>3 DEF Shred, Shredded
    <2>2. Encrypted(disk)
      BY <1>1, <1>3, NamesFacts, DiskFields DEF Encrypted
    <2>3. Shredded(disk, t) \in Disk /\ Sound(Shredded(disk, t), minted)
      BY <1>1, <2>2, ShreddedSound
    <2>. QED
      BY <1>1, <2>1, <2>3 DEF DiskInv
  <1>. QED
    BY <1>2, <1>3

(* The keyring of a written disk is the one its put of a key left.         *)
LEMMA WriteRowDisk ==
    ASSUME DiskInv, NEW p \in Procs, NEW s \in Slots, WriteRow(p, s)
    PROVE  DiskInv'
  <1> DEFINE e == EnsureKey(disk, OwnerOf[s], minted + 1)
             keyed == IF Encrypted(disk) THEN e ELSE disk
             g == Written(disk, s, minted + 1)
  <1>1. /\ disk \in Disk /\ minted \in Nat /\ Sound(disk, minted) /\ OwnerOf[s] \in Names
        /\ minted + 1 \in Nat \ {0}
        /\ Put(g, keyed) /\ UNCHANGED ckpts
    BY NamesFacts DEF DiskInv, WriteRow, files
  <1>2. minted' = (IF keyed.keyring # disk.keyring THEN minted + 1 ELSE minted) /\ minted' \in Nat
    BY <1>1 DEF Put
  <1>3. keyed \in Disk /\ Sound(keyed, minted')
    <2>1. CASE Encrypted(disk)
      BY <1>1, <1>2, <2>1, EnsureKeyFields, EnsureKeySound
    <2>2. CASE ~Encrypted(disk)
      BY <1>1, <1>2, <2>2
    <2>. QED
      BY <2>1, <2>2
  <1>4. g \in Disk
    BY <1>1, WrittenFields
  <1>5. minted' = IF Encrypted(disk) /\ e.keyring # disk.keyring THEN minted + 1 ELSE minted
    BY <1>2
  <1>6. Sound(g, minted')
    BY <1>1, <1>2, <1>5, WrittenSound
  <1> HIDE DEF g, keyed
  <1>. QED
    BY <1>1, <1>3, <1>4, <1>6, PutDiskInv

(* A batch is the same write, synced.                                      *)
LEMMA WriteBatchDisk ==
    ASSUME DiskInv, NEW p \in Procs, NEW s \in Slots, WriteBatch(p, s)
    PROVE  DiskInv'
  <1> DEFINE e == EnsureKey(disk, OwnerOf[s], minted + 1)
             g == Written(disk, s, minted + 1)
  <1>1. /\ disk \in Disk /\ minted \in Nat /\ Sound(disk, minted) /\ OwnerOf[s] \in Names
        /\ minted + 1 \in Nat \ {0}
        /\ disk' = g /\ past' = {} /\ UNCHANGED ckpts
        /\ minted' = IF g.keyring # disk.keyring THEN minted + 1 ELSE minted
    BY NamesFacts DEF DiskInv, WriteBatch, files
  <1>2. g \in Disk
        /\ (Encrypted(disk) => SealsRow(e, g, s, OwnerOf[s]))
        /\ (~Encrypted(disk) => PlainRow(disk, g, s))
    BY <1>1, WrittenFields
  <1>3. g.keyring = IF Encrypted(disk) THEN e.keyring ELSE disk.keyring
    BY <1>2 DEF SealsRow, PlainRow
  <1>4. /\ minted' = IF Encrypted(disk) /\ e.keyring # disk.keyring THEN minted + 1 ELSE minted
        /\ minted' \in Nat /\ minted <= minted'
    BY <1>1, <1>3
  <1>5. Sound(g, minted')
    BY <1>1, <1>4, WrittenSound
  <1>6. \A c \in ckpts : c.snap \in Disk /\ Sound(c.snap, minted')
    BY <1>1, <1>4, SoundMonotone DEF DiskInv
  <1> HIDE DEF g
  <1>. QED
    BY <1>1, <1>2, <1>4, <1>5, <1>6 DEF DiskInv

(* Checkpoints: a new one is the disk of that moment, and what happens to  *)
(* it later never touches its copy.                                        *)
LEMMA CheckpointDisk ==
    ASSUME DiskInv, CkptInv, NEW p \in Procs,
           CheckpointBegin(p) \/ CheckpointEnd(p) \/ CheckpointFails(p) \/ Prune(p)
    PROVE  DiskInv'
  <1> USE DEF DiskInv
  <1>1. CASE CheckpointBegin(p)
    <2> DEFINE new == [stamp |-> clock, whole |-> FALSE, snap |-> disk]
    <2>1. new \in [stamp : Nat, whole : BOOLEAN, snap : Disk] /\ new.snap = disk
      BY DEF CkptInv
    <2>2. /\ ckpts' = {c \in ckpts : c.stamp # clock} \cup {new}
          /\ UNCHANGED <<disk, minted>> /\ past' = {}
      BY <1>1 DEF CheckpointBegin
    <2> HIDE DEF new
    <2>. QED
      BY <2>1, <2>2
  <1>2. CASE CheckpointEnd(p)
    <2>1. ASSUME NEW c \in ckpts
          PROVE  LET e == [c EXCEPT !.whole = c.whole \/ c.stamp = clock]
                 IN  /\ e \in [stamp : Nat, whole : BOOLEAN, snap : Disk]
                     /\ e.snap = c.snap
      OBVIOUS
    <2>2. ckpts' = {[c EXCEPT !.whole = c.whole \/ c.stamp = clock] : c \in ckpts}
          /\ UNCHANGED <<disk, past, minted>>
      BY <1>2 DEF CheckpointEnd
    <2>3. \A e \in ckpts' : /\ e \in [stamp : Nat, whole : BOOLEAN, snap : Disk]
                            /\ \E c \in ckpts : e.snap = c.snap
      BY <2>1, <2>2, Zenon
    <2>. QED
      BY <2>2, <2>3
  <1>3. CASE CheckpointFails(p)
    BY <1>3 DEF CheckpointFails
  <1>4. CASE Prune(p)
    <2>1. UNCHANGED <<disk, past, minted>>
      BY <1>4 DEF Prune
    <2>2. CASE UNCHANGED ckpts
      BY <2>1, <2>2
    <2>3. ASSUME NEW c \in ckpts,
                 ckpts' = IF c.whole THEN (ckpts \ {c}) \cup {[c EXCEPT !.whole = FALSE]}
                                     ELSE ckpts \ {c}
          PROVE  DiskInv'
      <3>1. /\ [c EXCEPT !.whole = FALSE] \in [stamp : Nat, whole : BOOLEAN, snap : Disk]
            /\ [c EXCEPT !.whole = FALSE].snap = c.snap
        OBVIOUS
      <3>. QED
        BY <2>1, <2>3, <3>1
    <2>. QED
      BY <1>4, <2>2, <2>3 DEF Prune, Surplus
  <1>. QED
    BY <1>1, <1>2, <1>3, <1>4

(* The last checkpoint that succeeded is the newest there is, so it is     *)
(* never among the surplus; a new one takes its place only when it is      *)
(* whole.                                                                  *)
LEMMA CheckpointKept ==
    ASSUME DiskInv, CkptInv, NEW p \in Procs,
           CheckpointBegin(p) \/ CheckpointEnd(p) \/ CheckpointFails(p) \/ Prune(p)
    PROVE  CkptInv'
  <1> USE DEF CkptInv
  <1>0. \A c \in ckpts : c \in [stamp : Nat, whole : BOOLEAN, snap : Disk]
    BY DEF DiskInv
  <1>1. CASE CheckpointBegin(p)
    <2>1. /\ copying' = "copy" /\ UNCHANGED <<clock, stepped, last>>
          /\ clock > last \/ stepped
          /\ ckpts' = {c \in ckpts : c.stamp # clock} \cup {[stamp |-> clock, whole |-> FALSE, snap |-> disk]}
      BY <1>1 DEF CheckpointBegin
    <2>2. ASSUME ~stepped
          PROVE  /\ \A c \in ckpts' : c.stamp <= clock
                 /\ \E c \in ckpts' : c.stamp = clock
                 /\ last # 0 => \E c \in ckpts' : c.stamp = last /\ c.whole
      <3> DEFINE new == [stamp |-> clock, whole |-> FALSE, snap |-> disk]
      <3>1. last < clock /\ last <= clock
        BY <2>1, <2>2
      <3>2. new.stamp = clock /\ clock <= clock
        OBVIOUS
      <3> HIDE DEF new
      <3>3. ckpts' = {c \in ckpts : c.stamp # clock} \cup {new}
        BY <2>1 DEF new
      <3>4. last # 0 => \E c \in ckpts' : c.stamp = last /\ c.whole
        BY <2>2, <3>1, <3>3
      <3>. QED
        BY <2>2, <3>2, <3>3, <3>4
    <2>. QED
      BY <2>1, <2>2
  <1>2. CASE CheckpointEnd(p)
    <2>1. /\ copying = "copy" /\ copying' = "prune" /\ UNCHANGED <<clock, stepped>> /\ last' = clock
          /\ ckpts' = {[c EXCEPT !.whole = c.whole \/ c.stamp = clock] : c \in ckpts}
      BY <1>2 DEF CheckpointEnd
    <2>2. \A c \in ckpts : LET e == [c EXCEPT !.whole = c.whole \/ c.stamp = clock]
                          IN  e.stamp = c.stamp /\ (c.stamp = clock => e.whole)
      BY <1>0
    <2>3. ASSUME ~stepped
          PROVE  /\ \A c \in ckpts' : c.stamp <= clock
                 /\ \E c \in ckpts' : c.stamp = clock /\ c.whole
      <3>1. PICK c \in ckpts : c.stamp = clock
        BY <2>1, <2>3
      <3>2. [c EXCEPT !.whole = c.whole \/ c.stamp = clock] \in ckpts'
        BY <2>1
      <3>3. ASSUME NEW e \in ckpts' PROVE \E f \in ckpts : e.stamp = f.stamp
        <4>1. PICK f \in ckpts : e = [f EXCEPT !.whole = f.whole \/ f.stamp = clock]
          BY <2>1
        <4>. QED
          BY <1>0, <4>1
      <3>. QED
        BY <2>2, <2>3, <3>1, <3>2, <3>3
    <2>. QED
      BY <2>1, <2>3
  <1>3. CASE CheckpointFails(p)
    BY <1>3 DEF CheckpointFails
  <1>4. CASE Prune(p)
    <2>1. copying = "prune" /\ UNCHANGED <<clock, stepped, last>>
      BY <1>4 DEF Prune
    <2>2. CASE copying' = "idle" /\ UNCHANGED ckpts
      BY <2>1, <2>2
    <2>3. ASSUME NEW c \in Surplus, UNCHANGED copying,
                 ckpts' = IF c.whole THEN (ckpts \ {c}) \cup {[c EXCEPT !.whole = FALSE]}
                                     ELSE ckpts \ {c}
          PROVE  CkptInv'
      <3>1. c \in ckpts /\ [c EXCEPT !.whole = FALSE].stamp = c.stamp
        BY <1>0 DEF Surplus
      <3>2. ASSUME ~stepped PROVE c.stamp # last
        <4> SUFFICES ASSUME c.stamp = last PROVE FALSE
          OBVIOUS
        <4>1. {e \in ckpts : e.stamp > c.stamp} = {}
          BY <1>0, <2>1, <3>1, <3>2
        <4>2. Cardinality({e \in ckpts : e.stamp > c.stamp}) = 0
          BY <4>1, FS_EmptySet
        <4>3. Cardinality({e \in ckpts : e.stamp > c.stamp}) >= Keep
          BY DEF Surplus
        <4>. QED
          BY <4>2, <4>3, SealedStoreAssumption
      <3>3. ASSUME ~stepped
            PROVE  /\ \A e \in ckpts' : e.stamp <= clock
                   /\ last # 0 => \E e \in ckpts' : e.stamp = last /\ e.whole
        <4>1. \A e \in ckpts : e.stamp = last => e \in ckpts'
          BY <2>3, <3>2, <3>3
        <4>. QED
          BY <2>3, <3>1, <3>3, <4>1
      <3>. QED
        BY <2>1, <2>3, <3>3
    <2>. QED
      BY <1>4, <2>2, <2>3 DEF Prune
  <1>. QED
    BY <1>1, <1>2, <1>3, <1>4

-----------------------------------------------------------------------------
(* The theorems.                                                           *)

(* Every step of a process, a crash, a restored checkpoint and the clock   *)
(* preserves the inductive invariant.                                      *)
LEMMA SealedStepIInv == SealedIInv /\ [Next]_vars => SealedIInv'
  <1> SUFFICES ASSUME SealedIInv, [Next]_vars PROVE SealedIInv'
    OBVIOUS
  <1> USE DEF SealedIInv
  <1>0. CASE UNCHANGED vars
    BY <1>0 DEF vars, daemon, files, DiskInv, ProcInv, CkptInv, CountInv
  <1>1. ASSUME NEW p \in Procs, NEW t \in world.shreds \cup {NoTenant}, OpenStore(p, t)
        PROVE  SealedIInv'
    <2>1. DiskInv' /\ CkptInv' /\ CountInv'
      BY <1>1 DEF OpenStore, files, DiskInv, CkptInv, CountInv
    <2>2. t \in Tenants \cup {NoTenant}
      BY SealedStoreAssumption DEF CountInv
    <2>3. ProcInv'
      BY <1>1, <2>2, SealedStoreAssumption DEF OpenStore, ProcInv, Encrypted
    <2>. QED
      BY <2>1, <2>3
  <1>2. ASSUME NEW p \in Procs, NEW s \in Slots, MigrateRow(p, s)
        PROVE  SealedIInv'
    <2>1. DiskInv' /\ Encrypted(disk)'
      BY <1>2, MigrateRowDisk
    <2>2. ProcInv'
      BY <1>2, <2>1, SealedStoreAssumption DEF MigrateRow, daemon, ProcInv
    <2>3. CkptInv' /\ CountInv'
      BY <1>2 DEF MigrateRow, files, CkptInv, CountInv
    <2>. QED
      BY <2>1, <2>2, <2>3
  <1>3. ASSUME NEW p \in Procs, MigrateEnd(p)
        PROVE  SealedIInv'
    <2>1. DiskInv' /\ Encrypted(disk)' /\ disk'.marker
      BY <1>3, MigrateEndDisk
    <2>2. ProcInv'
      BY <1>3, <2>1, SealedStoreAssumption DEF MigrateEnd, ProcInv
    <2>3. CkptInv' /\ CountInv'
      BY <1>3 DEF MigrateEnd, files, CkptInv, CountInv
    <2>. QED
      BY <2>1, <2>2, <2>3
  <1>4. ASSUME NEW p \in Procs, Shred(p)
        PROVE  SealedIInv'
    <2>1. DiskInv'
      BY <1>4, ShredDisk
    <2>2. ProcInv'
      BY <1>4, SealedStoreAssumption DEF Shred, Exit, ProcInv
    <2>3. CkptInv' /\ CountInv'
      BY <1>4 DEF Shred, Exit, CkptInv, CountInv
    <2>. QED
      BY <2>1, <2>2, <2>3
  <1>5. ASSUME NEW p \in Procs,
               RemoveSocket(p) \/ StartupDone(p) \/ OpenAudit(p) \/ Bind(p)
        PROVE  SealedIInv'
    <2>1. DiskInv' /\ CkptInv' /\ CountInv'
      BY <1>5 DEF RemoveSocket, StartupDone, OpenAudit, Bind, files, DiskInv, CkptInv, CountInv
    <2>2. ProcInv'
      BY <1>5, SealedStoreAssumption
         DEF RemoveSocket, StartupDone, OpenAudit, Bind, Goto, ProcInv, Encrypted
    <2>. QED
      BY <2>1, <2>2
  <1>6. ASSUME NEW p \in Procs, AuditRejected(p)
        PROVE  SealedIInv'
    <2>1. DiskInv' /\ CkptInv' /\ CountInv'
      BY <1>6 DEF AuditRejected, Exit, DiskInv, CkptInv, CountInv
    <2>2. ProcInv'
      BY <1>6, SealedStoreAssumption DEF AuditRejected, Exit, ProcInv
    <2>. QED
      BY <2>1, <2>2
  <1>7. ASSUME NEW p \in Procs,
               CheckpointBegin(p) \/ CheckpointEnd(p) \/ CheckpointFails(p) \/ Prune(p)
        PROVE  SealedIInv'
    <2>1. DiskInv' /\ CkptInv'
      BY <1>7, CheckpointDisk, CheckpointKept
    <2>2. CountInv'
      BY <1>7 DEF CheckpointBegin, CheckpointEnd, CheckpointFails, Prune, CountInv
    <2>3. ProcInv'
      BY <1>7 DEF CheckpointBegin, CheckpointEnd, CheckpointFails, Prune, daemon, ProcInv, Encrypted
    <2>. QED
      BY <2>1, <2>2, <2>3
  <1>8. ASSUME NEW p \in Procs, Kill(p)
        PROVE  SealedIInv'
    <2>1. DiskInv' /\ CkptInv' /\ CountInv'
      BY <1>8 DEF Kill, Crashing, Exit, DiskInv, CkptInv, CountInv
    <2>2. ProcInv'
      BY <1>8, SealedStoreAssumption DEF Kill, Crashing, Exit, ProcInv
    <2>. QED
      BY <2>1, <2>2
  <1>9. ASSUME NEW p \in Procs, PowerFails(p)
        PROVE  SealedIInv'
    <2>1. DiskInv' /\ CkptInv' /\ CountInv'
      BY <1>9 DEF PowerFails, Crashing, Exit, DiskInv, CkptInv, CountInv
    <2>2. ProcInv'
      BY <1>9, SealedStoreAssumption DEF PowerFails, Crashing, Exit, ProcInv
    <2>. QED
      BY <2>1, <2>2
  <1>10. ASSUME NEW p \in Procs, NEW s \in Slots, WriteRow(p, s) \/ WriteBatch(p, s)
         PROVE  SealedIInv'
    <2>1. DiskInv'
      BY <1>10, WriteRowDisk, WriteBatchDisk
    <2>2. CkptInv' /\ CountInv'
      BY <1>10 DEF WriteRow, WriteBatch, files, CkptInv, CountInv
    <2>3. ProcInv'
      BY <1>10 DEF WriteRow, WriteBatch, daemon, ProcInv
    <2>. QED
      BY <2>1, <2>2, <2>3
  <1>11. ASSUME NEW c \in ckpts, Restore(c)
         PROVE  SealedIInv'
    <2>1. DiskInv'
      BY <1>11 DEF Restore, files, DiskInv
    <2>2. CkptInv' /\ CountInv'
      BY <1>11 DEF Restore, files, CkptInv, CountInv
    <2>3. ProcInv'
      BY <1>11, SealedStoreAssumption DEF Restore, daemon, ProcInv
    <2>. QED
      BY <2>1, <2>2, <2>3
  <1>12. CASE Tick
    BY <1>12 DEF Tick, daemon, DiskInv, ProcInv, CkptInv, CountInv
  <1>13. CASE StepBack
    BY <1>13 DEF StepBack, daemon, DiskInv, ProcInv, CkptInv, CountInv
  <1>. QED
    BY <1>0, <1>1, <1>2, <1>3, <1>4, <1>5, <1>6, <1>7, <1>8, <1>9, <1>10, <1>11, <1>12, <1>13
       DEF Next, Step

(* The inductive invariant holds of every behaviour.                       *)
THEOREM SealedIInvHolds == SealedSpec => []SealedIInv
  BY SealedInitIInv, SealedStepIInv, PTL DEF SealedSpec

(* Sealing is sound across shreds, crashes of the migration, power         *)
(* failures and restored checkpoints: no row of the live generation fails  *)
(* to authenticate, the migration marker hides no plaintext, and the       *)
(* socket leads to the process that has the store open.                    *)
THEOREM SealedInvHolds == SealedSpec => []SealedInv
  BY SealedIInvHolds, SealedIInvImplies, PTL

(* No crash of ensure_tenant_key, a write or migrate_seal_v2 leaves a row  *)
(* behind that its owner cannot read.                                      *)
THEOREM NothingLostHolds == SealedSpec => []NothingLost
  BY SealedIInvHolds, SealedIInvImplies, PTL

(* After shred_tenant no row of the tenant is readable, except those the   *)
(* migration did not attribute to it, its nodes that were never sealed,    *)
(* and what a shred by an older release missed.                            *)
THEOREM ForgottenHolds == SealedSpec => []Forgotten
  BY SealedIInvHolds, SealedIInvImplies, PTL

(* rolling_checkpoint never loses the last checkpoint that succeeded,      *)
(* whatever dies while it stages or prunes, unless the clock is set back.  *)
THEOREM RestorableHolds == SealedSpec => []Restorable
  BY SealedIInvHolds, SealedIInvImplies, PTL
=============================================================================
