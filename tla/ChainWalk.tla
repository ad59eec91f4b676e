------------------------------ MODULE ChainWalk ------------------------------
(***************************************************************************)
(* Chain-state ingest of crates/mem-ingest/chain.rs: the catalog of        *)
(* deployed contracts and the walk over blocks, both projected into the    *)
(* tenant chain-state of the store.                                        *)
(*                                                                         *)
(* A block's hash covers its parent's, so it stands for the chain up to    *)
(* the block: a block is the sequence of labels that leads to it, its      *)
(* parent is the sequence without the last label, its height the length    *)
(* of the parent.  The chain the source shows may change between any two   *)
(* reads.                                                                  *)
(*                                                                         *)
(* Each call makes several store writes - the batch, one write for every   *)
(* supersession, and the cursor or the watermark - and may end between any *)
(* two of them: it is killed, or the source or the store fails.  The       *)
(* network's parameters do not change here, so the network node and the    *)
(* edges from the contracts to it follow from the contract rows.           *)
(***************************************************************************)
EXTENDS Naturals, Sequences, FiniteSets

CONSTANTS
    Labels,     \* what a block has of its own
    Histories,  \* the chains the source may show
    MaxHeight,  \* bound on their length
    Txs,        \* transactions
    Carried,    \* which block carries which transaction
    Parties,    \* the addresses a transaction names
    Watch,      \* the watched addresses
    Roles,      \* (group, name) of catalog entries
    Addrs,      \* addresses
    IdOrder,    \* contract nodes in the order all_nodes returns them
    Unset

Blocks == UNION {{SubSeq(h, 1, n) : n \in 1 .. Len(h)} : h \in Histories}
Height(b) == Len(b) - 1

(* contract_key: the address is part of the identity.                      *)
Contracts == Roles \X Addrs

ASSUME ChainWalkAssumption ==
    /\ Histories \subseteq Seq(Labels)
    /\ MaxHeight \in Nat /\ \A h \in Histories : Len(h) \in 1 .. MaxHeight
    /\ Carried \subseteq Blocks \X Txs
    /\ Parties \in [Txs -> SUBSET Addrs]
    /\ Watch \subseteq Addrs
    /\ IdOrder \in Seq(Contracts) /\ {IdOrder[i] : i \in 1 .. Len(IdOrder)} = Contracts
    /\ Unset \notin Addrs

VARIABLES
    source,       \* the chain the block source shows
    checkpoints,  \* ChainCheckpoint nodes and the Supersedes edges between them
    contracts,    \* ChainContract nodes and the Supersedes edges between them
    events,       \* ChainEvent nodes, by transaction and height
    spine,        \* TemporalNext edges
    emits,        \* Emits edges
    touches,      \* Touches edges
    cursor,       \* EventCursor.next_block; 0 also before the first walk
    stamp,        \* the catalog the tenant's watermark names, or Unset
    call          \* what the running call has read and has still to write

tables == <<checkpoints, contracts, events, spine, emits, touches>>
chainVars == <<source, tables, cursor, stamp, call>>

Status == {"Absent", "Active", "Superseded"}
Table(N) == [status : [N -> Status], sup : SUBSET (N \X N)]
Event == Txs \X (0 .. MaxHeight)
Catalog == [Roles -> Addrs \cup {Unset}]

(* Between calls; a walk before block n; a block whose batch is committed; *)
(* a catalog whose batch is committed.                                     *)
NoCall == [op |-> "idle"]
WalkCall ==
    [op : {"walk"}, n : 0 .. MaxHeight, to : 0 .. MaxHeight, known : SUBSET Blocks,
     live : SUBSET Contracts, prev : Blocks \cup {<<>>}]
BlockCall ==
    [op : {"block"}, n : 0 .. MaxHeight, to : 0 .. MaxHeight, known : SUBSET Blocks,
     live : SUBSET Contracts, block : Blocks, todo : SUBSET Blocks]
CatalogCall == [op : {"catalog"}, cat : Catalog, todo : SUBSET (Contracts \X Contracts)]
Call == {NoCall} \cup WalkCall \cup BlockCall \cup CatalogCall

(* Tables, cursor and the call in progress keep their types: the cursor    *)
(* never leaves the heights of the chain.                                  *)
ChainTypeOK ==
    /\ source \in Histories
    /\ checkpoints \in Table(Blocks)
    /\ contracts \in Table(Contracts)
    /\ events \subseteq Event
    /\ spine \subseteq Blocks \X Blocks
    /\ emits \subseteq Blocks \X Event
    /\ touches \subseteq Event \X Contracts
    /\ cursor \in 0 .. MaxHeight
    /\ stamp \in Catalog \cup {Unset}
    /\ call \in Call

-----------------------------------------------------------------------------
(* The store, as far as ingest uses it.                                    *)

(* put: a row is written as minted, whatever is stored.                    *)
PutActive(t, ns) ==
    [t EXCEPT !.status = [n \in DOMAIN @ |-> IF n \in ns THEN "Active" ELSE @[n]]]

(* would_cycle_supersedes(from, to): from is reachable from to.            *)
Reaches(sup, to, from) ==
    \A S \in SUBSET ((UNION {{e[1], e[2]} : e \in sup}) \cup {to, from}) :
        to \in S /\ (\A e \in sup : e[1] \in S => e[2] \in S) => from \in S

(* Mutant: apply_supersession without its cycle guard.                     *)
ApplySupersessionCyclic(t, from, to) ==
    IF from # to /\ t.status[from] # "Absent" /\ t.status[to] # "Absent"
    THEN [status |-> [t.status EXCEPT ![to] = "Superseded"],
          sup |-> t.sup \cup {<<from, to>>}]
    ELSE t

(* apply_supersession as apply_supersessions calls it: a refusal is        *)
(* counted, never fatal.  An edge into a retired node is still written.    *)
ApplySupersession(t, from, to) ==
    IF /\ from # to
       /\ t.status[from] # "Absent" /\ t.status[to] # "Absent"
       /\ ~Reaches(t.sup, to, from)
    THEN [status |-> [t.status EXCEPT ![to] = "Superseded"],
          sup |-> t.sup \cup {<<from, to>>}]
    ELSE t

(* active_chain_nodes *)
ActiveNodes(t) == {n \in DOMAIN t.status : t.status[n] = "Active"}

-----------------------------------------------------------------------------
ChainInit ==
    /\ source \in Histories
    /\ checkpoints = [status |-> [b \in Blocks |-> "Absent"], sup |-> {}]
    /\ contracts = [status |-> [c \in Contracts |-> "Absent"], sup |-> {}]
    /\ events = {} /\ spine = {} /\ emits = {} /\ touches = {}
    /\ cursor = 0
    /\ stamp = Unset
    /\ call = NoCall

(* External: the chain grows or is re-organised.                           *)
SourceMoves(h) ==
    /\ h # source
    /\ source' = h
    /\ UNCHANGED <<tables, cursor, stamp, call>>

(* The logical key's entry of prior: a map that is filled in the order of  *)
(* all_nodes, so the last active node of the role stays.                   *)
Prior(role) ==
    LET live == {i \in 1 .. Len(IdOrder) :
                   IdOrder[i][1] = role /\ IdOrder[i] \in ActiveNodes(contracts)}
    IN  {IdOrder[i] : i \in {j \in live : \A k \in live : k <= j}}

(* ingest_chain_catalog_str up to its commit: what the catalog replaces is *)
(* looked up first, then all its nodes are put in one batch.               *)
StartCatalog(cat) ==
    LET listed == {c \in Contracts : cat[c[1]] = c[2]}
    IN  /\ call = NoCall
        /\ contracts' = PutActive(contracts, listed)
        /\ call' = [op |-> "catalog", cat |-> cat,
                    todo |-> {p \in listed \X Contracts :
                                p[2] \in Prior(p[1][1]) /\ p[2] # p[1]}]
        /\ UNCHANGED <<source, checkpoints, events, spine, emits, touches, cursor, stamp>>

CatalogSupersede(p) ==
    /\ call.op = "catalog" /\ p \in call.todo
    /\ contracts' = ApplySupersession(contracts, p[1], p[2])
    /\ call' = [call EXCEPT !.todo = @ \ {p}]
    /\ UNCHANGED <<source, checkpoints, events, spine, emits, touches, cursor, stamp>>

(* The watermark is stamped with the catalog's hash.                       *)
CatalogStamp ==
    /\ call.op = "catalog" /\ call.todo = {}
    /\ stamp' = call.cat
    /\ call' = NoCall
    /\ UNCHANGED <<source, tables, cursor>>

(* ingest_chain_events: resume from the cursor, or start where told.  The  *)
(* active contracts and checkpoints are read once, here.                   *)
StartWalk(from, to) ==
    /\ call = NoCall
    /\ call' = [op |-> "walk", n |-> from, to |-> to, known |-> ActiveNodes(checkpoints),
                live |-> ActiveNodes(contracts), prev |-> <<>>]
    /\ UNCHANGED <<source, tables, cursor, stamp>>

BlockAt(n) == SubSeq(source, 1, n + 1)

(* Mutant: only one checkpoint is kept for a height, as for a catalog role.*)
OrphansOne(known, b) ==
    LET others == {o \in known : Height(o) = Height(b)}
    IN  IF others = {} THEN {} ELSE {CHOOSE o \in others : TRUE} \ {b}

(* Active checkpoints of the same height with another hash.                *)
Orphans(known, b) == {o \in known : Height(o) = Height(b) /\ o # b}

(* contract_ids: the last active node with an address stays.               *)
ContractAt(addr) ==
    LET at == {i \in 1 .. Len(IdOrder) : IdOrder[i] \in call.live /\ IdOrder[i][2] = addr}
    IN  {IdOrder[i] : i \in {j \in at : \A k \in at : k <= j}}

Watched(b) == {tx \in Txs : <<b, tx>> \in Carried /\ Parties[tx] \cap Watch # {}}

(* One block is fetched and its batch committed.                           *)
WalkBlock ==
    LET b == BlockAt(call.n)
        evs == Watched(b) \X {Height(b)}
    IN  /\ call.op = "walk"
        /\ call.n <= call.to /\ call.n < Len(source)
        /\ checkpoints' = PutActive(checkpoints, {b})
        /\ events' = events \cup evs
        /\ spine' = IF call.prev # <<>> /\ call.prev = SubSeq(b, 1, Len(b) - 1)
                    THEN spine \cup {<<b, call.prev>>} ELSE spine
        /\ emits' = emits \cup ({b} \X evs)
        /\ touches' = touches \cup
             {t \in evs \X Contracts : \E a \in Parties[t[1][1]] : t[2] \in ContractAt(a)}
        /\ call' = [op |-> "block", n |-> call.n, to |-> call.to, known |-> call.known,
                    live |-> call.live, block |-> b, todo |-> Orphans(call.known, b)]
        /\ UNCHANGED <<source, contracts, cursor, stamp>>

(* Then every orphan is superseded ...                                     *)
WalkSupersede(o) ==
    /\ call.op = "block" /\ o \in call.todo
    /\ checkpoints' = ApplySupersession(checkpoints, call.block, o)
    /\ call' = [call EXCEPT !.todo = @ \ {o}]
    /\ UNCHANGED <<source, contracts, events, spine, emits, touches, cursor, stamp>>

(* Mutant: the next block is counted twice.                                *)
WalkCursorTwice ==
    /\ call.op = "block" /\ call.todo = {}
    /\ cursor' = Height(call.block) + 2
    /\ call' = [op |-> "walk", n |-> call.n + 1, to |-> call.to,
                known |-> call.known \cup {call.block}, live |-> call.live, prev |-> call.block]
    /\ UNCHANGED <<source, tables, stamp>>

(* ... and only then the cursor is moved past the block.                   *)
WalkCursor ==
    /\ call.op = "block" /\ call.todo = {}
    /\ cursor' = Height(call.block) + 1
    /\ call' = [op |-> "walk", n |-> call.n + 1, to |-> call.to,
                known |-> call.known \cup {call.block}, live |-> call.live, prev |-> call.block]
    /\ UNCHANGED <<source, tables, stamp>>

(* Mutant: the cursor is moved past a height the source does not have yet. *)
WalkEndAdvances ==
    /\ call.op = "walk"
    /\ call.n > call.to \/ call.n >= Len(source)
    /\ cursor' = IF call.n > call.to THEN cursor ELSE call.n + 1
    /\ call' = NoCall
    /\ UNCHANGED <<source, tables, stamp>>

(* The range is done, or the source has no such block: the cursor stays.   *)
WalkEnd ==
    /\ call.op = "walk"
    /\ call.n > call.to \/ call.n >= Len(source)
    /\ call' = NoCall
    /\ UNCHANGED <<source, tables, cursor, stamp>>

(* A call ends before it is done.                                          *)
CallDies ==
    /\ call # NoCall
    /\ call' = NoCall
    /\ UNCHANGED <<source, tables, cursor, stamp>>

ChainNext ==
    \/ \E h \in Histories : SourceMoves(h)
    \/ \E cat \in Catalog : StartCatalog(cat)
    \/ \E p \in Contracts \X Contracts : CatalogSupersede(p)
    \/ CatalogStamp
    \/ \E from \in (0 .. MaxHeight - 1) \cup {cursor}, to \in 0 .. MaxHeight - 1 : StartWalk(from, to)
    \/ WalkBlock
    \/ \E o \in Blocks : WalkSupersede(o)
    \/ WalkCursor
    \/ WalkEnd
    \/ CallDies

ChainSpec == ChainInit /\ [][ChainNext]_chainVars

-----------------------------------------------------------------------------
(* Properties.                                                             *)

(* Supersessions of checkpoints and of contracts stay acyclic although     *)
(* re-orgs and catalogs go back and forth between the same nodes.          *)
CorrectionsAcyclic ==
    \A t \in {checkpoints.sup, contracts.sup} :
        \A e \in t : ~Reaches(t, e[2], e[1])

(* The cursor never passes a height at which no block was committed: a     *)
(* walk that resumes there, after a crash or a source that was behind, has *)
(* nothing to go back for.                                                 *)
CursorHonest ==
    cursor > 0 => \E b \in Blocks :
        /\ Height(b) = cursor - 1 /\ checkpoints.status[b] # "Absent"
        /\ \A tx \in Watched(b) : <<b, <<tx, Height(b)>>>> \in emits

(* When the walk is about to move its cursor past a block, no other block  *)
(* of that height is still Active, also if earlier walks died before they  *)
(* retired theirs.  The exception is the block's own successor from an     *)
(* earlier re-org: the way back would close a cycle, is refused by the     *)
(* store and counted as rejected.                                          *)
OrphansRetired ==
    call.op = "block" /\ call.todo = {} =>
        \A o \in Blocks :
            o # call.block /\ Height(o) = Height(call.block)
              /\ checkpoints.status[o] = "Active"
                => Reaches(checkpoints.sup, o, call.block)

(* What holds between any two writes of a catalog ingest or a walk: types, *)
(* acyclic corrections and a cursor behind which nothing is missing.       *)
ChainInv == ChainTypeOK /\ CorrectionsAcyclic /\ CursorHonest
=============================================================================
