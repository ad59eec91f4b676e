------------------------------ MODULE AuditChain ------------------------------
(***************************************************************************)
(* The persistent, hash-chained audit log of crates/mem-authz/audit.rs: an *)
(* append-only log of records, a head sidecar that commits to the log's    *)
(* length and last hash, and an exclusive lock on the log file.            *)
(*                                                                         *)
(* The hash of a record covers its fields and its predecessor's hash, so   *)
(* it stands for the whole chain up to it: a hash is the sequence of       *)
(* payloads that leads to the record.                                      *)
(*                                                                         *)
(* Every step between two file operations may be the last one: a process   *)
(* dies, and the operating system drops its lock.  What else may go wrong  *)
(* around the program is the constant Faults.                              *)
(***************************************************************************)
EXTENDS Naturals, Sequences, FiniteSets

CONSTANTS
    Procs,      \* processes that open the same log: daemon, gateway
    Entries,    \* payloads of records
    Forged,     \* what an edit in place leaves instead of a payload
    Faults,     \* subset of {"write", "head", "tamper"}
    MaxLog,     \* bound on the lines of the log
    Nobody

ASSUME AuditChainAssumption ==
    /\ Forged \notin Entries
    /\ Faults \subseteq {"write", "head", "tamper"}
    /\ MaxLog \in Nat
    /\ Nobody \notin Procs

VARIABLES
    created,  \* the log file exists
    log,      \* its lines
    head,     \* the sidecar, or NoHead
    lock,     \* the process that holds the flock
    mem,      \* per process: where it is, and the chain it has in memory
    acked,    \* history: <<sequence, payload>> of appends that returned Ok
    faulted   \* history: the faults that have happened

auditVars == <<created, log, head, lock, mem, acked, faulted>>

Payloads == Entries \cup {Forged}
Chains == UNION {[1 .. n -> Payloads] : n \in 0 .. MaxLog}

(* A line is torn when bytes of it are missing; it is not ended when only  *)
(* the newline is.                                                         *)
Line == [seq : 0 .. MaxLog, prev : Chains, entry : Payloads,
         torn : BOOLEAN, ended : BOOLEAN]

HeadRow == [len : 0 .. MaxLog, hash : Chains]
NoHead == [len |-> 0, hash |-> <<Nobody>>]

(* Log, head, lock and what each process of mem-authz has in memory keep   *)
(* their types, and no chain or head is longer than the log may get.       *)
AuditTypeOK ==
    /\ created \in BOOLEAN
    /\ log \in Seq(Line) /\ Len(log) <= MaxLog
    /\ head \in HeadRow \cup {NoHead}
    /\ lock \in Procs \cup {Nobody}
    /\ mem \in [Procs -> [pc : {"down", "creating", "read", "verified", "open", "written"},
                          chain : Chains, entry : Payloads, headLen : 0 .. MaxLog]]
    /\ acked \subseteq (0 .. MaxLog) \X Entries
    /\ faulted \subseteq Faults \cup {"race"}

Down == [pc |-> "down", chain |-> <<>>, entry |-> Forged, headLen |-> 0]

(* record_hash, with the linkage.                                          *)
HashAfter(chain, entry) == Append(chain, entry)

EntriesOf(lines) == [i \in 1 .. Len(lines) |-> lines[i].entry]

(* The walk of open over the log: it parses, and sequence and prev_hash    *)
(* link every record to the one before.                                    *)
WellLinked(lines) ==
    \A i \in 1 .. Len(lines) :
        /\ ~lines[i].torn
        /\ lines[i].seq = i - 1
        /\ lines[i].prev = SubSeq(EntriesOf(lines), 1, i - 1)

(* Mutant: the length of the log is not compared with the head's.          *)
HeadAcceptsShort(h, chain) ==
    /\ h # NoHead
    /\ Len(chain) <= h.len + 1
    /\ h.len <= Len(chain) => SubSeq(chain, 1, h.len) = h.hash

(* The checks of open on the head: it is there, it commits to a prefix of  *)
(* the log, and at most one record is in flight.                           *)
HeadAccepts(h, chain) ==
    /\ h # NoHead
    /\ h.len <= Len(chain)
    /\ Len(chain) <= h.len + 1
    /\ SubSeq(chain, 1, h.len) = h.hash

(* The bytes of a line reach the end of the file: after a line without its *)
(* newline they make one line with it, which does not parse.               *)
AppendBytes(lines, line) ==
    IF lines # <<>> /\ ~lines[Len(lines)].ended
    THEN [lines EXCEPT ![Len(lines)].torn = TRUE, ![Len(lines)].ended = line.ended]
    ELSE Append(lines, line)

RecordOf(p, entry) ==
    [seq |-> Len(mem[p].chain), prev |-> mem[p].chain, entry |-> entry,
     torn |-> FALSE, ended |-> TRUE]

-----------------------------------------------------------------------------
AuditInit ==
    /\ created = FALSE
    /\ log = <<>>
    /\ head = NoHead
    /\ lock = Nobody
    /\ mem = [p \in Procs |-> Down]
    /\ acked = {}
    /\ faulted = {}

(* open, no log file: it is created ...                                    *)
CreateLog(p) ==
    /\ mem[p].pc = "down" /\ ~created
    /\ created' = TRUE
    /\ mem' = [mem EXCEPT ![p].pc = "creating"]
    /\ UNCHANGED <<log, head, lock, acked, faulted>>

(* ... locked, and then given its head.  Nobody else can hold the lock, as *)
(* open refuses a log without a head before it asks for the lock.          *)
CreateHead(p) ==
    /\ mem[p].pc = "creating" /\ lock = Nobody
    /\ lock' = p
    /\ head' = [len |-> 0, hash |-> <<>>]
    /\ mem' = [mem EXCEPT ![p].pc = "open"]
    /\ UNCHANGED <<created, log, acked, faulted>>

(* open, existing log: the lines are read and walked, without the lock.    *)
(* A line without its newline is read like any other.                      *)
ReadLog(p) ==
    /\ mem[p].pc = "down" /\ created
    /\ WellLinked(log)
    /\ mem' = [mem EXCEPT ![p].pc = "read", ![p].chain = EntriesOf(log)]
    /\ UNCHANGED <<created, log, head, lock, acked, faulted>>

(* Then the head is read and compared; open fails or goes on.              *)
ReadHead(p) ==
    /\ mem[p].pc = "read"
    /\ mem' = [mem EXCEPT ![p] = IF HeadAccepts(head, @.chain)
                                 THEN [@ EXCEPT !.pc = "verified", !.headLen = head.len]
                                 ELSE Down]
    /\ UNCHANGED <<created, log, head, lock, acked, faulted>>

(* Mutant: the head is left behind after a crash.                          *)
LockNoRepair(p) ==
    /\ mem[p].pc = "verified" /\ lock = Nobody
    /\ lock' = p
    /\ mem' = [mem EXCEPT ![p].pc = "open"]
    /\ UNCHANGED <<created, log, head, acked, faulted>>

(* The lock is taken and a head that was one record behind is repaired, to *)
(* the length and hash read before.  Nothing is read again: a log that was *)
(* appended to meanwhile is the race that faulted records.                 *)
LockAndRepair(p) ==
    /\ mem[p].pc = "verified" /\ lock = Nobody
    /\ lock' = p
    /\ head' = IF mem[p].headLen # Len(mem[p].chain)
               THEN [len |-> Len(mem[p].chain), hash |-> mem[p].chain]
               ELSE head
    /\ mem' = [mem EXCEPT ![p].pc = "open"]
    /\ faulted' = IF WellLinked(log) /\ mem[p].chain = EntriesOf(log) THEN faulted
                  ELSE faulted \cup {"race"}
    /\ UNCHANGED <<created, log, acked>>

(* AuditError::Locked                                                      *)
LockRefused(p) ==
    /\ mem[p].pc = "verified" /\ lock # Nobody
    /\ mem' = [mem EXCEPT ![p] = Down]
    /\ UNCHANGED <<created, log, head, lock, acked, faulted>>

-----------------------------------------------------------------------------
(* Bound on log and chain.                                                 *)
Room(p) == Len(log) < MaxLog /\ Len(mem[p].chain) < MaxLog

(* Mutant: the head is replaced before the line is written.                *)
AppendLineLate(p, e) ==
    /\ mem[p].pc = "open" /\ Room(p)
    /\ head' = [len |-> Len(mem[p].chain) + 1, hash |-> HashAfter(mem[p].chain, e)]
    /\ mem' = [mem EXCEPT ![p].pc = "written", ![p].entry = e]
    /\ UNCHANGED <<created, log, lock, acked, faulted>>

(* append: the line is written and synced ...                              *)
AppendLine(p, e) ==
    /\ mem[p].pc = "open" /\ Room(p)
    /\ log' = AppendBytes(log, RecordOf(p, e))
    /\ mem' = [mem EXCEPT ![p].pc = "written", ![p].entry = e]
    /\ UNCHANGED <<created, head, lock, acked, faulted>>

(* Mutant: the head commits to one record too many.                        *)
AppendHeadLong(p) ==
    /\ mem[p].pc = "written"
    /\ LET chain == HashAfter(mem[p].chain, mem[p].entry)
       IN  /\ head' = [len |-> Len(chain) + 1, hash |-> chain]
           /\ mem' = [mem EXCEPT ![p].pc = "open", ![p].chain = chain]
           /\ acked' = acked \cup {<<Len(chain) - 1, mem[p].entry>>}
    /\ UNCHANGED <<created, log, lock, faulted>>

(* ... then the head is replaced by a rename and the record is visible.    *)
AppendHead(p) ==
    /\ mem[p].pc = "written"
    /\ LET chain == HashAfter(mem[p].chain, mem[p].entry)
       IN  /\ head' = [len |-> Len(chain), hash |-> chain]
           /\ mem' = [mem EXCEPT ![p].pc = "open", ![p].chain = chain]
           /\ acked' = acked \cup {<<Len(chain) - 1, mem[p].entry>>}
    /\ UNCHANGED <<created, log, lock, faulted>>

(* write_all fails part of the way (a full disk): append returns the error *)
(* and the process lives on.                                               *)
AppendLineFails(p, e) ==
    /\ "write" \in Faults
    /\ mem[p].pc = "open" /\ Room(p)
    /\ \E torn \in BOOLEAN :
         log' = AppendBytes(log, [RecordOf(p, e) EXCEPT !.torn = torn, !.ended = FALSE])
    /\ faulted' = faulted \cup {"write"}
    /\ UNCHANGED <<created, head, lock, mem, acked>>

(* write_head fails: the record is in the log, memory is as before.        *)
AppendHeadFails(p) ==
    /\ "head" \in Faults
    /\ mem[p].pc = "written"
    /\ mem' = [mem EXCEPT ![p].pc = "open"]
    /\ faulted' = faulted \cup {"head"}
    /\ UNCHANGED <<created, log, head, lock, acked>>

(* The process ends, at any point.                                         *)
Exit(p) ==
    /\ mem[p].pc # "down"
    /\ mem' = [mem EXCEPT ![p] = Down]
    /\ lock' = IF lock = p THEN Nobody ELSE lock
    /\ UNCHANGED <<created, log, head, acked, faulted>>

(* While nobody runs, the log alone is cut or edited in place.             *)
TamperLog ==
    /\ "tamper" \in Faults
    /\ \A p \in Procs : mem[p].pc = "down"
    /\ log # <<>>
    /\ \/ \E n \in 0 .. Len(log) - 1 : log' = SubSeq(log, 1, n)
       \/ \E i \in 1 .. Len(log) : log' = [log EXCEPT ![i].entry = Forged]
    /\ faulted' = faulted \cup {"tamper"}
    /\ UNCHANGED <<created, head, lock, mem, acked>>

AuditNext ==
    \/ \E p \in Procs :
         \/ CreateLog(p) \/ CreateHead(p)
         \/ ReadLog(p) \/ ReadHead(p) \/ LockAndRepair(p) \/ LockRefused(p)
         \/ \E e \in Entries : AppendLine(p, e) \/ AppendLineFails(p, e)
         \/ AppendHead(p) \/ AppendHeadFails(p)
         \/ Exit(p)
    \/ TamperLog

AuditSpec == AuditInit /\ [][AuditNext]_auditVars

-----------------------------------------------------------------------------
(* Properties.                                                             *)

Openable == WellLinked(log) /\ HeadAccepts(head, EntriesOf(log))

(* Whatever step the last process died in, the next open accepts log and   *)
(* head as it left them: the crash tolerance open documents, from the      *)
(* moment the chain has a head and as long as nothing but crashes goes     *)
(* wrong.                                                                  *)
OpenAccepts == head # NoHead /\ faulted = {} => Openable

(* A chain that is open holds every record whose append ever returned Ok,  *)
(* at its sequence number: whatever was cut from or edited in the log, and *)
(* whatever write failed, open does not resume a chain that lost one,      *)
(* unless the log changed between open's read and its lock.                *)
AckedSurvive ==
    "race" \notin faulted =>
      \A p \in Procs : mem[p].pc \in {"open", "written"} =>
        \A a \in acked : a[1] < Len(mem[p].chain) /\ mem[p].chain[a[1] + 1] = a[2]

(* The head never commits to more records than the log holds, so that      *)
(* AuditError::Truncated means what it says, also when processes race      *)
(* through open and one repairs the head from what it read before it had   *)
(* the lock, and when a head could not be replaced.  (A torn line swallows *)
(* the next one, and an edit may cut any number.)                          *)
HeadNeverAhead == faulted \subseteq {"head", "race"} => head.len <= Len(log)

(* What holds in every state of the chain files: types, and a head that    *)
(* the log covers (open, append and the repair of LockAndRepair).          *)
AuditInv == AuditTypeOK /\ HeadNeverAhead
=============================================================================
