-------------------------- MODULE AuditChainProofs --------------------------
(* Theorems about AuditChain, for every set of processes, payloads and     *)
(* faults, and every length of the log.                                    *)
EXTENDS AuditChain, SequenceTheorems, TLAPS

-----------------------------------------------------------------------------
(* Facts about chains and lines.                                           *)

(* A chain is a sequence of payloads no longer than the log may get.       *)
LEMMA ChainsAreSeqs ==
    /\ \A c \in Chains : c \in Seq(Payloads) /\ Len(c) \in 0 .. MaxLog
    /\ \A c \in Seq(Payloads) : Len(c) <= MaxLog => c \in Chains
  BY AuditChainAssumption DEF Chains

(* What a process has in memory, and what it starts with.                  *)
MemRow == [pc : {"down", "creating", "read", "verified", "open", "written"},
           chain : Chains, entry : Payloads, headLen : 0 .. MaxLog]

(* A process that is down has such a row.                                  *)
LEMMA DownIsRow == <<>> \in Chains /\ 0 \in 0 .. MaxLog /\ Down \in MemRow
  <1> DEFINE empty == <<>>
  <1>1. empty \in Seq(Payloads) /\ Len(empty) = 0
    BY EmptySeq
  <1> HIDE DEF empty
  <1>2. MaxLog \in Nat
    BY AuditChainAssumption
  <1>3. 0 \in 0 .. MaxLog
    BY <1>2
  <1>4. Len(empty) <= MaxLog
    BY <1>1, <1>2
  <1>5. empty \in Chains
    BY <1>1, <1>4, ChainsAreSeqs
  <1>6. [pc |-> "down", chain |-> empty, entry |-> Forged, headLen |-> 0] \in MemRow
    BY <1>3, <1>5 DEF MemRow, Payloads
  <1>. QED
    BY <1>3, <1>5, <1>6 DEF Down, empty

(* A prefix has the elements of the chain.                                 *)
LEMMA PrefixElements ==
    ASSUME NEW c \in Seq(Payloads), NEW n \in 0 .. Len(c)
    PROVE  /\ SubSeq(c, 1, n) \in Seq(Payloads)
           /\ Len(SubSeq(c, 1, n)) = n
           /\ \A i \in 1 .. n : SubSeq(c, 1, n)[i] = c[i]
  OBVIOUS

(* Sequences with the same length and elements are equal.                  *)
LEMMA SameChain ==
    ASSUME NEW c \in Seq(Payloads), NEW d \in Seq(Payloads), Len(c) = Len(d),
           \A i \in 1 .. Len(c) : c[i] = d[i]
    PROVE  c = d
  OBVIOUS

(* The fields of a line.                                                   *)
LEMMA LineFields ==
    ASSUME NEW line \in Line
    PROVE  /\ line.seq \in 0 .. MaxLog /\ line.prev \in Chains /\ line.entry \in Payloads
           /\ line.torn \in BOOLEAN /\ line.ended \in BOOLEAN
           /\ \A e \in Payloads : [line EXCEPT !.entry = e] \in Line
           /\ \A x \in BOOLEAN, y \in BOOLEAN :
                 LET other == [line EXCEPT !.torn = x, !.ended = y]
                 IN  other \in Line /\ other.torn = x
  BY DEF Line

(* The payloads of the lines.                                              *)
LEMMA EntriesOfSeq ==
    ASSUME NEW lines \in Seq(Line)
    PROVE  /\ EntriesOf(lines) \in Seq(Payloads)
           /\ Len(EntriesOf(lines)) = Len(lines)
           /\ \A i \in 1 .. Len(lines) : EntriesOf(lines)[i] = lines[i].entry
  <1>0. \A i \in 1 .. Len(lines) : lines[i] \in Line
    BY ElementOfSeq
  <1>1. \A i \in 1 .. Len(lines) : lines[i].entry \in Payloads
    BY <1>0, LineFields
  <1>2. EntriesOf(lines) \in [1 .. Len(lines) -> Payloads]
    BY <1>1 DEF EntriesOf
  <1>. QED
    BY <1>1, <1>2 DEF EntriesOf

(* The payloads after one more line.                                       *)
LEMMA EntriesOfAppend ==
    ASSUME NEW lines \in Seq(Line), NEW line \in Line
    PROVE  EntriesOf(Append(lines, line)) = Append(EntriesOf(lines), line.entry)
  <1> DEFINE more == Append(lines, line)
             c == EntriesOf(more)
             d == Append(EntriesOf(lines), line.entry)
  <1>0. line.entry \in Payloads
    BY LineFields
  <1>1. more \in Seq(Line) /\ Len(more) = Len(lines) + 1
        /\ \A i \in 1 .. Len(lines) + 1 : more[i] = IF i <= Len(lines) THEN lines[i] ELSE line
    OBVIOUS
  <1> HIDE DEF more
  <1>2. c \in Seq(Payloads) /\ Len(c) = Len(lines) + 1
        /\ \A i \in 1 .. Len(lines) + 1 : c[i] = more[i].entry
    BY <1>1, EntriesOfSeq
  <1>3. d \in Seq(Payloads) /\ Len(d) = Len(lines) + 1
        /\ \A i \in 1 .. Len(lines) + 1 : d[i] = IF i <= Len(lines) THEN lines[i].entry ELSE line.entry
    BY <1>0, EntriesOfSeq
  <1> HIDE DEF c, d
  <1>4. \A i \in 1 .. Len(c) : c[i] = d[i]
    BY <1>1, <1>2, <1>3
  <1>5. c = d
    BY <1>2, <1>3, <1>4, SameChain
  <1>. QED
    BY <1>5 DEF c, d, more

(* The walk over a log with one more line: the lines before it are linked, *)
(* and the last one is whole and linked to them.                           *)
LEMMA WellLinkedAppend ==
    ASSUME NEW lines \in Seq(Line), NEW line \in Line
    PROVE  WellLinked(Append(lines, line)) <=>
             /\ WellLinked(lines)
             /\ ~line.torn /\ line.seq = Len(lines) /\ line.prev = EntriesOf(lines)
  <1> DEFINE more == Append(lines, line)
             old == EntriesOf(lines)
             new == EntriesOf(more)
             n == Len(lines)
  <1>0. line.entry \in Payloads
    BY LineFields
  <1>1. more \in Seq(Line) /\ Len(more) = n + 1 /\ more[n + 1] = line /\ n \in Nat
        /\ \A i \in 1 .. n : more[i] = lines[i]
    OBVIOUS
  <1>2. old \in Seq(Payloads) /\ Len(old) = n
    BY EntriesOfSeq
  <1>3. new \in Seq(Payloads) /\ Len(new) = n + 1 /\ \A i \in 1 .. n : new[i] = old[i]
    <2>1. new = Append(old, line.entry)
      BY EntriesOfAppend
    <2>. QED
      BY <1>0, <1>2, <2>1
  <1> HIDE DEF more, old, new, n
  <1>4. ASSUME NEW i \in 1 .. n + 1 PROVE SubSeq(new, 1, i - 1) = SubSeq(old, 1, i - 1)
    <2>1. i - 1 \in 0 .. Len(old) /\ i - 1 \in 0 .. Len(new)
      BY <1>1, <1>2, <1>3
    <2>2. /\ SubSeq(new, 1, i - 1) \in Seq(Payloads) /\ SubSeq(old, 1, i - 1) \in Seq(Payloads)
          /\ Len(SubSeq(new, 1, i - 1)) = i - 1 /\ Len(SubSeq(old, 1, i - 1)) = i - 1
          /\ \A j \in 1 .. i - 1 : SubSeq(new, 1, i - 1)[j] = new[j] /\ SubSeq(old, 1, i - 1)[j] = old[j]
      BY <1>2, <1>3, <2>1, PrefixElements
    <2>3. \A j \in 1 .. i - 1 : new[j] = old[j]
      BY <1>1, <1>3
    <2>. QED
      BY <2>2, <2>3, SameChain
  <1>5. SubSeq(new, 1, n) = old
    BY <1>1, <1>2, <1>4, SubSeqFull
  <1>6. WellLinked(more) <=> \A i \in 1 .. n + 1 : /\ ~more[i].torn
                                                  /\ more[i].seq = i - 1
                                                  /\ more[i].prev = SubSeq(new, 1, i - 1)
    BY <1>1 DEF WellLinked, new
  <1>7. WellLinked(lines) <=> \A i \in 1 .. n : /\ ~lines[i].torn
                                               /\ lines[i].seq = i - 1
                                               /\ lines[i].prev = SubSeq(old, 1, i - 1)
    BY DEF WellLinked, old, n
  <1>8. \A i \in 1 .. n : i \in 1 .. n + 1 /\ more[i] = lines[i] /\ SubSeq(new, 1, i - 1) = SubSeq(old, 1, i - 1)
    BY <1>1, <1>4
  <1>9. (n + 1) - 1 = n /\ n + 1 \in 1 .. n + 1 /\ \A i \in 1 .. n + 1 : i \in 1 .. n \/ i = n + 1
    BY <1>1
  <1>10. WellLinked(more) => WellLinked(lines) /\ ~line.torn /\ line.seq = n /\ line.prev = old
    BY <1>1, <1>5, <1>6, <1>7, <1>8, <1>9
  <1>11. WellLinked(lines) /\ ~line.torn /\ line.seq = n /\ line.prev = old => WellLinked(more)
    BY <1>1, <1>5, <1>6, <1>7, <1>8, <1>9
  <1>. QED
    BY <1>10, <1>11 DEF more, old, n

(* What write_all leaves: a log with one more line, or one whose last line *)
(* swallowed it; only the first can pass the walk of open, and then its    *)
(* payloads are the writer's chain and the record.                         *)
LEMMA AppendBytesFacts ==
    ASSUME NEW lines \in Seq(Line), NEW line \in Line
    PROVE  LET more == AppendBytes(lines, line)
           IN  /\ more \in Seq(Line)
               /\ Len(more) \in Len(lines) .. Len(lines) + 1
               /\ (\A i \in 1 .. Len(lines) : lines[i].ended) => more = Append(lines, line)
               /\ WellLinked(more) =>
                     /\ line.prev = EntriesOf(lines)
                     /\ EntriesOf(more) = Append(line.prev, line.entry)
  <1> DEFINE more == AppendBytes(lines, line)
             n == Len(lines)
             last == [lines[n] EXCEPT !.torn = TRUE, !.ended = line.ended]
  <1>1. CASE lines # <<>> /\ ~lines[n].ended
    <2>1. n \in 1 .. n /\ n \in Nat
      BY <1>1
    <2>2. last \in Line /\ last.torn
      <3>1. lines[n] \in Line /\ line.ended \in BOOLEAN
        BY <2>1, ElementOfSeq, LineFields
      <3>. QED
        BY <3>1, LineFields
    <2>3. more = [lines EXCEPT ![n] = last]
      BY <1>1, <2>1 DEF AppendBytes
    <2> HIDE DEF last
    <2>4. more \in Seq(Line) /\ Len(more) = n /\ more[n] = last
      BY <2>1, <2>2, <2>3
    <2>5. ~WellLinked(more)
      BY <2>1, <2>2, <2>4 DEF WellLinked
    <2>. QED
      BY <1>1, <2>1, <2>4, <2>5
  <1>2. CASE ~(lines # <<>> /\ ~lines[n].ended)
    <2>1. more = Append(lines, line)
      BY <1>2 DEF AppendBytes
    <2>2. Append(lines, line) \in Seq(Line) /\ Len(Append(lines, line)) = n + 1
      OBVIOUS
    <2>. QED
      BY <2>1, <2>2, EntriesOfAppend, WellLinkedAppend
  <1>. QED
    BY <1>1, <1>2

-----------------------------------------------------------------------------
(* The inductive invariant.                                                *)

Live == {"open", "written"}

(* Every record whose append returned Ok is in the chain at its place.     *)
Holds(chain) == \A a \in acked : a[1] < Len(chain) /\ chain[a[1] + 1] = a[2]

(* A chain without a head has no record and nobody has it open; only the   *)
(* process that created the log gives it one, and only one process at a    *)
(* time is past the lock.                                                  *)
FileInv ==
    /\ ~created => head = NoHead /\ \A p \in Procs : mem[p].pc = "down"
    /\ head = NoHead => /\ acked = {} /\ log = <<>>
                        /\ \A p \in Procs : mem[p].pc \in {"down", "creating", "read"}
    /\ head # NoHead => head.len = Len(head.hash)
    /\ \A p \in Procs :
          /\ mem[p].pc \in Live => lock = p
          /\ mem[p].pc = "written" => mem[p].entry \in Entries /\ Len(mem[p].chain) < MaxLog
          /\ mem[p].pc = "down" => mem[p].chain = <<>>
          /\ mem[p].pc = "creating" => head = NoHead /\ mem[p].chain = <<>>
          /\ \A q \in Procs : mem[p].pc = "creating" /\ mem[q].pc = "creating" => p = q

(* As long as no line is torn and none is cut, no chain in memory is       *)
(* longer than the log.                                                    *)
LengthInv ==
    faulted \subseteq {"head", "race"} =>
        /\ head.len <= Len(log)
        /\ \A i \in 1 .. Len(log) : log[i].ended
        /\ \A p \in Procs : /\ Len(mem[p].chain) <= Len(log)
                            /\ mem[p].pc = "written" => Len(mem[p].chain) < Len(log)

(* If the log passes the walk of open, it ends with the record being       *)
(* written.  What the head commits to holds every acknowledged record, and *)
(* so does the chain of whoever is past the lock or would get it with the  *)
(* log unchanged.                                                          *)
AckedInv ==
    /\ \A p \in Procs : mem[p].pc = "written" /\ WellLinked(log) =>
          EntriesOf(log) = Append(mem[p].chain, mem[p].entry)
    /\ "race" \notin faulted =>
          /\ head # NoHead => Holds(head.hash)
          /\ \A p \in Procs :
                /\ mem[p].pc \in Live => Holds(mem[p].chain)
                /\ mem[p].pc = "verified" /\ WellLinked(log) /\ mem[p].chain = EntriesOf(log) =>
                      Holds(mem[p].chain)

(* While nothing but crashes goes wrong the head is at most one record     *)
(* behind the log, and only the process past the lock makes it so.         *)
CleanInv ==
    faulted = {} /\ head # NoHead =>
        /\ Openable
        /\ \A p \in Procs :
              /\ mem[p].pc = "verified" => mem[p].headLen <= head.len
              /\ mem[p].pc = "open" => mem[p].chain = EntriesOf(log) /\ head.len = Len(log)
              /\ mem[p].pc = "written" => mem[p].chain = head.hash

AuditIInv == AuditTypeOK /\ FileInv /\ LengthInv /\ AckedInv /\ CleanInv

(* It implies what the run checks.                                         *)
LEMMA AuditIInvImplies ==
    ASSUME AuditIInv
    PROVE  AuditInv /\ AckedSurvive /\ OpenAccepts
  <1>1. HeadNeverAhead
    BY DEF AuditIInv, LengthInv, HeadNeverAhead
  <1>2. AckedSurvive
    BY DEF AuditIInv, AckedInv, AckedSurvive, Holds, Live
  <1>3. OpenAccepts
    BY DEF AuditIInv, CleanInv, OpenAccepts
  <1>. QED
    BY <1>1, <1>2, <1>3 DEF AuditIInv, AuditInv

(* The files before the first process starts.                              *)
LEMMA AuditInitIInv == AuditInit => AuditIInv
  <1> SUFFICES ASSUME AuditInit PROVE AuditIInv
    OBVIOUS
  <1>1. AuditTypeOK
    <2>1. mem \in [Procs -> MemRow]
      BY DownIsRow DEF AuditInit
    <2>2. log \in Seq(Line) /\ Len(log) = 0
      BY EmptySeq DEF AuditInit
    <2>3. created \in BOOLEAN /\ head = NoHead /\ lock = Nobody /\ acked = {} /\ faulted = {}
      BY DEF AuditInit
    <2>. QED
      BY <2>1, <2>2, <2>3, AuditChainAssumption DEF AuditTypeOK, MemRow
  <1>2. FileInv
    BY DEF AuditInit, FileInv, Down, Live
  <1>3. LengthInv
    BY DEF AuditInit, LengthInv, Down, NoHead
  <1>4. AckedInv /\ CleanInv
    BY DEF AuditInit, AckedInv, CleanInv, Down, Live
  <1>. QED
    BY <1>1, <1>2, <1>3, <1>4 DEF AuditIInv

(* The types of what a process has in memory, and of the log's payloads.   *)
LEMMA MemFacts ==
    ASSUME AuditTypeOK, NEW p \in Procs
    PROVE  /\ mem \in [Procs -> MemRow] /\ mem[p] \in MemRow
           /\ mem[p].chain \in Chains /\ mem[p].chain \in Seq(Payloads)
           /\ Len(mem[p].chain) \in 0 .. MaxLog
           /\ mem[p].entry \in Payloads /\ mem[p].headLen \in 0 .. MaxLog
           /\ Down \in MemRow
           /\ EntriesOf(log) \in Chains /\ EntriesOf(log) \in Seq(Payloads)
           /\ Len(EntriesOf(log)) = Len(log) /\ Len(log) \in 0 .. MaxLog
  <1>1. mem \in [Procs -> MemRow] /\ mem[p] \in MemRow
    BY DEF AuditTypeOK, MemRow
  <1>2. mem[p].chain \in Chains /\ mem[p].entry \in Payloads /\ mem[p].headLen \in 0 .. MaxLog
    BY <1>1 DEF MemRow
  <1>4. Down \in MemRow
    BY DownIsRow
  <1>5. log \in Seq(Line) /\ Len(log) <= MaxLog
    BY DEF AuditTypeOK
  <1>6. Len(log) \in Nat
    BY <1>5
  <1>. QED
    BY <1>1, <1>2, <1>4, <1>5, <1>6, ChainsAreSeqs, EntriesOfSeq, AuditChainAssumption

(* The record that append writes is a line.                                *)
LEMMA RecordIsLine ==
    ASSUME AuditTypeOK, NEW p \in Procs, NEW e \in Entries
    PROVE  /\ RecordOf(p, e) \in Line
           /\ RecordOf(p, e).prev = mem[p].chain /\ RecordOf(p, e).entry = e
           /\ RecordOf(p, e).ended
           /\ ~RecordOf(p, e).torn /\ RecordOf(p, e).seq = Len(mem[p].chain)
           /\ \A torn \in BOOLEAN :
                 LET part == [RecordOf(p, e) EXCEPT !.torn = torn, !.ended = FALSE]
                 IN  part \in Line /\ part.prev = mem[p].chain /\ part.entry = e
  <1>1. mem[p].chain \in Chains /\ Len(mem[p].chain) \in 0 .. MaxLog /\ e \in Payloads
    BY MemFacts DEF Payloads
  <1>. QED
    BY <1>1 DEF RecordOf, Line

(* A record appended to a chain with room for it.                          *)
LEMMA ChainGrows ==
    ASSUME NEW c \in Chains, Len(c) < MaxLog, NEW e \in Payloads
    PROVE  /\ HashAfter(c, e) \in Chains /\ HashAfter(c, e) = Append(c, e)
           /\ Len(HashAfter(c, e)) = Len(c) + 1 /\ Len(c) + 1 \in 0 .. MaxLog
           /\ Len(c) \in 0 .. MaxLog
           /\ HashAfter(c, e)[Len(c) + 1] = e
           /\ \A i \in 1 .. Len(c) : HashAfter(c, e)[i] = c[i]
  <1>1. c \in Seq(Payloads) /\ Len(c) \in 0 .. MaxLog /\ MaxLog \in Nat
    BY ChainsAreSeqs, AuditChainAssumption
  <1>2. Append(c, e) \in Seq(Payloads) /\ Len(Append(c, e)) = Len(c) + 1
    BY <1>1
  <1>3. Append(c, e) \in Chains
    <2>1. Len(Append(c, e)) <= MaxLog
      BY <1>1, <1>2
    <2>. QED
      BY <1>2, <2>1, ChainsAreSeqs
  <1>. QED
    BY <1>1, <1>2, <1>3 DEF HashAfter

(* Every step keeps the types.                                             *)
LEMMA AuditTypeStep ==
    ASSUME AuditTypeOK, FileInv, AuditNext
    PROVE  AuditTypeOK'
  <1> DEFINE Same == UNCHANGED <<created, log, head, lock, acked, faulted>>
  <1>0. /\ created \in BOOLEAN /\ log \in Seq(Line) /\ Len(log) <= MaxLog
        /\ head \in HeadRow \cup {NoHead} /\ lock \in Procs \cup {Nobody}
        /\ mem \in [Procs -> MemRow]
        /\ acked \subseteq (0 .. MaxLog) \X Entries /\ faulted \subseteq Faults \cup {"race"}
    BY DEF AuditTypeOK, MemRow
  <1>1. SUFFICES /\ created' \in BOOLEAN /\ log' \in Seq(Line) /\ Len(log') <= MaxLog
                 /\ head' \in HeadRow \cup {NoHead} /\ lock' \in Procs \cup {Nobody}
                 /\ mem' \in [Procs -> MemRow]
                 /\ acked' \subseteq (0 .. MaxLog) \X Entries /\ faulted' \subseteq Faults \cup {"race"}
    BY DEF AuditTypeOK, MemRow
  <1>2. ASSUME NEW p \in Procs PROVE /\ mem[p] \in MemRow /\ Down \in MemRow
                                     /\ mem[p].chain \in Chains /\ mem[p].entry \in Payloads
                                     /\ Len(mem[p].chain) \in 0 .. MaxLog
                                     /\ EntriesOf(log) \in Chains
    BY MemFacts
  <1>3. ASSUME NEW p \in Procs, CreateLog(p) \/ LockRefused(p) \/ AppendHeadFails(p) \/ Exit(p)
        PROVE  <1>1!1
    <2>1. [mem[p] EXCEPT !.pc = "creating"] \in MemRow /\ [mem[p] EXCEPT !.pc = "open"] \in MemRow
      BY <1>2 DEF MemRow
    <2>2. \E m \in MemRow : mem' = [mem EXCEPT ![p] = m]
      BY <1>2, <1>3, <2>1 DEF CreateLog, LockRefused, AppendHeadFails, Exit
    <2>3. mem' \in [Procs -> MemRow]
      BY <1>0, <2>2
    <2>. QED
      BY <1>0, <1>3, <2>3 DEF CreateLog, LockRefused, AppendHeadFails, Exit
  <1>4. ASSUME NEW p \in Procs, CreateHead(p)
        PROVE  <1>1!1
    <2>1. mem' \in [Procs -> MemRow]
      BY <1>0, <1>4 DEF CreateHead, MemRow
    <2>2. [len |-> 0, hash |-> <<>>] \in HeadRow
      BY DownIsRow DEF HeadRow
    <2>. QED
      BY <1>0, <1>4, <2>1, <2>2 DEF CreateHead
  <1>5. ASSUME NEW p \in Procs, ReadLog(p)
        PROVE  <1>1!1
    <2>1. mem' \in [Procs -> MemRow]
      BY <1>0, <1>2, <1>5 DEF ReadLog, MemRow
    <2>. QED
      BY <1>0, <1>5, <2>1 DEF ReadLog
  <1>6. ASSUME NEW p \in Procs, ReadHead(p)
        PROVE  <1>1!1
    <2>1. head.len \in 0 .. MaxLog
      BY <1>0, AuditChainAssumption DEF HeadRow, NoHead
    <2>2. [mem[p] EXCEPT !.pc = "verified", !.headLen = head.len] \in MemRow
      BY <1>2, <2>1 DEF MemRow
    <2>3. mem' \in [Procs -> MemRow]
      BY <1>0, <1>2, <1>6, <2>2 DEF ReadHead
    <2>. QED
      BY <1>0, <1>6, <2>3 DEF ReadHead
  <1>7. ASSUME NEW p \in Procs, LockAndRepair(p)
        PROVE  <1>1!1
    <2>1. mem' \in [Procs -> MemRow]
      BY <1>0, <1>7 DEF LockAndRepair, MemRow
    <2>2. [len |-> Len(mem[p].chain), hash |-> mem[p].chain] \in HeadRow
      BY <1>2 DEF HeadRow
    <2>. QED
      BY <1>0, <1>7, <2>1, <2>2 DEF LockAndRepair
  <1>8. ASSUME NEW p \in Procs, NEW e \in Entries, AppendLine(p, e) \/ AppendLineFails(p, e)
        PROVE  <1>1!1
    <2>1. mem' \in [Procs -> MemRow]
      <3>1. [mem[p] EXCEPT !.pc = "written", !.entry = e] \in MemRow
        BY <1>2 DEF MemRow, Payloads
      <3>2. mem' = [mem EXCEPT ![p] = [mem[p] EXCEPT !.pc = "written", !.entry = e]] \/ mem' = mem
        BY <1>8 DEF AppendLine, AppendLineFails
      <3>. QED
        BY <1>0, <3>1, <3>2
    <2>2. \E line \in Line : log' = AppendBytes(log, line)
      BY <1>8, RecordIsLine DEF AppendLine, AppendLineFails
    <2>3. Len(log) < MaxLog
      BY <1>8 DEF AppendLine, AppendLineFails, Room
    <2>4. log' \in Seq(Line) /\ Len(log') \in Len(log) .. Len(log) + 1
      BY <1>0, <2>2, AppendBytesFacts
    <2>5. Len(log') <= MaxLog
      BY <1>0, <2>3, <2>4, AuditChainAssumption
    <2>. QED
      BY <1>0, <1>8, <2>1, <2>4, <2>5 DEF AppendLine, AppendLineFails
  <1>9. ASSUME NEW p \in Procs, AppendHead(p)
        PROVE  <1>1!1
    <2> DEFINE chain == HashAfter(mem[p].chain, mem[p].entry)
    <2>1. mem[p].entry \in Entries /\ Len(mem[p].chain) < MaxLog
      BY <1>9 DEF AppendHead, FileInv
    <2>2. chain \in Chains /\ Len(chain) \in 0 .. MaxLog /\ Len(chain) - 1 \in 0 .. MaxLog
      BY <1>2, <2>1, ChainGrows
    <2>3. head' = [len |-> Len(chain), hash |-> chain]
          /\ mem' = [mem EXCEPT ![p].pc = "open", ![p].chain = chain]
          /\ acked' = acked \cup {<<Len(chain) - 1, mem[p].entry>>}
          /\ UNCHANGED <<created, log, lock, faulted>>
      BY <1>9 DEF AppendHead
    <2> HIDE DEF chain
    <2>4. head' \in HeadRow
      BY <2>2, <2>3 DEF HeadRow
    <2>5. mem' \in [Procs -> MemRow]
      BY <1>0, <2>2, <2>3 DEF MemRow
    <2>. QED
      BY <1>0, <2>1, <2>2, <2>3, <2>4, <2>5
  <1>10. ASSUME TamperLog
         PROVE  <1>1!1
    <2>1. CASE \E n \in 0 .. Len(log) - 1 : log' = SubSeq(log, 1, n)
      BY <1>0, <1>10, <2>1, AuditChainAssumption DEF TamperLog
    <2>2. ASSUME NEW i \in 1 .. Len(log), log' = [log EXCEPT ![i].entry = Forged]
          PROVE  log' \in Seq(Line) /\ Len(log') = Len(log)
      <3>1. log[i] \in Line
        BY <1>0, ElementOfSeq
      <3>2. [log[i] EXCEPT !.entry = Forged] \in Line
        BY <3>1, LineFields DEF Payloads
      <3>3. log' = [log EXCEPT ![i] = [log[i] EXCEPT !.entry = Forged]]
        BY <2>2
      <3>. QED
        BY <1>0, <3>2, <3>3, ExceptSeq
    <2>. QED
      BY <1>0, <1>10, <2>1, <2>2 DEF TamperLog
  <1>. QED
    BY <1>3, <1>4, <1>5, <1>6, <1>7, <1>8, <1>9, <1>10 DEF AuditNext

(* A step of p leaves the memory of the others alone.                      *)
OthersSame(p) == \A q \in Procs \ {p} : mem'[q] = mem[q]

(* One row of memory is replaced.                                          *)
LEMMA MemSet ==
    ASSUME AuditTypeOK, NEW p \in Procs, NEW m, mem' = [mem EXCEPT ![p] = m]
    PROVE  OthersSame(p) /\ mem'[p] = m
  BY DEF AuditTypeOK, OthersSame

(* One process moves on with what it has in memory.                        *)
LEMMA MemSetPc ==
    ASSUME AuditTypeOK, NEW p \in Procs, NEW x, mem' = [mem EXCEPT ![p].pc = x]
    PROVE  /\ OthersSame(p)
           /\ mem'[p].pc = x /\ mem'[p].chain = mem[p].chain /\ mem'[p].entry = mem[p].entry
           /\ mem'[p].headLen = mem[p].headLen
  <1>1. mem \in [Procs -> MemRow]
    BY DEF AuditTypeOK, MemRow
  <1>. QED
    BY <1>1 DEF MemRow, OthersSame

(* The head without a record is not the missing one.                       *)
LEMMA HeadsDiffer ==
    ASSUME NEW c \in Chains
    PROVE  LET h == [len |-> Len(c), hash |-> c]
           IN  h # NoHead /\ h.len = Len(h.hash)
  <1>1. NoHead.len = 0 /\ Len(NoHead.hash) = 1
    BY DEF NoHead
  <1>. QED
    BY <1>1

(* After a step of p it is at x with chain c.                              *)
MemIs(p, x, c) == OthersSame(p) /\ mem'[p].pc = x /\ mem'[p].chain = c

(* Where each step of open, append and exit leaves its process.            *)
LEMMA MemSteps ==
    ASSUME AuditTypeOK, NEW p \in Procs
    PROVE  /\ CreateLog(p) => MemIs(p, "creating", mem[p].chain)
           /\ CreateHead(p) => MemIs(p, "open", mem[p].chain)
           /\ ReadLog(p) => MemIs(p, "read", EntriesOf(log))
           /\ ReadHead(p) => \/ /\ HeadAccepts(head, mem[p].chain)
                                /\ MemIs(p, "verified", mem[p].chain)
                                /\ mem'[p].headLen = head.len
                             \/ MemIs(p, "down", <<>>)
           /\ LockAndRepair(p) => MemIs(p, "open", mem[p].chain)
           /\ LockRefused(p) => MemIs(p, "down", <<>>)
           /\ \A e \in Entries : AppendLine(p, e) =>
                 MemIs(p, "written", mem[p].chain) /\ mem'[p].entry = e
           /\ AppendHead(p) => MemIs(p, "open", HashAfter(mem[p].chain, mem[p].entry))
           /\ AppendHeadFails(p) => MemIs(p, "open", mem[p].chain)
           /\ Exit(p) => MemIs(p, "down", <<>>)
  <1>0. mem[p] \in MemRow
    BY MemFacts
  <1>1. /\ CreateLog(p) => MemIs(p, "creating", mem[p].chain)
        /\ CreateHead(p) => MemIs(p, "open", mem[p].chain)
        /\ LockAndRepair(p) => MemIs(p, "open", mem[p].chain)
        /\ AppendHeadFails(p) => MemIs(p, "open", mem[p].chain)
    BY MemSetPc DEF CreateLog, CreateHead, LockAndRepair, AppendHeadFails, MemIs
  <1>2. mem' = [mem EXCEPT ![p] = Down] => MemIs(p, "down", <<>>)
    <2>1. Down.pc = "down" /\ Down.chain = <<>>
      BY DEF Down
    <2>. QED
      BY <2>1, MemSet DEF MemIs
  <1>3. LockRefused(p) \/ Exit(p) => MemIs(p, "down", <<>>)
    BY <1>2 DEF LockRefused, Exit
  <1>4. ReadLog(p) => MemIs(p, "read", EntriesOf(log))
    <2> DEFINE m == [mem[p] EXCEPT !.pc = "read", !.chain = EntriesOf(log)]
    <2>1. m.pc = "read" /\ m.chain = EntriesOf(log)
      BY <1>0 DEF MemRow
    <2>2. ReadLog(p) => mem' = [mem EXCEPT ![p] = m]
      BY DEF ReadLog
    <2> HIDE DEF m
    <2>. QED
      BY <2>1, <2>2, MemSet DEF MemIs
  <1>5. ASSUME ReadHead(p)
        PROVE  \/ /\ HeadAccepts(head, mem[p].chain)
                  /\ MemIs(p, "verified", mem[p].chain)
                  /\ mem'[p].headLen = head.len
               \/ MemIs(p, "down", <<>>)
    <2> DEFINE m == [mem[p] EXCEPT !.pc = "verified", !.headLen = head.len]
    <2>1. m.pc = "verified" /\ m.chain = mem[p].chain /\ m.headLen = head.len
      BY <1>0 DEF MemRow
    <2>2. mem' = [mem EXCEPT ![p] = IF HeadAccepts(head, mem[p].chain) THEN m ELSE Down]
      BY <1>5 DEF ReadHead
    <2> HIDE DEF m
    <2>3. CASE HeadAccepts(head, mem[p].chain)
      BY <2>1, <2>2, <2>3, MemSet DEF MemIs
    <2>4. CASE ~HeadAccepts(head, mem[p].chain)
      BY <1>2, <2>2, <2>4
    <2>. QED
      BY <2>3, <2>4
  <1>6. ASSUME NEW e \in Entries, AppendLine(p, e)
        PROVE  MemIs(p, "written", mem[p].chain) /\ mem'[p].entry = e
    <2> DEFINE m == [mem[p] EXCEPT !.pc = "written", !.entry = e]
    <2>1. m.pc = "written" /\ m.chain = mem[p].chain /\ m.entry = e
      BY <1>0 DEF MemRow
    <2>2. mem' = [mem EXCEPT ![p] = m]
      BY <1>6 DEF AppendLine
    <2> HIDE DEF m
    <2>. QED
      BY <2>1, <2>2, MemSet DEF MemIs
  <1>7. ASSUME AppendHead(p)
        PROVE  MemIs(p, "open", HashAfter(mem[p].chain, mem[p].entry))
    <2> DEFINE c == HashAfter(mem[p].chain, mem[p].entry)
               m == [mem[p] EXCEPT !.pc = "open", !.chain = c]
    <2>1. m.pc = "open" /\ m.chain = c
      BY <1>0 DEF MemRow
    <2>2. mem' = [mem EXCEPT ![p] = m]
      BY <1>7 DEF AppendHead
    <2> HIDE DEF m, c
    <2>3. MemIs(p, "open", c)
      BY <2>1, <2>2, MemSet DEF MemIs
    <2>. QED
      BY <2>3 DEF c
  <1>. QED
    BY <1>1, <1>3, <1>4, <1>5, <1>6, <1>7

(* The chain that append makes visible, and the head that commits to it.   *)
LEMMA AppendHeadFacts ==
    ASSUME AuditTypeOK, FileInv, NEW p \in Procs, AppendHead(p)
    PROVE  LET c == mem[p].chain
               e == mem[p].entry
               d == HashAfter(c, e)
           IN  /\ mem[p].pc = "written" /\ head # NoHead /\ lock = p
               /\ d \in Chains /\ d = Append(c, e) /\ Len(d) = Len(c) + 1 /\ Len(c) \in Nat
               /\ d[Len(c) + 1] = e /\ \A i \in 1 .. Len(c) : d[i] = c[i]
               /\ head' = [len |-> Len(d), hash |-> d]
               /\ head' # NoHead /\ head'.len = Len(d) /\ head'.hash = d
               /\ acked' = acked \cup {<<Len(c), e>>}
               /\ UNCHANGED <<created, log, lock, faulted>>
  <1> DEFINE c == mem[p].chain
             e == mem[p].entry
             d == HashAfter(c, e)
  <1>1. mem[p].pc = "written" /\ c \in Chains /\ e \in Payloads /\ Len(c) < MaxLog /\ head # NoHead
        /\ lock = p
    BY MemFacts DEF AppendHead, FileInv, Live
  <1>2. /\ d \in Chains /\ d = Append(c, e) /\ Len(d) = Len(c) + 1 /\ Len(c) \in Nat
        /\ d[Len(c) + 1] = e /\ \A i \in 1 .. Len(c) : d[i] = c[i]
    BY <1>1, ChainGrows
  <1>3. /\ head' = [len |-> Len(d), hash |-> d]
        /\ acked' = acked \cup {<<Len(d) - 1, e>>}
        /\ UNCHANGED <<created, log, lock, faulted>>
    BY DEF AppendHead
  <1> HIDE DEF c, d, e
  <1>4. head' # NoHead
    BY <1>2, <1>3, HeadsDiffer
  <1>5. Len(d) - 1 = Len(c)
    BY <1>2
  <1>. QED
    BY <1>1, <1>2, <1>3, <1>4, <1>5 DEF c, d, e

(* Every step keeps what holds of the files and the lock.                  *)
LEMMA FileStep ==
    ASSUME AuditTypeOK, FileInv, AuditNext
    PROVE  FileInv'
  <1>0. <<>> \in Chains /\ Len(<<>>) = 0
    BY DownIsRow, EmptySeq
  <1> USE DEF Live, OthersSame, MemIs
  <1>1. ASSUME NEW p \in Procs, CreateLog(p)
        PROVE  FileInv'
    <2>1. ~created /\ created' /\ UNCHANGED <<log, head, lock, acked>>
      BY <1>1 DEF CreateLog
    <2>. QED
      BY <1>1, <2>1, MemSteps DEF FileInv
  <1>2. ASSUME NEW p \in Procs, CreateHead(p)
        PROVE  FileInv'
    <2>1. mem[p].pc = "creating" /\ lock' = p /\ UNCHANGED created
      BY <1>2 DEF CreateHead
    <2>2. head' # NoHead /\ head'.len = Len(head'.hash)
      BY <1>0, <1>2, HeadsDiffer DEF CreateHead
    <2>3. created /\ \A q \in Procs \ {p} : mem[q].pc \in {"down", "read"}
      BY <2>1 DEF FileInv
    <2>. QED
      BY <1>2, <2>1, <2>2, <2>3, MemSteps DEF FileInv
  <1>3. ASSUME NEW p \in Procs, ReadLog(p)
        PROVE  FileInv'
    <2>1. created /\ UNCHANGED <<created, log, head, lock, acked>>
      BY <1>3 DEF ReadLog
    <2>. QED
      BY <1>3, <2>1, MemSteps DEF FileInv
  <1>4. ASSUME NEW p \in Procs, ReadHead(p)
        PROVE  FileInv'
    <2>1. mem[p].pc = "read" /\ UNCHANGED <<created, log, head, lock, acked>>
      BY <1>4 DEF ReadHead
    <2>2. HeadAccepts(head, mem[p].chain) => head # NoHead
      BY DEF HeadAccepts
    <2>. QED
      BY <1>4, <2>1, <2>2, MemSteps DEF FileInv
  <1>5. ASSUME NEW p \in Procs, LockAndRepair(p)
        PROVE  FileInv'
    <2>1. /\ mem[p].pc = "verified"
          /\ lock = Nobody /\ lock' = p
          /\ head' = (IF mem[p].headLen # Len(mem[p].chain)
                      THEN [len |-> Len(mem[p].chain), hash |-> mem[p].chain] ELSE head)
          /\ UNCHANGED <<created, log, acked>>
      BY <1>5 DEF LockAndRepair
    <2>2. head # NoHead
      BY <2>1 DEF FileInv
    <2>3. head' # NoHead /\ head'.len = Len(head'.hash)
      BY <2>1, <2>2, MemFacts, HeadsDiffer DEF FileInv
    <2>4. \A q \in Procs : mem[q].pc \notin Live
      BY <2>1, AuditChainAssumption DEF FileInv
    <2>. QED
      BY <1>5, <2>1, <2>2, <2>3, <2>4, MemSteps DEF FileInv
  <1>6. ASSUME NEW p \in Procs, LockRefused(p) \/ Exit(p)
        PROVE  FileInv'
    <2>1. /\ mem[p].pc # "down"
          /\ lock' = lock \/ lock' = (IF lock = p THEN Nobody ELSE lock)
          /\ UNCHANGED <<created, log, head, acked>>
      BY <1>6 DEF LockRefused, Exit
    <2>. QED
      BY <1>6, <2>1, MemSteps DEF FileInv
  <1>7. ASSUME NEW p \in Procs, NEW e \in Entries, AppendLine(p, e)
        PROVE  FileInv'
    <2>1. mem[p].pc = "open" /\ Len(mem[p].chain) < MaxLog /\ UNCHANGED <<created, head, lock, acked>>
      BY <1>7 DEF AppendLine, Room
    <2>. QED
      BY <1>7, <2>1, MemSteps DEF FileInv
  <1>8. ASSUME NEW p \in Procs, NEW e \in Entries, AppendLineFails(p, e)
        PROVE  FileInv'
    BY <1>8 DEF AppendLineFails, FileInv
  <1>9. ASSUME NEW p \in Procs, AppendHead(p)
        PROVE  FileInv'
    BY <1>9, AppendHeadFacts, MemSteps DEF FileInv
  <1>10. ASSUME NEW p \in Procs, AppendHeadFails(p)
         PROVE  FileInv'
    <2>1. mem[p].pc = "written" /\ UNCHANGED <<created, log, head, lock, acked>>
      BY <1>10 DEF AppendHeadFails
    <2>. QED
      BY <1>10, <2>1, MemSteps DEF FileInv
  <1>11. ASSUME TamperLog
         PROVE  FileInv'
    BY <1>11 DEF TamperLog, FileInv
  <1>. QED
    BY <1>1, <1>2, <1>3, <1>4, <1>5, <1>6, <1>7, <1>8, <1>9, <1>10, <1>11 DEF AuditNext

(* Every step keeps the lengths: read and repair use what the log held at  *)
(* some earlier time, and it only grows.                                   *)
LEMMA LengthStep ==
    ASSUME AuditTypeOK, FileInv, LengthInv, AuditNext
    PROVE  LengthInv'
  <1> DEFINE Goal == /\ head'.len <= Len(log')
                     /\ \A i \in 1 .. Len(log') : log'[i].ended
                     /\ \A q \in Procs : /\ Len(mem'[q].chain) <= Len(log')
                                         /\ mem'[q].pc = "written" => Len(mem'[q].chain) < Len(log')
  <1> SUFFICES ASSUME faulted' \subseteq {"head", "race"} PROVE Goal
    BY DEF LengthInv
  <1>0. faulted \subseteq {"head", "race"}
    BY DEF AuditNext, CreateLog, CreateHead, ReadLog, ReadHead, LockAndRepair, LockRefused, AppendLine,
           AppendLineFails, AppendHead, AppendHeadFails, Exit, TamperLog
  <1>1. /\ head.len <= Len(log)
        /\ \A i \in 1 .. Len(log) : log[i].ended
        /\ \A q \in Procs : /\ Len(mem[q].chain) <= Len(log)
                            /\ mem[q].pc = "written" => Len(mem[q].chain) < Len(log)
    BY <1>0 DEF LengthInv
  <1>2. log \in Seq(Line) /\ Len(log) \in Nat /\ Len(<<>>) = 0 /\ Len(<<>>) <= Len(log)
        /\ \A q \in Procs : Len(mem[q].chain) \in Nat
    BY EmptySeq, MemFacts DEF AuditTypeOK
  <1> USE DEF OthersSame, MemIs
  <1>3. ASSUME NEW p \in Procs, CreateLog(p) \/ ReadHead(p) \/ LockRefused(p) \/ Exit(p) \/ AppendHeadFails(p)
        PROVE  Goal
    <2>1. UNCHANGED <<log, head>>
      BY <1>3 DEF CreateLog, ReadHead, LockRefused, Exit, AppendHeadFails
    <2>2. \E x \in {"creating", "verified", "down", "open"}, c \in {mem[p].chain, <<>>} : MemIs(p, x, c)
      BY <1>3, MemSteps
    <2>. QED
      BY <1>1, <1>2, <2>1, <2>2
  <1>4. ASSUME NEW p \in Procs, CreateHead(p)
        PROVE  Goal
    <2>1. head'.len = 0 /\ UNCHANGED log
      BY <1>4 DEF CreateHead
    <2>. QED
      BY <1>1, <1>2, <1>4, <2>1, MemSteps
  <1>5. ASSUME NEW p \in Procs, ReadLog(p)
        PROVE  Goal
    <2>1. UNCHANGED <<log, head>> /\ Len(EntriesOf(log)) = Len(log)
      BY <1>2, <1>5, EntriesOfSeq DEF ReadLog
    <2>. QED
      BY <1>1, <1>2, <1>5, <2>1, MemSteps
  <1>6. ASSUME NEW p \in Procs, LockAndRepair(p)
        PROVE  Goal
    <2>1. UNCHANGED log /\ head'.len \in {Len(mem[p].chain), head.len}
      BY <1>6 DEF LockAndRepair
    <2>. QED
      BY <1>1, <1>2, <1>6, <2>1, MemSteps
  <1>7. ASSUME NEW p \in Procs, NEW e \in Entries, AppendLine(p, e)
        PROVE  Goal
    <2> DEFINE line == RecordOf(p, e)
    <2>1. line \in Line /\ line.ended
      BY RecordIsLine
    <2>2. log' = AppendBytes(log, line) /\ UNCHANGED head
      BY <1>7 DEF AppendLine
    <2> HIDE DEF line
    <2>3. log' = Append(log, line)
      BY <1>1, <1>2, <2>1, <2>2, AppendBytesFacts
    <2>4. Len(log') = Len(log) + 1 /\ \A i \in 1 .. Len(log') : log'[i].ended
      BY <1>1, <1>2, <2>1, <2>3
    <2>5. head.len \in Nat
      BY DEF AuditTypeOK, HeadRow, NoHead
    <2>6. MemIs(p, "written", mem[p].chain)
      BY <1>7, MemSteps
    <2>. QED
      BY <1>1, <1>2, <2>2, <2>4, <2>5, <2>6
  <1>8. ASSUME NEW p \in Procs, AppendHead(p)
        PROVE  Goal
    <2> DEFINE d == HashAfter(mem[p].chain, mem[p].entry)
    <2>1. /\ mem[p].pc = "written" /\ head'.len = Len(d) /\ Len(d) = Len(mem[p].chain) + 1
          /\ UNCHANGED log
      BY <1>8, AppendHeadFacts
    <2>2. MemIs(p, "open", d)
      BY <1>8, MemSteps
    <2> HIDE DEF d
    <2>. QED
      BY <1>1, <1>2, <2>1, <2>2
  <1>9. ASSUME TamperLog \/ \E p \in Procs, e \in Entries : AppendLineFails(p, e)
        PROVE  Goal
    <2>1. "tamper" \in faulted' \/ "write" \in faulted'
      BY <1>9 DEF TamperLog, AppendLineFails
    <2>2. "tamper" \notin {"head", "race"} /\ "write" \notin {"head", "race"}
      OBVIOUS
    <2>. QED
      BY <2>1, <2>2
  <1>. QED
    BY <1>3, <1>4, <1>5, <1>6, <1>7, <1>8, <1>9 DEF AuditNext

(* No step loses an acknowledged record from the head, or from the chain   *)
(* of a process past the lock.                                             *)
LEMMA AckedStep ==
    ASSUME AuditTypeOK, FileInv, AckedInv, AuditNext
    PROVE  AckedInv'
  <1> USE DEF Live, OthersSame, MemIs
  <1>1. ASSUME NEW p \in Procs,
               CreateLog(p) \/ ReadLog(p) \/ LockRefused(p) \/ Exit(p) \/ AppendHeadFails(p)
        PROVE  AckedInv'
    <2>1. /\ UNCHANGED <<log, head, acked>> /\ faulted \subseteq faulted'
      BY <1>1 DEF CreateLog, ReadLog, LockRefused, Exit, AppendHeadFails
    <2>2. \/ \E x \in {"creating", "down", "read"} : mem'[p].pc = x
          \/ mem[p].pc = "written" /\ mem'[p].pc = "open" /\ mem'[p].chain = mem[p].chain
      BY <1>1, MemSteps DEF AppendHeadFails
    <2>3. OthersSame(p)
      BY <1>1, MemSteps
    <2>. QED
      BY <2>1, <2>2, <2>3 DEF AckedInv, Holds
  <1>2. ASSUME NEW p \in Procs, CreateHead(p)
        PROVE  AckedInv'
    <2>1. UNCHANGED <<log, acked, faulted>> /\ acked = {}
      BY <1>2 DEF CreateHead, FileInv
    <2>2. MemIs(p, "open", mem[p].chain)
      BY <1>2, MemSteps
    <2>. QED
      BY <2>1, <2>2 DEF AckedInv, Holds
  <1>3. ASSUME NEW p \in Procs, ReadHead(p)
        PROVE  AckedInv'
    <2>1. UNCHANGED <<log, head, acked, faulted>>
      BY <1>3 DEF ReadHead
    <2>2. CASE MemIs(p, "down", <<>>)
      BY <2>1, <2>2 DEF AckedInv, Holds
    <2>3. CASE HeadAccepts(head, mem[p].chain) /\ MemIs(p, "verified", mem[p].chain)
      <3>1. ASSUME Holds(head.hash) PROVE Holds(mem[p].chain)
        <4>1. head # NoHead /\ head.len \in 0 .. Len(mem[p].chain)
              /\ SubSeq(mem[p].chain, 1, head.len) = head.hash
          BY <2>3 DEF HeadAccepts, AuditTypeOK, HeadRow
        <4>2. Len(head.hash) = head.len /\ \A i \in 1 .. head.len : head.hash[i] = mem[p].chain[i]
          BY <4>1, MemFacts, PrefixElements
        <4>3. \A a \in acked : a[1] \in Nat /\ a[1] < Len(head.hash) /\ head.hash[a[1] + 1] = a[2]
          BY <3>1 DEF AuditTypeOK, Holds
        <4>4. Len(mem[p].chain) \in Nat
          BY MemFacts
        <4>5. \A a \in acked : a[1] + 1 \in 1 .. head.len /\ a[1] < Len(mem[p].chain)
          BY <4>1, <4>2, <4>3, <4>4
        <4>. QED
          BY <4>2, <4>3, <4>5 DEF Holds
      <3>2. "race" \notin faulted => Holds(mem[p].chain)
        BY <2>3, <3>1 DEF AckedInv, HeadAccepts
      <3>. QED
        BY <2>1, <2>3, <3>2 DEF AckedInv, Holds
    <2>. QED
      BY <1>3, <2>2, <2>3, MemSteps
  <1>4. ASSUME NEW p \in Procs, LockAndRepair(p)
        PROVE  AckedInv'
    <2>1. /\ mem[p].pc = "verified" /\ UNCHANGED <<log, acked>>
          /\ head' = (IF mem[p].headLen # Len(mem[p].chain)
                      THEN [len |-> Len(mem[p].chain), hash |-> mem[p].chain] ELSE head)
          /\ "race" \notin faulted' => /\ WellLinked(log) /\ mem[p].chain = EntriesOf(log)
                                       /\ "race" \notin faulted
      BY <1>4 DEF LockAndRepair
    <2>2. MemIs(p, "open", mem[p].chain)
      BY <1>4, MemSteps
    <2>3. head # NoHead
      BY <2>1 DEF FileInv
    <2>4. "race" \notin faulted' => Holds(mem[p].chain)
      BY <2>1 DEF AckedInv
    <2>5. "race" \notin faulted' => Holds(head'.hash)
      BY <2>1, <2>3, <2>4 DEF AckedInv
    <2>. QED
      BY <2>1, <2>2, <2>3, <2>4, <2>5 DEF AckedInv, Holds
  <1>5. ASSUME NEW p \in Procs, NEW e \in Entries, AppendLine(p, e) \/ AppendLineFails(p, e)
        PROVE  AckedInv'
    <2>1. PICK line \in Line : log' = AppendBytes(log, line) /\ line.prev = mem[p].chain /\ line.entry = e
      <3>1. CASE AppendLine(p, e)
        BY <3>1, RecordIsLine DEF AppendLine
      <3>2. CASE AppendLineFails(p, e)
        <4>1. PICK torn \in BOOLEAN :
                log' = AppendBytes(log, [RecordOf(p, e) EXCEPT !.torn = torn, !.ended = FALSE])
          BY <3>2 DEF AppendLineFails
        <4>. QED
          BY <4>1, RecordIsLine
      <3>. QED
        BY <1>5, <3>1, <3>2
    <2>2. WellLinked(log') => EntriesOf(log') = Append(mem[p].chain, e)
      BY <2>1, AppendBytesFacts DEF AuditTypeOK
    <2>3. /\ mem[p].pc = "open" /\ UNCHANGED <<head, acked>> /\ faulted \subseteq faulted'
      BY <1>5 DEF AppendLine, AppendLineFails
    <2>4. \/ MemIs(p, "written", mem[p].chain) /\ mem'[p].entry = e
          \/ UNCHANGED mem
      BY <1>5, MemSteps DEF AppendLineFails
    <2>5. \A q \in Procs \ {p} : mem[q].pc \notin Live
      BY <2>3 DEF FileInv
    <2>6. Holds(mem[p].chain) => Holds(Append(mem[p].chain, e))
      <3>1. \A a \in acked : a[1] \in Nat
        BY DEF AuditTypeOK
      <3>2. mem[p].chain \in Seq(Payloads) /\ e \in Payloads
        BY MemFacts DEF Payloads
      <3>. QED
        BY <3>1, <3>2 DEF Holds
    <2>7. "race" \notin faulted' => Holds(mem[p].chain) /\ Holds(Append(mem[p].chain, e))
      BY <2>3, <2>6 DEF AckedInv
    <2>8. \A q \in Procs : mem'[q].pc = "written" /\ WellLinked(log') =>
                            EntriesOf(log') = Append(mem'[q].chain, mem'[q].entry)
      BY <2>2, <2>3, <2>4, <2>5
    <2>9. ASSUME "race" \notin faulted'
          PROVE  /\ head # NoHead => Holds(head.hash)
                 /\ \A q \in Procs : /\ mem'[q].pc \in Live => Holds(mem'[q].chain)
                                     /\ mem'[q].pc = "verified" /\ WellLinked(log')
                                           /\ mem'[q].chain = EntriesOf(log') => Holds(mem'[q].chain)
      <3>1. head # NoHead => Holds(head.hash)
        BY <2>3, <2>9 DEF AckedInv
      <3>2. \A q \in Procs : mem'[q].pc \in Live => q = p /\ mem'[q].chain = mem[p].chain
        BY <2>4, <2>5
      <3>. QED
        BY <2>2, <2>7, <2>9, <3>1, <3>2
    <2>. QED
      BY <2>3, <2>8, <2>9 DEF AckedInv, Holds
  <1>6. ASSUME NEW p \in Procs, AppendHead(p)
        PROVE  AckedInv'
    <2> DEFINE c == mem[p].chain
               e == mem[p].entry
               d == HashAfter(c, e)
    <2>1. /\ mem[p].pc = "written" /\ lock = p
          /\ d = Append(c, e) /\ Len(d) = Len(c) + 1 /\ Len(c) \in Nat
          /\ d[Len(c) + 1] = e /\ \A i \in 1 .. Len(c) : d[i] = c[i]
          /\ head'.hash = d
          /\ acked' = acked \cup {<<Len(c), e>>}
          /\ UNCHANGED <<log, faulted>>
      BY <1>6, AppendHeadFacts
    <2>2. MemIs(p, "open", d)
      BY <1>6, MemSteps
    <2>3. \A q \in Procs \ {p} : mem[q].pc \notin Live
      BY <2>1 DEF FileInv
    <2>4. WellLinked(log) => EntriesOf(log) = d
      BY <2>1 DEF AckedInv
    <2>5. "race" \notin faulted => Holds(c)
      BY <2>1 DEF AckedInv
    <2> HIDE DEF d, c, e
    <2>6. ASSUME "race" \notin faulted
          PROVE  \A a \in acked' : a[1] < Len(d) /\ d[a[1] + 1] = a[2]
      <3>1. \A a \in acked : a[1] \in Nat /\ a[1] < Len(c) /\ c[a[1] + 1] = a[2]
        BY <2>5, <2>6 DEF AuditTypeOK, Holds
      <3>2. \A a \in acked : a[1] < Len(d) /\ d[a[1] + 1] = a[2]
        BY <2>1, <3>1
      <3> DEFINE new == <<Len(c), e>>
      <3>3. new[1] = Len(c) /\ new[2] = e /\ Len(c) < Len(d)
        BY <2>1
      <3> HIDE DEF new
      <3>4. acked' = acked \cup {new}
        BY <2>1 DEF new
      <3>. QED
        BY <2>1, <3>2, <3>3, <3>4
    <2>7. \A q \in Procs : /\ mem'[q].pc # "written"
                           /\ mem'[q].pc \in Live => mem'[q].chain = d
                           /\ WellLinked(log') /\ mem'[q].chain = EntriesOf(log') => mem'[q].chain = d
      BY <2>1, <2>2, <2>3, <2>4
    <2>. QED
      BY <2>1, <2>6, <2>7 DEF AckedInv, Holds
  <1>7. ASSUME TamperLog
        PROVE  AckedInv'
    BY <1>7 DEF TamperLog, AckedInv, Holds
  <1>. QED
    BY <1>1, <1>2, <1>3, <1>4, <1>5, <1>6, <1>7 DEF AuditNext

(* As long as nothing but crashes happened, every step leaves log and head *)
(* as open accepts them.                                                   *)
LEMMA CleanStep ==
    ASSUME AuditTypeOK, FileInv, LengthInv, AckedInv, CleanInv, AuditNext
    PROVE  CleanInv'
  <1> DEFINE Goal == /\ WellLinked(log')
                     /\ head'.len <= Len(log') /\ Len(log') <= head'.len + 1
                     /\ SubSeq(EntriesOf(log'), 1, head'.len) = head'.hash
                     /\ \A q \in Procs :
                           /\ mem'[q].pc = "verified" => mem'[q].headLen <= head'.len
                           /\ mem'[q].pc = "open" => mem'[q].chain = EntriesOf(log') /\ head'.len = Len(log')
                           /\ mem'[q].pc = "written" => mem'[q].chain = head'.hash
  <1>0. faulted' = {} => faulted = {}
    BY DEF AuditNext, CreateLog, CreateHead, ReadLog, ReadHead, LockAndRepair, LockRefused, AppendLine,
           AppendLineFails, AppendHead, AppendHeadFails, Exit, TamperLog
  <1>1. AuditTypeOK'
    BY AuditTypeStep
  <1>2. log' \in Seq(Line) /\ Len(EntriesOf(log')) = Len(log')
    BY <1>1, EntriesOfSeq DEF AuditTypeOK
  <1> SUFFICES ASSUME faulted' = {}, head' # NoHead PROVE Goal
    BY <1>2 DEF CleanInv, Openable, HeadAccepts
  <1> HIDE DEF Goal
  <1>3. faulted = {} /\ faulted \subseteq {"head", "race"} /\ "race" \notin faulted
    BY <1>0
  <1>4. log \in Seq(Line) /\ Len(log) \in Nat /\ EntriesOf(log) \in Seq(Payloads)
        /\ Len(EntriesOf(log)) = Len(log)
    BY EntriesOfSeq DEF AuditTypeOK
  <1>5. ASSUME head # NoHead
        PROVE  /\ WellLinked(log)
               /\ head.len <= Len(log) /\ Len(log) <= head.len + 1
               /\ SubSeq(EntriesOf(log), 1, head.len) = head.hash
               /\ \A q \in Procs :
                     /\ mem[q].pc = "verified" => mem[q].headLen <= head.len
                     /\ mem[q].pc = "open" => mem[q].chain = EntriesOf(log) /\ head.len = Len(log)
                     /\ mem[q].pc = "written" => mem[q].chain = head.hash
    BY <1>3, <1>4, <1>5 DEF CleanInv, Openable, HeadAccepts
  <1> USE DEF Live, OthersSame, MemIs
  <1>6. ASSUME NEW p \in Procs, CreateLog(p) \/ ReadLog(p) \/ ReadHead(p) \/ LockRefused(p) \/ Exit(p)
        PROVE  Goal
    <2>1. UNCHANGED <<log, head>>
      BY <1>6 DEF CreateLog, ReadLog, ReadHead, LockRefused, Exit
    <2>2. /\ OthersSame(p)
          /\ \/ mem'[p].pc \in {"creating", "read", "down"}
             \/ mem'[p].pc = "verified" /\ mem'[p].headLen = head.len
      BY <1>6, MemSteps
    <2>3. head.len \in Nat /\ head # NoHead
      BY <2>1 DEF AuditTypeOK, HeadRow, NoHead
    <2>4. \A q \in Procs :
             /\ mem'[q].pc = "verified" => mem'[q].headLen <= head.len
             /\ mem'[q].pc = "open" => mem'[q].chain = EntriesOf(log) /\ head.len = Len(log)
             /\ mem'[q].pc = "written" => mem'[q].chain = head.hash
      <3>1. \A q \in Procs \ {p} : mem'[q] = mem[q]
        BY <2>2
      <3>2. /\ mem'[p].pc \notin {"open", "written"}
            /\ mem'[p].pc = "verified" => mem'[p].headLen <= head.len
        BY <2>2, <2>3
      <3>. QED
        BY <1>5, <2>3, <3>1, <3>2
    <2>. QED
      BY <1>5, <2>1, <2>3, <2>4 DEF Goal
  <1>7. ASSUME NEW p \in Procs, CreateHead(p)
        PROVE  Goal
    <2>1. head = NoHead /\ log = <<>> /\ UNCHANGED log /\ mem[p].chain = <<>>
          /\ head' = [len |-> 0, hash |-> <<>>]
      BY <1>7 DEF CreateHead, FileInv
    <2>2. MemIs(p, "open", mem[p].chain)
      BY <1>7, MemSteps
    <2>3. \A q \in Procs \ {p} : mem[q].pc \in {"down", "read"}
      BY <1>7, <2>1 DEF FileInv, CreateHead
    <2>4. EntriesOf(log) = <<>> /\ WellLinked(log) /\ Len(log) = 0
      <3>1. Len(log) = 0
        BY <2>1
      <3>. QED
        BY <1>4, <3>1 DEF WellLinked
    <2>5. SubSeq(EntriesOf(log), 1, 0) = <<>>
      BY <1>4, <2>4, SubSeqEmpty
    <2>. QED
      BY <2>1, <2>2, <2>3, <2>4, <2>5 DEF Goal
  <1>8. ASSUME NEW p \in Procs, LockAndRepair(p)
        PROVE  Goal
    <2>1. /\ mem[p].pc = "verified" /\ lock = Nobody /\ UNCHANGED log
          /\ head' = (IF mem[p].headLen # Len(mem[p].chain)
                      THEN [len |-> Len(mem[p].chain), hash |-> mem[p].chain] ELSE head)
          /\ mem[p].chain = EntriesOf(log)
      BY <1>8 DEF LockAndRepair
    <2>2. MemIs(p, "open", mem[p].chain) /\ mem'[p].headLen = mem[p].headLen
      BY <1>8, MemSteps, MemSetPc DEF LockAndRepair
    <2>3. head # NoHead
      BY <2>1 DEF FileInv
    <2>4. \A q \in Procs \ {p} : mem[q].pc \notin Live
      BY <2>1, AuditChainAssumption DEF FileInv
    <2>5. head.len \in Nat /\ mem[p].headLen \in Nat
      BY MemFacts DEF AuditTypeOK, HeadRow, NoHead
    <2>6. head'.len = Len(log) /\ head'.hash = EntriesOf(log)
      <3>1. CASE mem[p].headLen # Len(mem[p].chain)
        BY <1>4, <2>1, <3>1
      <3>2. CASE mem[p].headLen = Len(mem[p].chain)
        <4>1. head' = head /\ head.len = Len(log)
          BY <1>4, <1>5, <2>1, <2>3, <2>5, <3>2
        <4>. QED
          BY <1>4, <1>5, <2>3, <4>1, SubSeqFull
      <3>. QED
        BY <3>1, <3>2
    <2>7. SubSeq(EntriesOf(log), 1, Len(log)) = EntriesOf(log)
      BY <1>4, SubSeqFull
    <2>8. \A q \in Procs : mem'[q].pc = "verified" => mem'[q].headLen <= Len(log)
      <3>1. \A q \in Procs : mem[q].headLen \in Nat
        BY MemFacts
      <3>. QED
        BY <1>4, <1>5, <2>2, <2>3, <2>5, <3>1
    <2>. QED
      BY <1>4, <1>5, <2>1, <2>2, <2>3, <2>4, <2>6, <2>7, <2>8 DEF Goal
  <1>9. ASSUME NEW p \in Procs, NEW e \in Entries, AppendLine(p, e)
        PROVE  Goal
    <2> DEFINE line == RecordOf(p, e)
    <2>1. /\ line \in Line /\ ~line.torn /\ line.seq = Len(mem[p].chain)
          /\ line.prev = mem[p].chain /\ line.entry = e /\ e \in Payloads
      BY RecordIsLine DEF Payloads
    <2>2. mem[p].pc = "open" /\ log' = AppendBytes(log, line) /\ UNCHANGED head
      BY <1>9 DEF AppendLine
    <2> HIDE DEF line
    <2>3. log' = Append(log, line)
      BY <1>3, <1>4, <2>1, <2>2, AppendBytesFacts DEF LengthInv
    <2>4. mem[p].chain = EntriesOf(log) /\ head.len = Len(log) /\ head.hash = EntriesOf(log)
      BY <1>4, <1>5, <2>2, SubSeqFull
    <2>5. WellLinked(log') /\ EntriesOf(log') = Append(EntriesOf(log), e)
      BY <1>4, <1>5, <2>1, <2>2, <2>3, <2>4, WellLinkedAppend, EntriesOfAppend
    <2>6. SubSeq(Append(EntriesOf(log), e), 1, Len(log)) = EntriesOf(log)
      BY <1>4, <2>1
    <2>7. Len(log') = Len(log) + 1
      BY <1>4, <2>1, <2>3
    <2>8. MemIs(p, "written", mem[p].chain)
      BY <1>9, MemSteps
    <2>9. \A q \in Procs \ {p} : mem[q].pc \notin Live
      BY <2>2 DEF FileInv
    <2>10. head # NoHead /\ head.len \in Nat
      BY <2>2 DEF AuditTypeOK, HeadRow, NoHead
    <2>11. \A q \in Procs :
              /\ mem'[q].pc = "verified" => mem'[q].headLen <= head.len
              /\ mem'[q].pc # "open"
              /\ mem'[q].pc = "written" => mem'[q].chain = head.hash
      BY <1>5, <2>4, <2>8, <2>9, <2>10
    <2>12. head.len <= Len(log') /\ Len(log') <= head.len + 1
      BY <2>4, <2>7, <2>10
    <2>. QED
      BY <2>2, <2>4, <2>5, <2>6, <2>11, <2>12 DEF Goal
  <1>10. ASSUME NEW p \in Procs, AppendHead(p)
         PROVE  Goal
    <2> DEFINE d == HashAfter(mem[p].chain, mem[p].entry)
    <2>1. /\ mem[p].pc = "written" /\ head # NoHead /\ lock = p
          /\ d = Append(mem[p].chain, mem[p].entry)
          /\ head'.len = Len(d) /\ head'.hash = d /\ UNCHANGED log
      BY <1>10, AppendHeadFacts
    <2>2. MemIs(p, "open", d)
      BY <1>10, MemSteps
    <2>3. WellLinked(log) /\ EntriesOf(log) = d
      BY <1>5, <2>1 DEF AckedInv
    <2> HIDE DEF d
    <2>4. SubSeq(EntriesOf(log), 1, Len(log)) = EntriesOf(log) /\ Len(d) = Len(log)
      BY <1>4, <2>3, SubSeqFull
    <2>5. \A q \in Procs \ {p} : mem[q].pc \notin Live
      BY <2>1 DEF FileInv
    <2>6. head.len \in Nat /\ \A q \in Procs : mem[q].headLen \in Nat
      BY MemFacts DEF AuditTypeOK, HeadRow, NoHead
    <2>7. \A q \in Procs :
             /\ mem'[q].pc = "verified" => mem'[q].headLen <= Len(log)
             /\ mem'[q].pc = "open" => mem'[q].chain = d
             /\ mem'[q].pc # "written"
      <3>1. head.len <= Len(log)
        BY <1>5, <2>1
      <3>2. \A q \in Procs : mem[q].pc = "verified" => mem[q].headLen <= Len(log)
        <4>1. \A q \in Procs : mem[q].pc = "verified" => mem[q].headLen <= head.len
          BY <1>5, <2>1
        <4>. QED
          BY <1>4, <2>6, <3>1, <4>1
      <3>. QED
        BY <2>2, <2>5, <3>2
    <2>8. head'.len = Len(log) /\ head'.hash = EntriesOf(log) /\ log' = log
      BY <2>1, <2>3, <2>4
    <2>9. head'.len <= Len(log') /\ Len(log') <= head'.len + 1
      BY <1>4, <2>8
    <2>. QED
      BY <2>3, <2>4, <2>7, <2>8, <2>9 DEF Goal
  <1>11. ASSUME \/ TamperLog
                \/ \E p \in Procs : AppendHeadFails(p) \/ \E e \in Entries : AppendLineFails(p, e)
         PROVE  Goal
    BY <1>11 DEF TamperLog, AppendHeadFails, AppendLineFails
  <1>. QED
    BY <1>6, <1>7, <1>8, <1>9, <1>10, <1>11 DEF AuditNext

-----------------------------------------------------------------------------
(* The theorems.                                                           *)

(* The inductive invariant holds of every behaviour.                       *)
THEOREM AuditIInvHolds == AuditSpec => []AuditIInv
  <1>1. AuditIInv /\ [AuditNext]_auditVars => AuditIInv'
    <2>1. CASE UNCHANGED auditVars
      BY <2>1 DEF auditVars, AuditIInv, AuditTypeOK, FileInv, LengthInv, AckedInv, Holds, CleanInv, Openable
    <2>2. ASSUME AuditIInv, AuditNext PROVE AuditIInv'
      BY <2>2, AuditTypeStep, FileStep, LengthStep, AckedStep, CleanStep DEF AuditIInv
    <2>. QED
      BY <2>1, <2>2
  <1>. QED
    BY <1>1, AuditInitIInv, PTL DEF AuditSpec

(* The head never commits to more records than the log holds, whichever    *)
(* processes race through open and whichever head could not be replaced.   *)
THEOREM AuditInvHolds == AuditSpec => []AuditInv
  BY AuditIInvHolds, AuditIInvImplies, PTL

(* A chain that open resumes holds every record whose append returned Ok,  *)
(* through crashes, failed writes and edits of the log.                    *)
THEOREM AckedSurviveHolds == AuditSpec => []AckedSurvive
  BY AuditIInvHolds, AuditIInvImplies, PTL

(* Whatever step a process dies in, open accepts what it left behind.      *)
THEOREM OpenAcceptsHolds == AuditSpec => []OpenAccepts
  BY AuditIInvHolds, AuditIInvImplies, PTL
=============================================================================
