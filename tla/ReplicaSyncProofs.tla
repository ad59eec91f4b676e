-------------------------- MODULE ReplicaSyncProofs --------------------------
(***************************************************************************)
(* Proofs about federation sync, for any replicas, nodes, tenants and      *)
(* edges.  merge_node is a join: replicas that fold the same copies of a   *)
(* node end with the same row, whatever the order, the grouping and the    *)
(* repetitions in which the copies reach them, and no fold takes a         *)
(* correction back.  On top of it, merge_bundle keeps the tables sound,    *)
(* can be repeated and never un-corrects.                                  *)
(***************************************************************************)
EXTENDS ReplicaSync, FiniteSetTheorems, WellFoundedInduction, TLAPS

-----------------------------------------------------------------------------
(* The join of two rows.                                                   *)

Statuses == {"Active", "Superseded", "Archived"}

(* The rows of ReplicaSync, with any times, tiers and truth values.        *)
Rows(Truths) == [status : Statuses, validFrom : Nat, validTo : Nat, trust : Nat,
                 conf : SUBSET Truths]

(* The three statuses have three ranks.                                    *)
LEMMA RankInjective ==
    \A s, t \in Statuses :
        /\ Rank(s) \in Nat
        /\ Rank(s) = Rank(t) => s = t
  BY DEF Statuses, Rank

(* The fields of a joined row.                                             *)
LEMMA JoinFields ==
    ASSUME NEW Truths, NEW a \in Rows(Truths), NEW b \in Rows(Truths)
    PROVE  /\ JoinRow(a, b) \in Rows(Truths)
           /\ JoinRow(a, b).status =
                IF Rank(b.status) > Rank(a.status) THEN b.status ELSE a.status
           /\ JoinRow(a, b).validFrom = Earlier(a.validFrom, b.validFrom)
           /\ JoinRow(a, b).validTo =
                IF Rank(b.status) > Rank(a.status) THEN b.validTo
                ELSE IF b.status = a.status THEN Earlier(a.validTo, b.validTo)
                ELSE a.validTo
           /\ JoinRow(a, b).trust = Earlier(a.trust, b.trust)
           /\ JoinRow(a, b).conf = a.conf \cup b.conf
  <1> DEFINE e == IF Rank(b.status) > Rank(a.status) THEN b.validTo
                  ELSE IF b.status = a.status THEN Earlier(a.validTo, b.validTo)
                  ELSE a.validTo
             s == IF Rank(b.status) > Rank(a.status) THEN b.status ELSE a.status
             f == Earlier(a.validFrom, b.validFrom)
             t == Earlier(a.trust, b.trust)
             c == a.conf \cup b.conf
  <1>1. /\ a.status \in Statuses /\ b.status \in Statuses
        /\ a.validFrom \in Nat /\ b.validFrom \in Nat
        /\ a.validTo \in Nat /\ b.validTo \in Nat
        /\ a.trust \in Nat /\ b.trust \in Nat
    BY DEF Rows
  <1>2. \A i, j \in Nat : Earlier(i, j) \in Nat
    BY DEF Earlier
  <1>3. s \in Statuses /\ e \in Nat /\ f \in Nat /\ t \in Nat
    BY <1>1, <1>2
  <1>4. c \in SUBSET Truths
    BY DEF Rows
  <1>5. JoinRow(a, b) = [JoinNode(a, b) EXCEPT !.trust = t, !.conf = c]
    BY Zenon DEF JoinRow, LessTrusted, JoinConfidence
  <1>6. JoinNode(a, b) = [a EXCEPT !.status = s, !.validTo = e, !.validFrom = f]
    BY Zenon DEF JoinNode
  <1> HIDE DEF s, e, f, t, c
  <1>7. /\ JoinNode(a, b) \in Rows(Truths)
        /\ JoinNode(a, b).status = s /\ JoinNode(a, b).validFrom = f
        /\ JoinNode(a, b).validTo = e
    BY <1>3, <1>6 DEF Rows
  <1>8. /\ JoinRow(a, b) \in Rows(Truths)
        /\ JoinRow(a, b).status = s /\ JoinRow(a, b).validFrom = f
        /\ JoinRow(a, b).validTo = e /\ JoinRow(a, b).trust = t
        /\ JoinRow(a, b).conf = c
    BY <1>3, <1>4, <1>5, <1>7 DEF Rows
  <1>9. QED
    BY <1>8, Zenon DEF s, e, f, t, c

(* Two rows of the type with equal fields are equal.                       *)
LEMMA RowsEqual ==
    ASSUME NEW Truths, NEW a \in Rows(Truths), NEW b \in Rows(Truths),
           a.status = b.status, a.validFrom = b.validFrom, a.validTo = b.validTo,
           a.trust = b.trust, a.conf = b.conf
    PROVE  a = b
  BY DEF Rows

(* The order of two copies does not matter.                                *)
THEOREM JoinCommutes ==
    ASSUME NEW Truths, NEW a \in Rows(Truths), NEW b \in Rows(Truths)
    PROVE  JoinRow(a, b) = JoinRow(b, a)
  <1>1. /\ a.status \in Statuses /\ b.status \in Statuses
        /\ a.validFrom \in Nat /\ b.validFrom \in Nat
        /\ a.validTo \in Nat /\ b.validTo \in Nat
        /\ a.trust \in Nat /\ b.trust \in Nat
    BY DEF Rows
  <1>2. \A i, j \in Nat : Earlier(i, j) = Earlier(j, i)
    BY DEF Earlier
  <1>r. /\ Rank(a.status) \in Nat /\ Rank(b.status) \in Nat
        /\ Rank(a.status) = Rank(b.status) => a.status = b.status
    BY <1>1, RankInjective
  <1>3. JoinRow(a, b).status = JoinRow(b, a).status
    BY <1>r, JoinFields
  <1>4. JoinRow(a, b).validTo = JoinRow(b, a).validTo
    BY <1>1, <1>2, <1>r, JoinFields
  <1>5. /\ JoinRow(a, b).validFrom = JoinRow(b, a).validFrom
        /\ JoinRow(a, b).trust = JoinRow(b, a).trust
    BY <1>1, <1>2, JoinFields
  <1>6. JoinRow(a, b).conf = JoinRow(b, a).conf
    <2>1. JoinRow(a, b).conf = a.conf \cup b.conf
      BY JoinFields
    <2>2. JoinRow(b, a).conf = b.conf \cup a.conf
      BY JoinFields
    <2>3. QED
      BY <2>1, <2>2
  <1>7. QED
    BY <1>3, <1>4, <1>5, <1>6, JoinFields, RowsEqual

(* A copy that arrives again changes nothing, even after others were       *)
(* folded in.                                                              *)
THEOREM JoinAbsorbs ==
    ASSUME NEW Truths, NEW a \in Rows(Truths), NEW b \in Rows(Truths)
    PROVE  JoinRow(JoinRow(a, b), b) = JoinRow(a, b)
  <1> DEFINE c == JoinRow(a, b)
  <1>1. /\ a.status \in Statuses /\ b.status \in Statuses
        /\ a.validFrom \in Nat /\ b.validFrom \in Nat
        /\ a.validTo \in Nat /\ b.validTo \in Nat
        /\ a.trust \in Nat /\ b.trust \in Nat
    BY DEF Rows
  <1>2. c \in Rows(Truths)
    BY JoinFields
  <1>3. \A i, j \in Nat : Earlier(Earlier(i, j), j) = Earlier(i, j) /\ Earlier(i, i) = i
    BY DEF Earlier
  <1>4. JoinRow(c, b).status = c.status
    BY <1>1, <1>2, JoinFields, RankInjective
  <1>5. JoinRow(c, b).validTo = c.validTo
    BY <1>1, <1>2, <1>3, JoinFields, RankInjective
  <1>6. JoinRow(c, b).validFrom = c.validFrom /\ JoinRow(c, b).trust = c.trust
    BY <1>1, <1>2, <1>3, JoinFields
  <1>7. JoinRow(c, b).conf = c.conf
    <2>1. c.conf = a.conf \cup b.conf
      BY JoinFields
    <2>2. JoinRow(c, b).conf = c.conf \cup b.conf
      BY <1>2, JoinFields
    <2>3. QED
      BY <2>1, <2>2
  <1>8. QED
    BY <1>2, <1>4, <1>5, <1>6, <1>7, JoinFields, RowsEqual

(* The grouping does not matter: a replica may fold copies that others     *)
(* have folded already.                                                    *)
THEOREM JoinAssociates ==
    ASSUME NEW Truths, NEW a \in Rows(Truths), NEW b \in Rows(Truths),
           NEW c \in Rows(Truths)
    PROVE  JoinRow(JoinRow(a, b), c) = JoinRow(a, JoinRow(b, c))
  <1> DEFINE l == JoinRow(JoinRow(a, b), c)
             r == JoinRow(a, JoinRow(b, c))
  <1>1. /\ a.status \in Statuses /\ b.status \in Statuses /\ c.status \in Statuses
        /\ a.validFrom \in Nat /\ b.validFrom \in Nat /\ c.validFrom \in Nat
        /\ a.validTo \in Nat /\ b.validTo \in Nat /\ c.validTo \in Nat
        /\ a.trust \in Nat /\ b.trust \in Nat /\ c.trust \in Nat
    BY DEF Rows
  <1>2. /\ JoinRow(a, b) \in Rows(Truths) /\ JoinRow(b, c) \in Rows(Truths)
        /\ l \in Rows(Truths) /\ r \in Rows(Truths)
    BY JoinFields
  <1>3. \A i, j, k \in Nat : Earlier(Earlier(i, j), k) = Earlier(i, Earlier(j, k))
    BY DEF Earlier
  <1>r. /\ Rank(a.status) \in Nat /\ Rank(b.status) \in Nat /\ Rank(c.status) \in Nat
        /\ Rank(a.status) = Rank(b.status) => a.status = b.status
        /\ Rank(a.status) = Rank(c.status) => a.status = c.status
        /\ Rank(b.status) = Rank(c.status) => b.status = c.status
    BY <1>1, RankInjective
  <1>4. l.status = r.status
    BY <1>2, <1>r, JoinFields
  <1>5. l.validTo = r.validTo
    BY <1>1, <1>2, <1>3, <1>r, JoinFields
  <1>6. l.validFrom = r.validFrom /\ l.trust = r.trust
    BY <1>1, <1>2, <1>3, JoinFields
  <1>7. l.conf = r.conf
    <2>1. l.conf = (a.conf \cup b.conf) \cup c.conf
      BY <1>2, JoinFields
    <2>2. r.conf = a.conf \cup (b.conf \cup c.conf)
      BY <1>2, JoinFields
    <2>3. QED
      BY <2>1, <2>2
  <1>8. QED
    BY <1>2, <1>4, <1>5, <1>6, <1>7, RowsEqual

(* A fold never takes a correction back: the status never returns towards  *)
(* Active, and the trust never rises above that of either copy.            *)
THEOREM JoinOnlyCorrects ==
    ASSUME NEW Truths, NEW a \in Rows(Truths), NEW b \in Rows(Truths)
    PROVE  /\ Rank(JoinRow(a, b).status) >= Rank(a.status)
           /\ Rank(JoinRow(a, b).status) >= Rank(b.status)
           /\ JoinRow(a, b).trust <= a.trust /\ JoinRow(a, b).trust <= b.trust
  <1>1. /\ a.status \in Statuses /\ b.status \in Statuses
        /\ a.trust \in Nat /\ b.trust \in Nat
    BY DEF Rows
  <1>2. /\ Rank(JoinRow(a, b).status) >= Rank(a.status)
        /\ Rank(JoinRow(a, b).status) >= Rank(b.status)
    <2>1. Rank(a.status) \in Nat /\ Rank(b.status) \in Nat
      BY <1>1, RankInjective
    <2>2. QED
      BY <2>1, JoinFields
  <1>3. JoinRow(a, b).trust <= a.trust /\ JoinRow(a, b).trust <= b.trust
    BY <1>1, JoinFields DEF Earlier
  <1>4. QED
    BY <1>2, <1>3

(* A copy folded into itself is itself.                                    *)
LEMMA JoinSelf ==
    ASSUME NEW Truths, NEW a \in Rows(Truths)
    PROVE  JoinRow(a, a) = a
  <1>1. /\ a.status \in Statuses /\ a.validFrom \in Nat /\ a.validTo \in Nat
        /\ a.trust \in Nat /\ a.conf \subseteq Truths
    BY DEF Rows
  <1>2. \A i \in Nat : Earlier(i, i) = i
    BY DEF Earlier
  <1>3. JoinRow(a, a) \in Rows(Truths)
    BY JoinFields
  <1>4. /\ JoinRow(a, a).status = a.status /\ JoinRow(a, a).validFrom = a.validFrom
        /\ JoinRow(a, a).validTo = a.validTo /\ JoinRow(a, a).trust = a.trust
        /\ JoinRow(a, a).conf = a.conf
    <2>1. ~(Rank(a.status) > Rank(a.status))
      BY <1>1, RankInjective
    <2>2. /\ JoinRow(a, a).status =
               IF Rank(a.status) > Rank(a.status) THEN a.status ELSE a.status
          /\ JoinRow(a, a).validFrom = Earlier(a.validFrom, a.validFrom)
          /\ JoinRow(a, a).validTo =
               IF Rank(a.status) > Rank(a.status) THEN a.validTo
               ELSE IF a.status = a.status THEN Earlier(a.validTo, a.validTo)
               ELSE a.validTo
          /\ JoinRow(a, a).trust = Earlier(a.trust, a.trust)
          /\ JoinRow(a, a).conf = a.conf \cup a.conf
      BY JoinFields
    <2> QED
      BY <1>1, <1>2, <2>1, <2>2
  <1> QED
    BY <1>3, <1>4, RowsEqual

(* A row that has absorbed an Active copy still does once it is retired.   *)
LEMMA RetiredAbsorbs ==
    ASSUME NEW Truths, NEW a \in Rows(Truths), NEW b \in Rows(Truths), NEW x \in Rows(Truths),
           JoinRow(a, b) = a, a.status = "Active", x.status = "Superseded",
           x.validFrom = a.validFrom, x.trust = a.trust, x.conf = a.conf
    PROVE  JoinRow(x, b) = x
  <1>1. a.status \in Statuses /\ b.status \in Statuses
    BY DEF Rows
  <1>2. b.status = "Active"
    <2>1. ~(Rank(b.status) > Rank(a.status))
      BY <1>1, RankInjective, JoinFields
    <2> QED
      BY <1>1, <2>1 DEF Rank, Statuses
  <1>3. ~(Rank(b.status) > Rank(x.status)) /\ b.status # x.status
    BY <1>2 DEF Rank
  <1>4. /\ Earlier(a.validFrom, b.validFrom) = a.validFrom
        /\ Earlier(a.trust, b.trust) = a.trust /\ a.conf \cup b.conf = a.conf
    BY JoinFields
  <1>5. JoinRow(x, b) \in Rows(Truths)
    BY JoinFields
  <1>6. /\ JoinRow(x, b).status = x.status /\ JoinRow(x, b).validFrom = x.validFrom
        /\ JoinRow(x, b).validTo = x.validTo /\ JoinRow(x, b).trust = x.trust
        /\ JoinRow(x, b).conf = x.conf
    <2>1. /\ JoinRow(x, b).status =
               IF Rank(b.status) > Rank(x.status) THEN b.status ELSE x.status
          /\ JoinRow(x, b).validFrom = Earlier(x.validFrom, b.validFrom)
          /\ JoinRow(x, b).validTo =
               IF Rank(b.status) > Rank(x.status) THEN b.validTo
               ELSE IF b.status = x.status THEN Earlier(x.validTo, b.validTo)
               ELSE x.validTo
          /\ JoinRow(x, b).trust = Earlier(x.trust, b.trust)
          /\ JoinRow(x, b).conf = x.conf \cup b.conf
      BY JoinFields
    <2> QED
      BY <1>3, <1>4, <2>1
  <1> QED
    BY <1>5, <1>6, RowsEqual

-----------------------------------------------------------------------------
(* Counting up.                                                            *)

(* What holds at 0 and passes from each number to the next holds up to any *)
(* number: a set of numbers has a least one.                               *)
LEMMA CountingUp ==
    ASSUME NEW L \in Nat, NEW T, 0 \in T, \A n \in 1 .. L : n - 1 \in T => n \in T
    PROVE  \A n \in 0 .. L : n \in T
  <1> DEFINE R == {ss \in Nat \X Nat : ss[1] < ss[2]}
             F == {n \in 0 .. L : n \notin T}
  <1>1. IsWellFoundedOn(R, Nat)
    BY NatLessThanWellFounded, Zenon DEF OpToRel
  <1>2. SUFFICES ASSUME F # {}
                 PROVE  FALSE
    OBVIOUS
  <1>3. F \subseteq Nat
    OBVIOUS
  <1> HIDE DEF R, F
  <1>4. PICK n \in F : \A m \in F : <<m, n>> \notin R
    BY <1>1, <1>2, <1>3, WFMin
  <1>5. n \in 0 .. L /\ n \notin T /\ n # 0
    BY <1>4 DEF F
  <1>6. n - 1 \in F
    BY <1>5 DEF F
  <1>7. <<n - 1, n>> \in R
    BY <1>5 DEF R
  <1> QED
    BY <1>4, <1>6, <1>7

-----------------------------------------------------------------------------
(* Tables.                                                                 *)

(* The rows of one replica, or of a bundle: only retired ones have an end  *)
(* of validity.                                                            *)
Sound(t) ==
    /\ t \in Tables
    /\ \A id \in Ids :
          t.nodes[id].validTo # Open => t.nodes[id].status \in {"Superseded", "Archived"}

SyncIInv ==
    /\ db \in [Replicas -> Tables]
    /\ \A r \in Replicas : Sound(db[r])
    /\ \A b \in bundles : Sound(b)
    /\ IsFiniteSet(bundles) /\ Cardinality(bundles) <= MaxExports
    /\ writes \in 0 .. MaxWrites

(* Times and the open end are numbers, and edges join nodes.               *)
LEMMA SyncFacts ==
    /\ Time \subseteq Nat /\ 0 \in Time /\ Open \in Nat /\ Open \notin Time
    /\ Len(EdgeOrder) \in Nat
    /\ \A n \in 1 .. Len(EdgeOrder) : EdgeOrder[n] \in Edges
    /\ \A e \in Edges : e \in Ids \X Ids /\ e[1] \in Ids /\ e[2] \in Ids
  <1>1. /\ Time \subseteq Nat /\ 0 \in Time /\ Open \in Nat /\ Open \notin Time
    BY ReplicaSyncAssumption DEF Time, Open
  <1>2. Len(EdgeOrder) \in Nat /\ \A n \in 1 .. Len(EdgeOrder) : EdgeOrder[n] \in Ids \X Ids
    BY ReplicaSyncAssumption
  <1> QED
    BY <1>1, <1>2 DEF Edges

(* A row that is there is one of the rows that are joined.                 *)
LEMMA PresentRow ==
    ASSUME NEW row \in Row, row.status # "Absent"
    PROVE  row \in Rows({"True", "False"})
  BY SyncFacts DEF Row, Rows, Statuses

(* The join of two sound rows is a sound row.                              *)
LEMMA JoinSound ==
    ASSUME NEW a \in Row, NEW b \in Row, a.status # "Absent", b.status # "Absent",
           a.validTo # Open => a.status \in {"Superseded", "Archived"},
           b.validTo # Open => b.status \in {"Superseded", "Archived"}
    PROVE  /\ JoinRow(a, b) \in Row
           /\ JoinRow(a, b).status # "Absent"
           /\ JoinRow(a, b).validTo # Open =>
                 JoinRow(a, b).status \in {"Superseded", "Archived"}
           /\ Rank(JoinRow(a, b).status) >= Rank(a.status)
  <1> DEFINE c == JoinRow(a, b)
  <1>1. a \in Rows({"True", "False"}) /\ b \in Rows({"True", "False"})
    BY PresentRow
  <1>2. /\ c \in Rows({"True", "False"})
        /\ c.status = IF Rank(b.status) > Rank(a.status) THEN b.status ELSE a.status
        /\ c.validFrom = Earlier(a.validFrom, b.validFrom)
        /\ c.validTo = IF Rank(b.status) > Rank(a.status) THEN b.validTo
                       ELSE IF b.status = a.status THEN Earlier(a.validTo, b.validTo)
                       ELSE a.validTo
    BY <1>1, JoinFields
  <1>3. Rank(c.status) >= Rank(a.status)
    BY <1>1, JoinOnlyCorrects
  <1> HIDE DEF c
  <1>4. /\ a.validFrom \in Time /\ b.validFrom \in Time
        /\ a.validTo \in Time \cup {Open} /\ b.validTo \in Time \cup {Open}
    BY DEF Row
  <1>5. c.validFrom \in Time
    BY <1>2, <1>4 DEF Earlier
  <1>6. c.validTo \in Time \cup {Open} /\ (c.validTo # Open => c.status \in {"Superseded", "Archived"})
    BY <1>2, <1>4 DEF Earlier
  <1>7. c.status \in {"Active", "Superseded", "Archived"} /\ c.trust \in Nat
        /\ c.conf \in SUBSET {"True", "False"}
    BY <1>2 DEF Rows, Statuses
  <1>8. c = [status |-> c.status, validFrom |-> c.validFrom, validTo |-> c.validTo,
             trust |-> c.trust, conf |-> c.conf]
    BY <1>2 DEF Rows
  <1>9. c \in Row
    BY <1>5, <1>6, <1>7, <1>8 DEF Row
  <1> QED
    BY <1>3, <1>6, <1>7, <1>9 DEF c

-----------------------------------------------------------------------------
(* The steps of merge_bundle.                                              *)

(* What the supersessions of a bundle may do to the tables: retire Active  *)
(* nodes and confirm the bundle's edges.                                   *)
Grows(b, t, u) ==
    /\ \A id \in Ids :
          \/ u.nodes[id] = t.nodes[id]
          \/ /\ t.nodes[id].status = "Active" /\ u.nodes[id].status = "Superseded"
             /\ u.nodes[id].validFrom = t.nodes[id].validFrom
             /\ u.nodes[id].trust = t.nodes[id].trust
             /\ u.nodes[id].conf = t.nodes[id].conf
    /\ \A e \in Edges :
          \/ u.edges[e] = t.edges[e]
          \/ /\ b.edges[e].state = "Confirmed"
             /\ u.edges[e] = [state |-> "Confirmed", at |-> b.edges[e].at]

(* The fields of the tables.                                               *)
LEMMA TableFields ==
    ASSUME NEW t \in Tables
    PROVE  /\ t = [nodes |-> t.nodes, edges |-> t.edges]
           /\ t.nodes \in [Ids -> Row] /\ t.edges \in [Edges -> EdgeRow]
           /\ \A id \in Ids : t.nodes[id] \in Row
           /\ \A e \in Edges : /\ t.edges[e] \in EdgeRow /\ t.edges[e].at \in Time
                               /\ t.edges[e].state \in {"Absent", "Quarantined", "Confirmed"}
  BY DEF Tables, EdgeRow

(* What grows twice has grown.                                             *)
LEMMA GrowsTransitive ==
    ASSUME NEW b, NEW t, NEW u, NEW v, Grows(b, t, u), Grows(b, u, v)
    PROVE  Grows(b, t, v)
  <1>1. ASSUME NEW id \in Ids
        PROVE  \/ v.nodes[id] = t.nodes[id]
               \/ /\ t.nodes[id].status = "Active" /\ v.nodes[id].status = "Superseded"
                  /\ v.nodes[id].validFrom = t.nodes[id].validFrom
                  /\ v.nodes[id].trust = t.nodes[id].trust
                  /\ v.nodes[id].conf = t.nodes[id].conf
    BY DEF Grows
  <1>2. ASSUME NEW e \in Edges
        PROVE  \/ v.edges[e] = t.edges[e]
               \/ /\ b.edges[e].state = "Confirmed"
                  /\ v.edges[e] = [state |-> "Confirmed", at |-> b.edges[e].at]
    BY DEF Grows
  <1> QED
    BY <1>1, <1>2 DEF Grows

(* apply_supersession keeps the tables sound, retires the superseded node  *)
(* and stores the edge.                                                    *)
LEMMA SupersedeSound ==
    ASSUME NEW t, Sound(t), NEW e \in Edges, NEW at \in Time, Has(t, e[2])
    PROVE  LET u == Supersede(t, e, at)
           IN  /\ Sound(u)
               /\ u.nodes[e[2]].status # "Active"
               /\ t.nodes[e[2]].status # "Active" => u.nodes = t.nodes
               /\ u.edges = [t.edges EXCEPT ![e] = [state |-> "Confirmed", at |-> at]]
               /\ \A id \in Ids :
                     \/ u.nodes[id] = t.nodes[id]
                     \/ /\ t.nodes[id].status = "Active" /\ u.nodes[id].status = "Superseded"
                        /\ u.nodes[id].validFrom = t.nodes[id].validFrom
                        /\ u.nodes[id].trust = t.nodes[id].trust
                        /\ u.nodes[id].conf = t.nodes[id].conf
  <1> DEFINE y == t.nodes[e[2]]
             z == [y EXCEPT !.status = "Superseded",
                            !.validTo = IF at > y.validFrom THEN at ELSE y.validFrom]
             ns == IF y.status = "Active" THEN [t.nodes EXCEPT ![e[2]] = z] ELSE t.nodes
             es == [t.edges EXCEPT ![e] = [state |-> "Confirmed", at |-> at]]
  <1>1. Supersede(t, e, at) = [nodes |-> ns, edges |-> es]
    BY DEF Supersede
  <1>2. t \in Tables /\ e[2] \in Ids
    BY SyncFacts DEF Sound
  <1>3. y \in Row /\ t.nodes \in [Ids -> Row] /\ t.edges \in [Edges -> EdgeRow]
    BY <1>2, TableFields
  <1>4. z \in Row /\ z.status = "Superseded" /\ z.validTo # Open
        /\ z.validFrom = y.validFrom /\ z.trust = y.trust /\ z.conf = y.conf
    <2>1. y.validFrom \in Time
      BY <1>3 DEF Row
    <2>2. (IF at > y.validFrom THEN at ELSE y.validFrom) \in Time
      BY <2>1
    <2> QED
      BY <1>3, <2>2, SyncFacts DEF Row
  <1> HIDE DEF z
  <1>5. ns \in [Ids -> Row] /\ es \in [Edges -> EdgeRow]
    BY <1>3, <1>4 DEF EdgeRow
  <1>6. \A id \in Ids :
           \/ ns[id] = t.nodes[id]
           \/ t.nodes[id].status = "Active" /\ ns[id] = z /\ id = e[2]
    BY <1>3
  <1>7. ns[e[2]].status # "Active"
    BY <1>2, <1>3, <1>4
  <1>8. \A id \in Ids : ns[id].validTo # Open => ns[id].status \in {"Superseded", "Archived"}
    BY <1>4, <1>6 DEF Sound
  <1> HIDE DEF ns, es
  <1>9. Sound(Supersede(t, e, at))
    BY <1>1, <1>5, <1>8 DEF Sound, Tables
  <1> QED
    BY <1>1, <1>4, <1>6, <1>7, <1>9 DEF ns, es

(* One of the bundle's supersessions, applied or refused.                  *)
LEMMA ApplyConfirmedGrows ==
    ASSUME NEW t, Sound(t), NEW b \in Tables, NEW e \in Edges
    PROVE  Sound(ApplyConfirmed(t, b, e)) /\ Grows(b, t, ApplyConfirmed(t, b, e))
  <1>1. CASE ~(b.edges[e].state = "Confirmed" /\ MaySupersede(t, e))
    BY <1>1 DEF ApplyConfirmed, Grows
  <1>2. CASE b.edges[e].state = "Confirmed" /\ MaySupersede(t, e)
    <2> DEFINE u == Supersede(t, e, b.edges[e].at)
    <2>1. ApplyConfirmed(t, b, e) = u
      BY <1>2 DEF ApplyConfirmed
    <2>2. b.edges[e].at \in Time /\ Has(t, e[2]) /\ t.edges \in [Edges -> EdgeRow]
      BY <1>2, TableFields DEF MaySupersede, Sound
    <2>3. /\ Sound(u)
          /\ u.edges = [t.edges EXCEPT ![e] = [state |-> "Confirmed", at |-> b.edges[e].at]]
          /\ \A id \in Ids :
                \/ u.nodes[id] = t.nodes[id]
                \/ /\ t.nodes[id].status = "Active" /\ u.nodes[id].status = "Superseded"
                   /\ u.nodes[id].validFrom = t.nodes[id].validFrom
                   /\ u.nodes[id].trust = t.nodes[id].trust
                   /\ u.nodes[id].conf = t.nodes[id].conf
      BY <2>2, SupersedeSound
    <2> HIDE DEF u
    <2>4. \A f \in Edges :
             \/ u.edges[f] = t.edges[f]
             \/ /\ b.edges[f].state = "Confirmed"
                /\ u.edges[f] = [state |-> "Confirmed", at |-> b.edges[f].at]
      BY <1>2, <2>2, <2>3
    <2> QED
      BY <2>1, <2>3, <2>4 DEF Grows
  <1> QED
    BY <1>1, <1>2

(* The tables after each of the bundle's supersessions, in key order.      *)
Applied(g, t, b) ==
    /\ g[0] = t
    /\ \A n \in 1 .. Len(EdgeOrder) : g[n] = ApplyConfirmed(g[n - 1], b, EdgeOrder[n])

(* The loop over the supersessions is well defined: the recursive function *)
(* exists, since it can be built up to any index.                          *)
LEMMA LoopDefined ==
    ASSUME NEW t, NEW b
    PROVE  \E g : Applied(g, t, b) /\ MergeSupersessions(t, b) = g[Len(EdgeOrder)]
  <1> DEFINE L == Len(EdgeOrder)
             Body(g) == [n \in 0 .. L |->
                           IF n = 0 THEN t ELSE ApplyConfirmed(g[n - 1], b, EdgeOrder[n])]
             Begun(g, n) == g[0] = t /\ \A i \in 1 .. n :
                                g[i] = ApplyConfirmed(g[i - 1], b, EdgeOrder[i])
             T == {n \in 0 .. L : \E g : Begun(g, n)}
             c == CHOOSE g : g = Body(g)
  <1>1. L \in Nat
    BY SyncFacts
  <1>2. 0 \in T
    <2>1. Begun([i \in 0 .. 0 |-> t], 0)
      OBVIOUS
    <2>2. 0 \in 0 .. L
      BY <1>1
    <2> HIDE DEF Begun, L
    <2> QED
      BY <2>1, <2>2, Zenon
  <1>3. ASSUME NEW n \in 1 .. L, n - 1 \in T
        PROVE  n \in T
    <2>1. PICK g : Begun(g, n - 1)
      BY <1>3
    <2> DEFINE h == [i \in 0 .. n |-> IF i = n THEN ApplyConfirmed(g[n - 1], b, EdgeOrder[n])
                                      ELSE g[i]]
    <2>2. h[0] = t
      BY <2>1
    <2>3. ASSUME NEW i \in 1 .. n
          PROVE  h[i] = ApplyConfirmed(h[i - 1], b, EdgeOrder[i])
      <3>1. h[i - 1] = g[i - 1]
        OBVIOUS
      <3>2. CASE i = n
        BY <3>1, <3>2
      <3>3. CASE i # n
        <4>1. i \in 1 .. n - 1 /\ h[i] = g[i]
          BY <3>3
        <4> QED
          BY <2>1, <3>1, <4>1
      <3> QED
        BY <3>2, <3>3
    <2>4. Begun(h, n)
      BY <2>2, <2>3
    <2>5. n \in 0 .. L
      BY <1>1
    <2> HIDE DEF Begun, L, h
    <2> QED
      BY <2>4, <2>5, Zenon
  <1>4. L \in T
    <2> HIDE DEF T, L
    <2>1. \A n \in 1 .. L : n - 1 \in T => n \in T
      BY <1>3
    <2>2. \A n \in 0 .. L : n \in T
      BY <1>1, <1>2, <2>1, CountingUp
    <2> QED
      BY <1>1, <2>2
  <1>5. PICK g : Begun(g, L)
    BY <1>4
  <1> DEFINE h == [n \in 0 .. L |-> g[n]]
  <1>6. h = Body(h)
    <2>1. ASSUME NEW n \in 0 .. L
          PROVE  h[n] = Body(h)[n]
      <3>1. CASE n = 0
        BY <1>5, <3>1
      <3>2. CASE n # 0
        <4>1. n \in 1 .. L /\ n - 1 \in 0 .. L /\ h[n - 1] = g[n - 1]
          BY <1>1, <3>2
        <4>2. h[n] = ApplyConfirmed(g[n - 1], b, EdgeOrder[n])
          BY <1>5, <4>1
        <4>3. Body(h)[n] = ApplyConfirmed(h[n - 1], b, EdgeOrder[n])
          BY <3>2
        <4> QED
          BY <4>1, <4>2, <4>3
      <3> QED
        BY <3>1, <3>2
    <2> QED
      BY <2>1
  <1> HIDE DEF h
  <1>7. c = Body(c)
    BY <1>6
  <1>8. MergeSupersessions(t, b) = c[L]
    BY DEF MergeSupersessions
  <1> HIDE DEF c
  <1>9. Applied(c, t, b)
    <2>1. c[0] = t
      BY <1>1, <1>7
    <2>2. ASSUME NEW n \in 1 .. L
          PROVE  c[n] = ApplyConfirmed(c[n - 1], b, EdgeOrder[n])
      BY <1>7
    <2> QED
      BY <2>1, <2>2 DEF Applied
  <1> QED
    BY <1>8, <1>9

(* Along the loop the tables stay sound and only grow.                     *)
LEMMA LoopGrows ==
    ASSUME NEW t, Sound(t), NEW b \in Tables, NEW g, Applied(g, t, b),
           NEW n \in 0 .. Len(EdgeOrder), NEW m \in 0 .. Len(EdgeOrder)
    PROVE  Sound(g[m]) /\ (n <= m => Grows(b, g[n], g[m]))
  <1> DEFINE L == Len(EdgeOrder)
             T == {i \in 0 .. L : Sound(g[i])}
             U == {i \in 0 .. L : n <= i => Grows(b, g[n], g[i])}
  <1>1. L \in Nat
    BY SyncFacts
  <1>2. 0 \in T
    BY <1>1 DEF Applied
  <1>3. ASSUME NEW i \in 1 .. L, Sound(g[i - 1])
        PROVE  Sound(g[i]) /\ Grows(b, g[i - 1], g[i])
    <2>1. g[i] = ApplyConfirmed(g[i - 1], b, EdgeOrder[i]) /\ EdgeOrder[i] \in Edges
      BY SyncFacts DEF Applied
    <2> QED
      BY <1>3, <2>1, ApplyConfirmedGrows
  <1>4. ASSUME NEW i \in 1 .. L, i - 1 \in T
        PROVE  i \in T
    BY <1>1, <1>3, <1>4
  <1>5. \A i \in 0 .. L : i \in T
    <2> HIDE DEF T, L
    <2> QED
      BY <1>1, <1>2, <1>4, CountingUp
  <1>6. ASSUME NEW v
        PROVE  Grows(b, v, v)
    BY DEF Grows
  <1>7. 0 \in U
    BY <1>1, <1>6
  <1>8. ASSUME NEW i \in 1 .. L, i - 1 \in U
        PROVE  i \in U
    <2>1. i \in 0 .. L /\ i - 1 \in 0 .. L
      BY <1>1
    <2>2. Grows(b, g[i - 1], g[i])
      BY <1>3, <1>5, <2>1
    <2>3. CASE n = i
      BY <2>1, <2>3, <1>6
    <2>4. CASE n # i
      <3>1. n <= i => Grows(b, g[n], g[i - 1])
        BY <1>1, <1>8, <2>1, <2>4
      <3>2. n <= i => Grows(b, g[n], g[i])
        BY <2>2, <3>1, GrowsTransitive
      <3> QED
        BY <2>1, <3>2
    <2> QED
      BY <2>3, <2>4
  <1>9. \A i \in 0 .. L : i \in U
    <2> HIDE DEF U, L
    <2> QED
      BY <1>1, <1>7, <1>8, CountingUp
  <1> QED
    BY <1>5, <1>9

(* The node loop, cut short or not: a row stays, comes from the bundle or  *)
(* is the join of the two.                                                 *)
LEMMA MergeNodesSound ==
    ASSUME NEW t, Sound(t), NEW b, Sound(b), NEW ids \in SUBSET Ids
    PROVE  LET u == MergeNodes(t, b, ids)
           IN  /\ Sound(u) /\ u.edges = t.edges
               /\ \A id \in Ids : u.nodes[id] =
                     IF id \notin ids \/ ~Has(b, id) THEN t.nodes[id]
                     ELSE IF ~Has(t, id) THEN b.nodes[id]
                     ELSE JoinRow(t.nodes[id], b.nodes[id])
               /\ \A id \in Ids : Has(t, id) =>
                     Has(u, id) /\ Rank(u.nodes[id].status) >= Rank(t.nodes[id].status)
               /\ \A id \in ids : Has(b, id) => Has(u, id)
  <1> DEFINE u == MergeNodes(t, b, ids)
             New(id) == IF id \notin ids \/ ~Has(b, id) THEN t.nodes[id]
                        ELSE IF ~Has(t, id) THEN b.nodes[id]
                        ELSE JoinRow(t.nodes[id], b.nodes[id])
  <1>1. t \in Tables /\ b \in Tables
    BY DEF Sound
  <1>2. u = [nodes |-> [id \in Ids |-> New(id)], edges |-> t.edges]
    <2>1. t = [nodes |-> t.nodes, edges |-> t.edges]
      BY <1>1, TableFields
    <2> QED
      BY <2>1 DEF MergeNodes
  <1>3. ASSUME NEW id \in Ids
        PROVE  /\ New(id) \in Row
               /\ New(id).validTo # Open => New(id).status \in {"Superseded", "Archived"}
               /\ Has(t, id) => /\ New(id).status # "Absent"
                                /\ Rank(New(id).status) >= Rank(t.nodes[id].status)
               /\ id \in ids /\ Has(b, id) => New(id).status # "Absent"
    <2> DEFINE x == t.nodes[id]
               y == b.nodes[id]
    <2>1. /\ x \in Row /\ y \in Row
          /\ x.validTo # Open => x.status \in {"Superseded", "Archived"}
          /\ y.validTo # Open => y.status \in {"Superseded", "Archived"}
      BY <1>1, TableFields DEF Sound
    <2>2. Has(t, id) => Rank(x.status) \in Nat
      BY <2>1 DEF Has, Row, Rank
    <2>3. CASE id \notin ids \/ ~Has(b, id)
      BY <2>1, <2>2, <2>3 DEF Has
    <2>4. CASE id \in ids /\ Has(b, id) /\ ~Has(t, id)
      BY <2>1, <2>4 DEF Has
    <2>5. CASE id \in ids /\ Has(b, id) /\ Has(t, id)
      <3>1. New(id) = JoinRow(x, y) /\ x.status # "Absent" /\ y.status # "Absent"
        BY <2>5 DEF Has
      <3>2. /\ JoinRow(x, y) \in Row /\ JoinRow(x, y).status # "Absent"
            /\ JoinRow(x, y).validTo # Open =>
                  JoinRow(x, y).status \in {"Superseded", "Archived"}
            /\ Rank(JoinRow(x, y).status) >= Rank(x.status)
        <4> HIDE DEF x, y
        <4> QED
          BY <2>1, <3>1, JoinSound
      <3> HIDE DEF New
      <3> QED
        BY <3>1, <3>2
    <2> QED
      BY <2>3, <2>4, <2>5
  <1>4. \A id \in Ids : u.nodes[id] = New(id)
    BY <1>2
  <1>5. u.edges = t.edges /\ t.edges \in [Edges -> EdgeRow]
    BY <1>1, <1>2, TableFields
  <1>6. u \in Tables
    <2> HIDE DEF New, u
    <2> QED
      BY <1>2, <1>3, <1>5 DEF Tables
  <1>7. /\ Sound(u)
        /\ \A id \in Ids : Has(t, id) =>
              Has(u, id) /\ Rank(u.nodes[id].status) >= Rank(t.nodes[id].status)
        /\ \A id \in ids : Has(b, id) => Has(u, id)
    <2> HIDE DEF New, u
    <2>1. \A id \in Ids : Has(u, id) <=> New(id).status # "Absent"
      BY <1>4 DEF Has
    <2> QED
      BY <1>3, <1>4, <1>6, <2>1 DEF Sound
  <1> QED
    BY <1>4, <1>5, <1>7

(* Merging proposals touches edges only; one the bundle proposes is stored *)
(* afterwards, and a confirmed one stays so.                               *)
LEMMA MergeProposalsSound ==
    ASSUME NEW t, Sound(t), NEW b, Sound(b)
    PROVE  LET u == MergeProposals(t, b)
           IN  /\ Sound(u) /\ u.nodes = t.nodes
               /\ \A e \in Edges : u.edges[e] =
                     IF b.edges[e].state = "Quarantined"
                     THEN MergedProposal(t.edges[e], b.edges[e]) ELSE t.edges[e]
               /\ \A e \in Edges : t.edges[e].state = "Confirmed" =>
                     u.edges[e].state = "Confirmed"
               /\ \A e \in Edges : b.edges[e].state = "Quarantined" =>
                     MergedProposal(u.edges[e], b.edges[e]) = u.edges[e]
  <1> DEFINE u == MergeProposals(t, b)
             New(e) == IF b.edges[e].state = "Quarantined"
                       THEN MergedProposal(t.edges[e], b.edges[e]) ELSE t.edges[e]
  <1>1. t \in Tables /\ b \in Tables
    BY DEF Sound
  <1>2. u = [nodes |-> t.nodes, edges |-> [e \in Edges |-> New(e)]]
    <2>1. t = [nodes |-> t.nodes, edges |-> t.edges]
      BY <1>1, TableFields
    <2> QED
      BY <2>1 DEF MergeProposals
  <1>3. ASSUME NEW e \in Edges
        PROVE  /\ New(e) \in EdgeRow
               /\ t.edges[e].state = "Confirmed" => New(e).state = "Confirmed"
               /\ b.edges[e].state = "Quarantined" =>
                     MergedProposal(New(e), b.edges[e]) = New(e)
    <2> DEFINE x == t.edges[e]
               y == b.edges[e]
    <2>1. x \in EdgeRow /\ y \in EdgeRow
      BY <1>1, TableFields
    <2> HIDE DEF x, y
    <2>2. /\ x.at \in Time /\ y.at \in Time /\ y = [state |-> y.state, at |-> y.at]
          /\ x.state \in {"Absent", "Quarantined", "Confirmed"}
      BY <2>1 DEF EdgeRow
    <2>3. /\ Earlier(x.at, y.at) \in Time
          /\ Earlier(Earlier(x.at, y.at), y.at) = Earlier(x.at, y.at)
          /\ Earlier(y.at, y.at) = y.at
      BY <2>2, SyncFacts DEF Earlier
    <2>4. CASE y.state = "Quarantined" /\ x.state # "Absent"
      <3>1. MergedProposal(x, y) = [state |-> x.state, at |-> Earlier(x.at, y.at)]
        BY <2>4 DEF MergedProposal
      <3>2. MergedProposal(MergedProposal(x, y), y) = MergedProposal(x, y)
        BY <2>3, <2>4, <3>1 DEF MergedProposal
      <3>3. MergedProposal(x, y) \in EdgeRow
        BY <2>2, <2>3, <3>1 DEF EdgeRow
      <3>4. New(e) = MergedProposal(x, y)
        BY <2>4 DEF x, y
      <3> HIDE DEF New
      <3> QED
        BY <3>1, <3>2, <3>3, <3>4 DEF x, y
    <2>5. CASE y.state = "Quarantined" /\ x.state = "Absent"
      <3>1. MergedProposal(x, y) = y /\ MergedProposal(y, y) = y
        BY <2>2, <2>3, <2>5 DEF MergedProposal
      <3>2. New(e) = y
        BY <2>5, <3>1 DEF x, y
      <3> HIDE DEF New
      <3> QED
        BY <2>1, <2>5, <3>1, <3>2 DEF x, y
    <2>6. CASE y.state # "Quarantined"
      BY <2>1, <2>6 DEF x, y
    <2> QED
      BY <2>4, <2>5, <2>6
  <1>4. u.nodes = t.nodes /\ \A e \in Edges : u.edges[e] = New(e)
    BY <1>2
  <1>5. u \in Tables
    <2>1. t.nodes \in [Ids -> Row]
      BY <1>1, TableFields
    <2> HIDE DEF New, u
    <2> QED
      BY <1>2, <1>3, <2>1 DEF Tables
  <1>6. Sound(u)
    BY <1>4, <1>5 DEF Sound
  <1>7. /\ \A e \in Edges : t.edges[e].state = "Confirmed" => u.edges[e].state = "Confirmed"
        /\ \A e \in Edges : b.edges[e].state = "Quarantined" =>
              MergedProposal(u.edges[e], b.edges[e]) = u.edges[e]
    <2> HIDE DEF New, u
    <2> QED
      BY <1>3, <1>4
  <1> QED
    BY <1>4, <1>6, <1>7

-----------------------------------------------------------------------------
(* merge_bundle.                                                           *)

(* A merge keeps the tables sound, no status goes back and no confirmed    *)
(* edge is a proposal again.                                               *)
LEMMA MergeBundleSound ==
    ASSUME NEW t, Sound(t), NEW b, Sound(b)
    PROVE  LET u == MergeBundle(t, b)
           IN  /\ Sound(u)
               /\ \A id \in Ids : Has(t, id) =>
                     Rank(u.nodes[id].status) >= Rank(t.nodes[id].status)
               /\ \A e \in Edges : t.edges[e].state = "Confirmed" =>
                     u.edges[e].state = "Confirmed"
  <1>1. CASE ~Resolvable(t, b)
    <2>1. MergeBundle(t, b) = t
      BY <1>1 DEF MergeBundle
    <2>2. \A id \in Ids : Has(t, id) => Rank(t.nodes[id].status) \in Nat
      BY TableFields DEF Sound, Has, Row, Rank
    <2>3. \A id \in Ids : Has(t, id) => Rank(t.nodes[id].status) >= Rank(t.nodes[id].status)
      BY <2>2
    <2> QED
      BY <2>1, <2>3
  <1>2. CASE Resolvable(t, b)
    <2> DEFINE v == MergeNodes(t, b, Ids)
               w == MergeProposals(v, b)
               L == Len(EdgeOrder)
    <2>1. MergeBundle(t, b) = MergeSupersessions(w, b)
      BY <1>2 DEF MergeBundle
    <2>2. /\ Sound(v) /\ v.edges = t.edges
          /\ \A id \in Ids : Has(t, id) =>
                Has(v, id) /\ Rank(v.nodes[id].status) >= Rank(t.nodes[id].status)
      BY MergeNodesSound
    <2> HIDE DEF v
    <2>3. /\ Sound(w) /\ w.nodes = v.nodes
          /\ \A e \in Edges : v.edges[e].state = "Confirmed" => w.edges[e].state = "Confirmed"
      BY <2>2, MergeProposalsSound
    <2> HIDE DEF w
    <2>4. PICK g : Applied(g, w, b) /\ MergeSupersessions(w, b) = g[L]
      BY LoopDefined
    <2>5. L \in Nat /\ 0 \in 0 .. L /\ L \in 0 .. L /\ 0 <= L /\ g[0] = w /\ b \in Tables
      BY <2>4, SyncFacts DEF Applied, Sound
    <2> HIDE DEF L
    <2>6. Sound(g[L]) /\ Grows(b, w, g[L])
      BY <2>3, <2>4, <2>5, LoopGrows DEF L
    <2> DEFINE u == g[L]
    <2> HIDE DEF u
    <2>7. ASSUME NEW id \in Ids, Has(t, id)
          PROVE  Rank(u.nodes[id].status) >= Rank(t.nodes[id].status)
      <3>1. /\ t.nodes[id].status \in Statuses /\ w.nodes[id].status \in Statuses
            /\ Rank(w.nodes[id].status) >= Rank(t.nodes[id].status)
        BY <2>2, <2>3, <2>7, TableFields DEF Sound, Has, Row, Statuses
      <3>2. \/ u.nodes[id] = w.nodes[id]
            \/ w.nodes[id].status = "Active" /\ u.nodes[id].status = "Superseded"
        BY <2>6 DEF Grows, u
      <3> QED
        BY <3>1, <3>2 DEF Rank, Statuses
    <2>8. ASSUME NEW e \in Edges, t.edges[e].state = "Confirmed"
          PROVE  u.edges[e].state = "Confirmed"
      <3>1. w.edges[e].state = "Confirmed"
        BY <2>2, <2>3, <2>8
      <3>2. \/ u.edges[e] = w.edges[e]
            \/ u.edges[e] = [state |-> "Confirmed", at |-> b.edges[e].at]
        BY <2>6 DEF Grows, u
      <3> QED
        BY <3>1, <3>2
    <2> QED
      BY <2>1, <2>4, <2>6, <2>7, <2>8 DEF u
  <1> QED
    BY <1>1, <1>2

(* A walk that finds a node still finds it when there are more edges.      *)
LEMMA ReachesGrows ==
    ASSUME NEW b, NEW t, NEW u, Grows(b, t, u), NEW from, NEW to, Reaches(t, from, to)
    PROVE  Reaches(u, from, to)
  <1>1. ASSUME NEW e \in Edges, t.edges[e].state # "Absent"
        PROVE  u.edges[e].state # "Absent"
    <2>1. \/ u.edges[e] = t.edges[e]
          \/ u.edges[e] = [state |-> "Confirmed", at |-> b.edges[e].at]
      BY DEF Grows
    <2> QED
      BY <1>1, <2>1
  <1> QED
    BY <1>1 DEF Reaches

(* Merging a bundle again changes nothing: the rows have absorbed the      *)
(* bundle's, the edges its proposals, and a supersession that was refused  *)
(* is refused again.                                                       *)
LEMMA MergeBundleIdempotent ==
    ASSUME NEW t, Sound(t), NEW b, Sound(b)
    PROVE  MergeBundle(MergeBundle(t, b), b) = MergeBundle(t, b)
  <1>1. CASE ~Resolvable(t, b)
    BY <1>1 DEF MergeBundle
  <1>2. CASE Resolvable(t, b)
    <2> DEFINE v == MergeNodes(t, b, Ids)
               w == MergeProposals(v, b)
               L == Len(EdgeOrder)
    <2>1. MergeBundle(t, b) = MergeSupersessions(w, b)
      BY <1>2 DEF MergeBundle
    <2>2. /\ Sound(v)
          /\ \A id \in Ids : v.nodes[id] =
                IF id \notin Ids \/ ~Has(b, id) THEN t.nodes[id]
                ELSE IF ~Has(t, id) THEN b.nodes[id]
                ELSE JoinRow(t.nodes[id], b.nodes[id])
          /\ \A id \in Ids : Has(t, id) => Has(v, id)
          /\ \A id \in Ids : Has(b, id) => Has(v, id)
      BY MergeNodesSound
    <2> HIDE DEF v
    <2>3. /\ Sound(w) /\ w.nodes = v.nodes
          /\ \A e \in Edges : b.edges[e].state = "Quarantined" =>
                MergedProposal(w.edges[e], b.edges[e]) = w.edges[e]
      BY <2>2, MergeProposalsSound
    <2> HIDE DEF w
    <2>4. PICK g : Applied(g, w, b) /\ MergeSupersessions(w, b) = g[L]
      BY LoopDefined
    <2>5. L \in Nat /\ 0 \in 0 .. L /\ L \in 0 .. L /\ 0 <= L /\ g[0] = w /\ b \in Tables
      BY <2>4, SyncFacts DEF Applied, Sound
    <2> HIDE DEF L
    <2> DEFINE u == g[L]
    <2>6. Sound(u) /\ Grows(b, w, u)
      BY <2>3, <2>4, <2>5, LoopGrows DEF L
    <2>7. MergeBundle(t, b) = u
      BY <2>1, <2>4
    <2>8. /\ u \in Tables /\ u = [nodes |-> u.nodes, edges |-> u.edges]
          /\ u.nodes \in [Ids -> Row] /\ u.edges \in [Edges -> EdgeRow]
      BY <2>6, TableFields DEF Sound
    <2>9. \A id \in Ids : Has(w, id) => Has(u, id)
      BY <2>6 DEF Grows, Has
    <2>a. Resolvable(u, b)
      <3>1. \A id \in Ids : Has(t, id) => Has(u, id)
        BY <2>2, <2>3, <2>9 DEF Has
      <3> QED
        BY <1>2, <3>1, SyncFacts DEF Resolvable
    <2>b. MergeNodes(u, b, Ids) = u
      <3>1. ASSUME NEW id \in Ids, Has(b, id)
            PROVE  Has(u, id) /\ JoinRow(u.nodes[id], b.nodes[id]) = u.nodes[id]
        <4> DEFINE x == t.nodes[id]
                   y == b.nodes[id]
                   z == v.nodes[id]
                   q == u.nodes[id]
        <4>1. Has(u, id) /\ Has(v, id)
          BY <2>2, <2>3, <2>9, <3>1 DEF Has
        <4>2. /\ y \in Rows({"True", "False"}) /\ z \in Rows({"True", "False"})
              /\ q \in Rows({"True", "False"})
          BY <2>2, <2>8, <3>1, <4>1, PresentRow, TableFields DEF Sound, Has
        <4>3. z = IF ~Has(t, id) THEN y ELSE JoinRow(x, y)
          BY <2>2, <3>1
        <4>4. Has(t, id) => x \in Rows({"True", "False"})
          BY PresentRow, TableFields DEF Sound, Has
        <4>5. \/ q = z
              \/ /\ z.status = "Active" /\ q.status = "Superseded"
                 /\ q.validFrom = z.validFrom /\ q.trust = z.trust /\ q.conf = z.conf
          BY <2>3, <2>6 DEF Grows
        <4> HIDE DEF x, y, z, q
        <4>6. JoinRow(z, y) = z
          BY <4>2, <4>3, <4>4, JoinSelf, JoinAbsorbs
        <4>7. JoinRow(q, y) = q
          BY <4>2, <4>5, <4>6, RetiredAbsorbs
        <4> QED
          BY <4>1, <4>7 DEF q, y
      <3>2. \A id \in Ids :
               (IF id \notin Ids \/ ~Has(b, id) THEN u.nodes[id]
                ELSE IF ~Has(u, id) THEN b.nodes[id]
                ELSE JoinRow(u.nodes[id], b.nodes[id])) = u.nodes[id]
        BY <3>1
      <3> HIDE DEF u
      <3>3. MergeNodes(u, b, Ids).edges = u.edges
            /\ MergeNodes(u, b, Ids) \in Tables
            /\ \A id \in Ids : MergeNodes(u, b, Ids).nodes[id] = u.nodes[id]
        BY <2>6, <3>2, MergeNodesSound DEF Sound
      <3>4. MergeNodes(u, b, Ids).nodes = u.nodes
        BY <2>8, <3>3, TableFields
      <3> QED
        BY <2>8, <3>3, <3>4, TableFields
    <2>c. MergeProposals(u, b) = u
      <3>1. ASSUME NEW e \in Edges, b.edges[e].state = "Quarantined"
            PROVE  MergedProposal(u.edges[e], b.edges[e]) = u.edges[e]
        <4>1. u.edges[e] = w.edges[e]
          BY <2>6, <3>1 DEF Grows
        <4> QED
          BY <2>3, <3>1, <4>1
      <3> HIDE DEF u
      <3>2. /\ MergeProposals(u, b) \in Tables /\ MergeProposals(u, b).nodes = u.nodes
            /\ \A e \in Edges : MergeProposals(u, b).edges[e] = u.edges[e]
        BY <2>6, <3>1, MergeProposalsSound DEF Sound
      <3>3. MergeProposals(u, b).edges = u.edges
        BY <2>8, <3>2, TableFields
      <3> QED
        BY <2>8, <3>2, <3>3, TableFields
    <2>d. ASSUME NEW n \in 1 .. L
          PROVE  ApplyConfirmed(u, b, EdgeOrder[n]) = u
      <3> DEFINE e == EdgeOrder[n]
      <3>1. SUFFICES ASSUME b.edges[e].state = "Confirmed", MaySupersede(u, e)
                     PROVE  Supersede(u, e, b.edges[e].at) = u
        BY DEF ApplyConfirmed
      <3>2. n \in 0 .. L /\ n - 1 \in 0 .. L /\ n - 1 <= L /\ n <= L /\ n - 1 <= n /\ 0 <= n - 1
        BY <2>5
      <3>3. e \in Edges /\ e[1] \in Ids /\ e[2] \in Ids
        BY SyncFacts DEF L
      <3>4. Sound(g[n - 1]) /\ Grows(b, g[n - 1], u) /\ Grows(b, g[n], u)
        BY <2>3, <2>4, <2>5, <3>2, LoopGrows DEF L
      <3>5. MaySupersede(g[n - 1], e)
        <4>1. \A id \in Ids : Has(u, id) => Has(g[n - 1], id)
          BY <3>4 DEF Grows, Has
        <4>2. ~Reaches(g[n - 1], e[2], e[1])
          BY <3>1, <3>4, ReachesGrows DEF MaySupersede
        <4> QED
          BY <3>1, <3>3, <4>1, <4>2 DEF MaySupersede
      <3>6. g[n] = Supersede(g[n - 1], e, b.edges[e].at)
        <4>1. g[n] = ApplyConfirmed(g[n - 1], b, e)
          BY <2>4 DEF Applied, L
        <4> QED
          BY <3>1, <3>5, <4>1 DEF ApplyConfirmed
      <3>7. b.edges[e].at \in Time
        BY <2>5, <3>3, TableFields
      <3>8. /\ g[n].nodes[e[2]].status # "Active"
            /\ g[n].edges[e] = [state |-> "Confirmed", at |-> b.edges[e].at]
        <4>1. Has(g[n - 1], e[2]) /\ g[n - 1].edges \in [Edges -> EdgeRow]
          BY <3>4, <3>5, TableFields DEF MaySupersede, Sound
        <4>2. /\ g[n].nodes[e[2]].status # "Active"
              /\ g[n].edges = [g[n - 1].edges EXCEPT
                                  ![e] = [state |-> "Confirmed", at |-> b.edges[e].at]]
          BY <3>3, <3>4, <3>6, <3>7, <4>1, SupersedeSound
        <4> QED
          BY <3>3, <4>1, <4>2
      <3>9. /\ u.nodes[e[2]].status # "Active"
            /\ u.edges[e] = [state |-> "Confirmed", at |-> b.edges[e].at]
        BY <3>3, <3>4, <3>8 DEF Grows
      <3> HIDE DEF u
      <3> QED
        BY <2>8, <3>3, <3>9 DEF Supersede
    <2>e. MergeSupersessions(u, b) = u
      <3>1. PICK h : Applied(h, u, b) /\ MergeSupersessions(u, b) = h[L]
        BY LoopDefined DEF L
      <3> HIDE DEF u
      <3> DEFINE T == {n \in 0 .. L : h[n] = u}
      <3>2. 0 \in T
        BY <2>5, <3>1 DEF Applied
      <3>3. ASSUME NEW n \in 1 .. L, n - 1 \in T
            PROVE  n \in T
        <4>1. h[n] = ApplyConfirmed(h[n - 1], b, EdgeOrder[n]) /\ h[n - 1] = u
          BY <3>1, <3>3 DEF Applied, L
        <4> QED
          BY <2>5, <2>d, <4>1
      <3>4. \A n \in 0 .. L : n \in T
        <4> HIDE DEF T
        <4> QED
          BY <2>5, <3>2, <3>3, CountingUp
      <3> QED
        BY <2>5, <3>1, <3>4
    <2> HIDE DEF u
    <2> QED
      BY <2>7, <2>a, <2>b, <2>c, <2>e DEF MergeBundle
  <1> QED
    BY <1>1, <1>2

-----------------------------------------------------------------------------
(* The replicas.                                                           *)

(* A bundle of sound tables is sound.                                      *)
LEMMA BundleSound ==
    ASSUME NEW t, Sound(t), NEW repo
    PROVE  Sound(BundleOf(t, repo))
  <1> DEFINE b == BundleOf(t, repo)
  <1>1. NoRow \in Row /\ NoEdge \in EdgeRow
    BY SyncFacts DEF NoRow, Row, NoEdge, EdgeRow
  <1>2. t.nodes \in [Ids -> Row] /\ t.edges \in [Edges -> EdgeRow]
    BY TableFields DEF Sound
  <1>3. b \in Tables
    BY <1>1, <1>2 DEF BundleOf, Tables
  <1>4. \A id \in Ids : b.nodes[id] = t.nodes[id] \/ b.nodes[id] = NoRow
    BY DEF BundleOf
  <1>5. NoRow.validTo = Open /\ NoRow.status = "Absent"
    BY DEF NoRow
  <1> HIDE DEF b
  <1> QED
    BY <1>3, <1>4, <1>5 DEF Sound, b

(* A replica writes a sound value of its own tables.                       *)
LEMMA ReplicaWrites ==
    ASSUME SyncIInv, NEW r \in Replicas, NEW t, Sound(t),
           db' = [db EXCEPT ![r] = t], UNCHANGED bundles, writes' \in 0 .. MaxWrites
    PROVE  SyncIInv'
  <1>1. t \in Tables
    BY DEF Sound
  <1>2. db' \in [Replicas -> Tables] /\ \A s \in Replicas : db'[s] = db[s] \/ db'[s] = t
    BY <1>1 DEF SyncIInv
  <1>3. \A s \in Replicas : Sound(db'[s])
    BY <1>2 DEF SyncIInv
  <1> QED
    BY <1>2, <1>3 DEF SyncIInv

(* A local write is one of the bounded number.                             *)
LEMMA LocalWriteCounts ==
    ASSUME SyncIInv, LocalWrite
    PROVE  UNCHANGED bundles /\ writes' \in 0 .. MaxWrites
  BY ReplicaSyncAssumption DEF SyncIInv, LocalWrite

(* put_node of a minted row, also over a row that was retired.             *)
LEMMA LocalPutKeeps ==
    ASSUME SyncIInv, NEW r \in Replicas, NEW id \in Ids, NEW row \in Minted[id],
           LocalPut(r, id, row)
    PROVE  SyncIInv'
  <1> DEFINE t == [db[r] EXCEPT !.nodes[id] = row]
  <1>1. db' = [db EXCEPT ![r] = t] /\ UNCHANGED bundles /\ writes' \in 0 .. MaxWrites
    BY LocalWriteCounts DEF LocalPut
  <1>2. row \in Row /\ row.validTo = Open
    BY ReplicaSyncAssumption, SyncFacts DEF MintedRow, Row
  <1>3. /\ db[r] = [nodes |-> db[r].nodes, edges |-> db[r].edges]
        /\ db[r].nodes \in [Ids -> Row] /\ db[r].edges \in [Edges -> EdgeRow]
    BY TableFields DEF SyncIInv
  <1>4. t = [nodes |-> [db[r].nodes EXCEPT ![id] = row], edges |-> db[r].edges]
    BY <1>3
  <1> HIDE DEF t
  <1>5. Sound(t)
    BY <1>2, <1>3, <1>4 DEF Sound, Tables, SyncIInv
  <1> QED
    BY <1>1, <1>5, ReplicaWrites

(* A proposal is an edge row.                                              *)
LEMMA LocalProposeKeeps ==
    ASSUME SyncIInv, NEW r \in Replicas, NEW e \in Edges, NEW at \in Time,
           LocalPropose(r, e, at)
    PROVE  SyncIInv'
  <1> DEFINE t == [db[r] EXCEPT !.edges[e] = [state |-> "Quarantined", at |-> at]]
  <1>1. db' = [db EXCEPT ![r] = t] /\ UNCHANGED bundles /\ writes' \in 0 .. MaxWrites
    BY LocalWriteCounts DEF LocalPropose
  <1>2. [state |-> "Quarantined", at |-> at] \in EdgeRow
    BY DEF EdgeRow
  <1>3. /\ db[r] = [nodes |-> db[r].nodes, edges |-> db[r].edges]
        /\ db[r].nodes \in [Ids -> Row] /\ db[r].edges \in [Edges -> EdgeRow]
    BY TableFields DEF SyncIInv
  <1>4. t = [nodes |-> db[r].nodes,
             edges |-> [db[r].edges EXCEPT ![e] = [state |-> "Quarantined", at |-> at]]]
    BY <1>3
  <1> HIDE DEF t
  <1>5. Sound(t)
    BY <1>2, <1>3, <1>4 DEF Sound, Tables, SyncIInv
  <1> QED
    BY <1>1, <1>5, ReplicaWrites

(* A supersession retires a node that is there.                            *)
LEMMA LocalSupersedeKeeps ==
    ASSUME SyncIInv, NEW r \in Replicas, NEW e \in Edges, NEW at \in Time,
           LocalSupersede(r, e, at)
    PROVE  SyncIInv'
  <1>1. /\ db' = [db EXCEPT ![r] = Supersede(db[r], e, at)]
        /\ UNCHANGED bundles /\ writes' \in 0 .. MaxWrites
    BY LocalWriteCounts DEF LocalSupersede
  <1>2. Sound(db[r]) /\ Has(db[r], e[2])
    BY DEF SyncIInv, LocalSupersede, MaySupersede
  <1>3. Sound(Supersede(db[r], e, at))
    BY <1>2, SupersedeSound
  <1> QED
    BY <1>1, <1>3, ReplicaWrites

(* An archived row is a retired one.                                       *)
LEMMA LocalArchiveKeeps ==
    ASSUME SyncIInv, NEW r \in Replicas, NEW id \in Ids, NEW now \in Time,
           LocalArchive(r, id, now)
    PROVE  SyncIInv'
  <1> DEFINE row == [db[r].nodes[id] EXCEPT !.status = "Archived", !.validTo = now]
             t == [nodes |-> [db[r].nodes EXCEPT ![id] = row], edges |-> db[r].edges]
  <1>1. /\ db[r] = [nodes |-> db[r].nodes, edges |-> db[r].edges]
        /\ db[r].nodes \in [Ids -> Row] /\ db[r].edges \in [Edges -> EdgeRow]
        /\ db[r].nodes[id] \in Row
    BY TableFields DEF SyncIInv
  <1>2. row \in Row /\ row.status = "Archived" /\ row.validTo # Open
    BY <1>1, SyncFacts DEF Row
  <1>3. db' = [db EXCEPT ![r] = t] /\ UNCHANGED bundles /\ writes' \in 0 .. MaxWrites
    <2> DEFINE d == [db EXCEPT ![r].nodes[id].status = "Archived"]
    <2>1. /\ db' = [d EXCEPT ![r].nodes[id].validTo = now]
          /\ UNCHANGED bundles /\ writes' \in 0 .. MaxWrites
      BY LocalWriteCounts DEF LocalArchive
    <2>2. db \in [Replicas -> Tables]
      BY DEF SyncIInv
    <2>3. /\ d \in [Replicas -> {d[s] : s \in Replicas}]
          /\ \A s \in Replicas : s # r => d[s] = db[s]
          /\ d[r].edges = db[r].edges
          /\ d[r].nodes = [db[r].nodes EXCEPT ![id].status = "Archived"]
          /\ d[r] = [nodes |-> d[r].nodes, edges |-> d[r].edges]
      BY <1>1, <2>2
    <2> HIDE DEF d
    <2>4. /\ db' \in [Replicas -> {db'[s] : s \in Replicas}]
          /\ \A s \in Replicas : s # r => db'[s] = db[s]
          /\ db'[r] = [nodes |-> [d[r].nodes EXCEPT ![id].validTo = now], edges |-> d[r].edges]
      BY <2>1, <2>3
    <2>5. [d[r].nodes EXCEPT ![id].validTo = now] = [db[r].nodes EXCEPT ![id] = row]
      BY <1>1, <2>3
    <2>6. db'[r] = t
      BY <2>3, <2>4, <2>5
    <2> HIDE DEF t
    <2> QED
      BY <2>1, <2>2, <2>4, <2>6
  <1> HIDE DEF row
  <1>4. Sound(t)
    BY <1>1, <1>2 DEF Sound, Tables, SyncIInv
  <1> HIDE DEF t
  <1> QED
    BY <1>3, <1>4, ReplicaWrites

(* The inductive invariant: with the bundles under way, which were sound   *)
(* tables when they were exported.                                         *)
THEOREM SyncIInvHolds == SyncSpec => []SyncIInv
  <1>1. SyncInit => SyncIInv
    <2> SUFFICES ASSUME SyncInit
                 PROVE  SyncIInv
      OBVIOUS
    <2> DEFINE empty == [nodes |-> [id \in Ids |-> NoRow], edges |-> [e \in Edges |-> NoEdge]]
    <2>1. NoRow \in Row /\ NoEdge \in EdgeRow /\ NoRow.validTo = Open /\ NoRow.status = "Absent"
      BY SyncFacts DEF NoRow, Row, NoEdge, EdgeRow
    <2>2. Sound(empty)
      BY <2>1 DEF Sound, Tables
    <2>3. db = [r \in Replicas |-> empty] /\ bundles = {} /\ writes = 0
      BY DEF SyncInit
    <2> HIDE DEF empty
    <2>4. /\ IsFiniteSet(bundles) /\ Cardinality(bundles) <= MaxExports
          /\ writes \in 0 .. MaxWrites
      BY <2>3, FS_EmptySet, ReplicaSyncAssumption
    <2> QED
      BY <2>2, <2>3, <2>4 DEF SyncIInv, Sound
  <1>2. SyncIInv /\ [SyncNext]_syncVars => SyncIInv'
    <2> SUFFICES ASSUME SyncIInv, [SyncNext]_syncVars
                 PROVE  SyncIInv'
      OBVIOUS
    <2>1. ASSUME NEW r \in Replicas, NEW repo \in Repos, Export(r, repo)
          PROVE  SyncIInv'
      <3>1. Sound(BundleOf(db[r], repo))
        BY BundleSound DEF SyncIInv
      <3>2. IsFiniteSet(bundles')
        BY <2>1, FS_AddElement DEF Export, SyncIInv
      <3> QED
        BY <2>1, <3>1, <3>2 DEF Export, SyncIInv
    <2>2. ASSUME NEW r \in Replicas, NEW b \in bundles, Merge(r, b)
          PROVE  SyncIInv'
      <3>1. /\ db' = [db EXCEPT ![r] = MergeBundle(db[r], b)]
            /\ UNCHANGED bundles /\ writes' \in 0 .. MaxWrites
        BY <2>2 DEF Merge, SyncIInv
      <3>2. Sound(db[r]) /\ Sound(b)
        BY DEF SyncIInv
      <3>3. Sound(MergeBundle(db[r], b))
        BY <3>2, MergeBundleSound
      <3> QED
        BY <3>1, <3>3, ReplicaWrites
    <2>3. ASSUME NEW r \in Replicas, NEW b \in bundles, NEW ids \in SUBSET Ids,
                 MergeInterrupted(r, b, ids)
          PROVE  SyncIInv'
      <3>1. /\ db' = [db EXCEPT ![r] = MergeNodes(db[r], b, ids)]
            /\ UNCHANGED bundles /\ writes' \in 0 .. MaxWrites
        BY <2>3 DEF MergeInterrupted, SyncIInv
      <3>2. Sound(db[r]) /\ Sound(b)
        BY DEF SyncIInv
      <3>3. Sound(MergeNodes(db[r], b, ids))
        BY <3>2, MergeNodesSound
      <3> QED
        BY <3>1, <3>3, ReplicaWrites
    <2>5. ASSUME NEW b \in bundles, Lose(b)
          PROVE  SyncIInv'
      <3>1. /\ IsFiniteSet(bundles') /\ Cardinality(bundles') = Cardinality(bundles) - 1
            /\ Cardinality(bundles) \in Nat
        BY <2>5, FS_RemoveElement, FS_CardinalityType DEF Lose, SyncIInv
      <3>2. bundles' \subseteq bundles /\ UNCHANGED <<db, writes>>
        BY <2>5 DEF Lose
      <3> QED
        BY <3>1, <3>2, ReplicaSyncAssumption DEF SyncIInv
    <2>4. CASE UNCHANGED syncVars
      BY <2>4 DEF SyncIInv, syncVars
    <2> QED
      BY <2>1, <2>2, <2>3, <2>4, <2>5, LocalPutKeeps, LocalProposeKeeps, LocalSupersedeKeeps,
         LocalArchiveKeeps DEF SyncNext
  <1> QED
    BY <1>1, <1>2, PTL DEF SyncSpec

(* On every replica the tables are typed, what is current has no end of    *)
(* validity, and a bundle that arrives again at once changes nothing       *)
(* (merge_bundle).                                                         *)
THEOREM SyncInvHolds == SyncSpec => []SyncInv
  <1>1. SyncIInv => SyncInv
    <2> SUFFICES ASSUME SyncIInv
                 PROVE  SyncInv
      OBVIOUS
    <2>1. SyncTypeOK
      BY DEF SyncTypeOK, SyncIInv, Sound
    <2>2. ASSUME NEW r \in Replicas, NEW b \in bundles
          PROVE  MergeBundle(MergeBundle(db[r], b), b) = MergeBundle(db[r], b)
      <3>1. Sound(db[r]) /\ Sound(b)
        BY DEF SyncIInv
      <3> QED
        BY <3>1, MergeBundleIdempotent
    <2> QED
      BY <2>1, <2>2 DEF SyncInv, MergeIdempotent
  <1> QED
    BY <1>1, SyncIInvHolds, PTL

(* No merge, however late the bundle, takes back a status or a confirmed   *)
(* edge (merge_bundle, merge_node).                                        *)
THEOREM MergeOnlyCorrectsHolds == SyncSpec => []MergeOnlyCorrects
  <1>1. SyncIInv => MergeOnlyCorrects
    <2> SUFFICES ASSUME SyncIInv, NEW r \in Replicas, NEW b \in bundles
                 PROVE  /\ \A id \in Ids : Has(db[r], id) =>
                             Rank(MergeBundle(db[r], b).nodes[id].status)
                                >= Rank(db[r].nodes[id].status)
                        /\ \A e \in Edges : db[r].edges[e].state = "Confirmed" =>
                             MergeBundle(db[r], b).edges[e].state = "Confirmed"
      BY DEF MergeOnlyCorrects
    <2>1. Sound(db[r]) /\ Sound(b)
      BY DEF SyncIInv
    <2> QED
      BY <2>1, MergeBundleSound
  <1> QED
    BY <1>1, SyncIInvHolds, PTL
=============================================================================
