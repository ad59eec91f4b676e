------------------------------- MODULE NodeJoin -------------------------------
(***************************************************************************)
(* join.rs of crates/mem-assert: how two copies of one content-addressed   *)
(* node are folded into one.  Both write paths that can meet a node the    *)
(* store already has use it: apply_diff (McpSessions) and merge_bundle     *)
(* (ReplicaSync).                                                          *)
(*                                                                         *)
(* Times are numbers; a validity that has not ended is a number greater    *)
(* than every time, which is how Option::or and min treat None.  A trust   *)
(* tier is its rank in trust_conservatism.  One dimension of confidence is *)
(* the set of truth values it was told: Neither, True, False and Both are  *)
(* the four sets, and the Belnap join is their union.  Embedding,          *)
(* signature and anchors are folded by a minimum and a union likewise and  *)
(* are left out.                                                           *)
(***************************************************************************)
EXTENDS Naturals

(* status_rank *)
Rank(status) == CASE status = "Active" -> 0
                  [] status = "Superseded" -> 1
                  [] status = "Archived" -> 2

Earlier(x, y) == IF x <= y THEN x ELSE y

(* Mutant: the receiver's end of validity stays when the status moves on.  *)
JoinNodeKeepEnd(row, n) ==
    [row EXCEPT
       !.status = IF Rank(n.status) > Rank(row.status) THEN n.status ELSE row.status,
       !.validTo = IF n.status = row.status THEN Earlier(row.validTo, n.validTo)
                   ELSE row.validTo,
       !.validFrom = Earlier(row.validFrom, n.validFrom)]

(* merge_node on status and validity: the higher status with its end of    *)
(* validity; of equal ones the earlier end; the earlier start.             *)
JoinNode(row, n) ==
    [row EXCEPT
       !.status = IF Rank(n.status) > Rank(row.status) THEN n.status ELSE row.status,
       !.validTo = IF Rank(n.status) > Rank(row.status) THEN n.validTo
                   ELSE IF n.status = row.status THEN Earlier(row.validTo, n.validTo)
                   ELSE row.validTo,
       !.validFrom = Earlier(row.validFrom, n.validFrom)]

(* less_trusted: the tier with the lower rank in trust_conservatism.       *)
LessTrusted(x, y) == Earlier(x, y)

(* BelnapValue::join in each dimension (join_confidence).                  *)
JoinConfidence(x, y) == x \cup y

(* Mutant: the receiver keeps its own trust tier.                          *)
JoinRowKeepTrust(row, n) ==
    [JoinNode(row, n) EXCEPT !.conf = JoinConfidence(row.conf, n.conf)]

(* merge_node with the trust tier and the confidence.                      *)
JoinRow(row, n) ==
    [JoinNode(row, n) EXCEPT !.trust = LessTrusted(row.trust, n.trust),
                             !.conf = JoinConfidence(row.conf, n.conf)]
=============================================================================
