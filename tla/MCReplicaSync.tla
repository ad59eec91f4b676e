---------------------------- MODULE MCReplicaSync ----------------------------
(* An instance of ReplicaSync for TLC.                                     *)
EXTENDS ReplicaSync, TLC

CONSTANTS n1, n2, n3, t1, t2

MCRepoOf == [id \in Ids |-> IF id = n3 THEN t2 ELSE t1]
(* Two nodes of one tenant that supersede each other, and one of another   *)
(* tenant, which a bundle with the edge to it may find unknown.            *)
MCEdgeOrder == <<<<n1, n2>>, <<n2, n1>>, <<n1, n3>>>>
Minting(status, from, trust, conf) ==
    [status |-> status, validFrom |-> from, validTo |-> Open, trust |-> trust, conf |-> conf]
(* n1 is a claim, or a document retired by its front matter, of another    *)
(* tier and opposite confidence; the others are always minted alike.       *)
MCMinted == [id \in Ids |->
    IF id = n1 THEN {Minting("Active", 0, 1, {"True"}), Minting("Superseded", 1, 2, {"False"})}
    ELSE {Minting("Active", 0, 1, {"True"})}]
MCSymmetry == Permutations(Replicas)
=============================================================================
