--------------------------- MODULE MCSealedStore ---------------------------
(* Tenant t1 with a node, both rows of an edge, a freshness watermark and  *)
(* a branch watermark, whose key the migration takes for the tenant        *)
(* "t1:branch"; tenant t2 with a watermark; and a dangling edge.           *)
EXTENDS SealedStore, TLC

CONSTANTS node1, edge1, mark1, branch1, mark2, dangling, t1, t2, t1b

MCCfOf == node1 :> "node" @@ edge1 :> "edge" @@ dangling :> "edge"
          @@ mark1 :> "meta" @@ branch1 :> "meta" @@ mark2 :> "meta"
MCOwnerOf == node1 :> t1 @@ edge1 :> t1 @@ mark1 :> t1 @@ branch1 :> t1 @@ mark2 :> t2 @@ dangling :> t1
MCSealTenant == node1 :> t1 @@ edge1 :> t1 @@ mark1 :> t1 @@ branch1 :> t1b @@ mark2 :> t2
                @@ dangling :> NoTenant

MCSealed(t, g, k) == [form |-> "sealed", tenant |-> t, gen |-> g, key |-> k]

(* A store as the release before edge sealing left it.                     *)
MCOld == [rows |-> node1 :> MCSealed(t1, 1, 1) @@ edge1 :> Plain @@ mark1 :> Plain @@ branch1 :> Plain
                   @@ mark2 :> Absent @@ dangling :> Plain,
          keyring |-> t1 :> [gen |-> 1, key |-> 1] @@ t2 :> [gen |-> 0, key |-> 0]
                      @@ t1b :> [gen |-> 0, key |-> 0],
          marker |-> FALSE, before |-> {}, missed |-> {}]

(* The same, its tenant shredded before the upgrade: of all its rows only  *)
(* the node was sealed.                                                    *)
MCOldShredded == [MCOld EXCEPT !.keyring[t1].key = 0,
                               !.before = {node1, edge1, mark1, branch1, dangling},
                               !.missed = {edge1, mark1}]

(* The same, with a node from before encryption.                           *)
MCLegacyNode == [MCOld EXCEPT !.rows[node1] = Plain]

(* A store nobody has encrypted.                                           *)
MCOpen == [MCOld EXCEPT !.rows[node1] = Plain, !.keyring[t1] = [gen |-> 0, key |-> 0]]

(* A store after the migration.                                            *)
MCNew == [MCOld EXCEPT !.rows[edge1] = MCSealed(t1, 1, 1), !.rows[mark1] = MCSealed(t1, 1, 1),
                       !.rows[branch1] = MCSealed(t1, 1, 1), !.rows[dangling] = Absent, !.marker = TRUE]

MCWorlds == {
    [disk |-> MCOld, shreds |-> {t1}, writes |-> 1, crashes |-> 2, clock |-> 1, restores |-> 0],
    [disk |-> MCOldShredded, shreds |-> {t1}, writes |-> 1, crashes |-> 1, clock |-> 1, restores |-> 0],
    [disk |-> MCLegacyNode, shreds |-> {t1}, writes |-> 1, crashes |-> 1, clock |-> 1, restores |-> 0],
    [disk |-> MCOpen, shreds |-> {t1}, writes |-> 2, crashes |-> 1, clock |-> 1, restores |-> 0],
    [disk |-> MCNew, shreds |-> {t1}, writes |-> 1, crashes |-> 1, clock |-> 1, restores |-> 1],
    [disk |-> MCNew, shreds |-> {t1}, writes |-> 1, crashes |-> 0, clock |-> 2, restores |-> 1],
    [disk |-> MCNew, shreds |-> {}, writes |-> 0, crashes |-> 2, clock |-> 4, restores |-> 0]}
=============================================================================
