---------------------------- MODULE MCReadCaches ----------------------------
(* Four commits in a row, a branch that may stand on the first three, one  *)
(* claim in the ingested tenant and two in the federation.                 *)
EXTENDS ReadCaches, TLC

CONSTANTS c0, c1, c2, c3, a, x, y, rA, rB, p1, p2

MCParentsOf == c0 :> {} @@ c1 :> {c0} @@ c2 :> {c1} @@ c3 :> {c2}
MCRepoOf == c0 :> rA @@ c1 :> rA @@ c2 :> rA @@ c3 :> rA @@ a :> rA @@ x :> rB @@ y :> rB

(* The ids' order: hashes, so in no relation to the order of the writes.   *)
MCRank == c0 :> 6 @@ c1 :> 1 @@ c2 :> 7 @@ c3 :> 8 @@ a :> 2 @@ x :> 3 @@ y :> 4
MCBranchRank == c0 :> 5 @@ c1 :> 0 @@ c2 :> 9

(* Cached searches beside pushes, with and without reads that fail, beside *)
(* asserts and beside both, and one after the other beside rewrites; scans *)
(* beside pushes and rewrites, and beside a push of commits the scan does  *)
(* not have; pushes and rewrites alone; the layout beside asserts, and     *)
(* beside pushes whose rows take the places of claims.                     *)
MCWorlds == {
    [kinds |-> {"search"}, heads |-> {c0, c1}, tips |-> {c1}, routed |-> {}, byom |-> {},
     repos |-> {rA}, readers |-> {p1, p2}, faults |-> {}, stamps |-> 2, puts |-> 0,
     requests |-> 2],
    [kinds |-> {"search"}, heads |-> {}, tips |-> {}, routed |-> {}, byom |-> {a, x},
     repos |-> {rA}, readers |-> {p1, p2}, faults |-> {"request", "watermark"}, stamps |-> 0,
     puts |-> 2, requests |-> 2],
    [kinds |-> {"search"}, heads |-> {c0}, tips |-> {}, routed |-> {}, byom |-> {a, x},
     repos |-> {rA, rB}, readers |-> {p1}, faults |-> {}, stamps |-> 1, puts |-> 2,
     requests |-> 2],
    [kinds |-> {"in_flight", "storyline"}, heads |-> {c0, c2}, tips |-> {c1, c2},
     routed |-> {}, byom |-> {}, repos |-> {rA}, readers |-> {p1}, faults |-> {"job"},
     stamps |-> 2, puts |-> 0, requests |-> 1],
    [kinds |-> {"search"}, heads |-> {c0, c1}, tips |-> {c0, c2}, routed |-> {}, byom |-> {},
     repos |-> {rA}, readers |-> {p1}, faults |-> {}, stamps |-> 2, puts |-> 0,
     requests |-> 2],
    [kinds |-> {"in_flight"}, heads |-> {c0, c1, c3}, tips |-> {c2}, routed |-> {}, byom |-> {},
     repos |-> {rA}, readers |-> {p1}, faults |-> {"request", "watermark"}, stamps |-> 3,
     puts |-> 0, requests |-> 1],
    [kinds |-> {}, heads |-> {c0, c1, c2, c3}, tips |-> {c1}, routed |-> {}, byom |-> {},
     repos |-> {rA}, readers |-> {}, faults |-> {}, stamps |-> 4, puts |-> 0,
     requests |-> 0],
    [kinds |-> {"search"}, heads |-> {c0, c1}, tips |-> {c1}, routed |-> {}, byom |-> {},
     repos |-> {rA}, readers |-> {p1}, faults |-> {"watermark"}, stamps |-> 3, puts |-> 0,
     requests |-> 2],
    [kinds |-> {"layout"}, heads |-> {}, tips |-> {}, routed |-> {x}, byom |-> {y},
     repos |-> {rA}, readers |-> {p1, p2}, faults |-> {}, stamps |-> 0, puts |-> 2,
     requests |-> 2],
    [kinds |-> {"layout"}, heads |-> {c0}, tips |-> {c1}, routed |-> {a, x}, byom |-> {y},
     repos |-> {rA}, readers |-> {p1}, faults |-> {}, stamps |-> 1, puts |-> 2,
     requests |-> 2]}
=============================================================================
