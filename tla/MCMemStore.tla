----------------------------- MODULE MCMemStore -----------------------------
(* An instance of MemStore for TLC.                                        *)
EXTENDS MemStore

CONSTANTS a, b, r1, k1

MCRepoOf == [id \in Ids |-> r1]
MCPlaneOf == [id \in Ids |-> IF id = b THEN "Derived" ELSE "Asserted"]
MCAuthorOf == [id \in Ids |-> k1]

(* A claim or commit, and a document its front matter retires: no end.     *)
MCPutRows ==
    [status : {"Active"}, validFrom : {1}, validTo : {Open}]
      \cup [status : {"Superseded"}, validFrom : {0}, validTo : {Open}]
=============================================================================
