---------------------------- MODULE MCMcpSessions ----------------------------
(* Instances of McpSessions for TLC: alice's node x, bob's node y.         *)
EXTENDS McpSessions

CONSTANTS x, y, r1, r2, alice, bob, stray

MCRepoOf == [id \in Ids |-> IF id = y THEN r2 ELSE r1]
MCPlaneOf == [id \in Ids |-> "Asserted"]
MCAuthorOf == [id \in Ids |-> IF id = y THEN bob ELSE alice]
MCOffered == {<<x, y, "Supersedes">>}
(* Every copy of that edge, and the supersession back that alice may merge.*)
MCRelayed ==
    [key : MCOffered, state : {"Quarantined", "Confirmed"}, asserter : Keys]
      \cup {[key |-> <<y, x, "Supersedes">>, state |-> "Confirmed", asserter |-> alice]}
(* The tools of a session mint by memory.assert alone.                     *)
MCPutRows == {}
MCWriteGrant == [p \in Principals |-> Repos]
=============================================================================
