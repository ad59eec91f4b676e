---------------------------- MODULE MCIngestFeed ----------------------------
(* Instances of IngestFeed for TLC.                                        *)
EXTENDS IngestFeed

CONSTANTS c0, c1, c2

(* A line of three commits.                                                *)
MCParentsOf == [c \in Commits |-> CASE c = c0 -> {} [] c = c1 -> {c0} [] c = c2 -> {c1}]
(* c2 merges c1, which was developed on a branch, into the default branch. *)
MCMergeOf == [c \in Commits |-> CASE c = c0 -> {} [] c = c1 -> {c0} [] c = c2 -> {c0, c1}]
=============================================================================
