---------------------------- MODULE MCAuditChain ----------------------------
(* Instances of AuditChain for TLC.                                        *)
EXTENDS AuditChain, TLC

(* Payloads are compared for equality only, and so are processes.          *)
MCSymmetry == Permutations(Entries) \cup Permutations(Procs)
=============================================================================
