-------------------------- MODULE MCCorpusRelease --------------------------
(* An instance of CorpusRelease for TLC: a docs source of two files and a  *)
(* skills source of one skill with one ref.                                *)
EXTENDS CorpusRelease

CONSTANTS td, ts, d1, d2, k1, r1, sd, ss, v1, v2, wa, wb

MCTenantOrder == <<td, ts>>
MCSourceSpec == [s \in {sd, ss} |->
             [tenant |-> IF s = sd THEN td ELSE ts, kind |-> IF s = sd THEN "docs" ELSE "skills",
              optional |-> s = ss, listed |-> FALSE]]
MCSourceOf == [f \in {d1, d2, k1, r1} |-> IF f \in {d1, d2} THEN sd ELSE ss]
MCSkillOf == [f \in {d1, d2, k1, r1} |-> IF f = r1 THEN k1 ELSE f]
MCChunks == [f \in {d1, d2, k1, r1} |-> IF f = d1 THEN 1 ELSE 0]
MCIdOrder ==
    <<<<d2, v2, 0>>, <<d1, v1, 1>>, <<r1, v1, 0>>, <<d1, v2, 0>>, <<k1, v2, 0>>, <<d2, v1, 0>>,
      <<d1, v1, 0>>, <<k1, v1, 0>>, <<d1, v2, 1>>, <<r1, v2, 0>>>>

Lock(pk, pr, v) ==
    [pin |-> [f \in {k1, r1} |-> IF f = k1 THEN pk ELSE pr], verdict |-> [f \in {k1} |-> v]]
Host(roots, cleared, a, b, k, r, lock, w) ==
    [roots |-> roots, cleared |-> cleared, lock |-> lock, embed |-> w,
     file |-> [f \in {d1, d2, k1, r1} |->
                 CASE f = d1 -> a [] f = d2 -> b [] f = k1 -> k [] f = r1 -> r]]

(* A first release; an edited one without the skills checkout, embedded    *)
(* with other weights; one whose docs licence was withdrawn, with a ref    *)
(* that is no text; and builds that fail, on drifted skills and on a       *)
(* checkout with no usable file.                                           *)
MCHosts ==
    {Host({sd, ss}, {sd, ss}, v1, v1, v1, v1, Lock(v1, v1, "include"), wa),
     Host({sd}, {sd, ss}, v2, "unfit", "missing", "missing", Lock(v1, v1, "include"), wb),
     Host({sd, ss}, {ss}, v1, "missing", v1, "binary", Lock(v1, "binary", "include"), NoFile),
     Host({sd, ss}, {sd, ss}, v1, v1, v2, v1, Lock(v1, v1, "include"), NoFile),
     Host({sd, ss}, {sd, ss}, "refused", "unfit", v1, v1, Lock(v1, v1, "exclude"), wa)}
=============================================================================
