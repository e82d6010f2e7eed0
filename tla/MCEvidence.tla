----------------------------- MODULE MCEvidence -----------------------------
EXTENDS EvidencePipeline, TLC

CONSTANTS log, report, odd, marker

(* The second and the third write are secrets; no rule rewrites the third. *)
SecretWrites   == {2, 3}
StubbornWrites == {3}

(* Two files with good names are interchangeable.                          *)
Files == Permutations({log, report})
=============================================================================
