---------------------------- MODULE MCEnrichment -----------------------------
(* Small instances of Enrichment for TLC. *)
EXTENDS Enrichment, TLC

CONSTANTS f1, f2, c1, c2

\* Two findings that share a CVE, as two hosts with the same defect do.
MCCvesOf == [f \in {f1, f2} |-> IF f = f1 THEN {c1} ELSE {c1, c2}]

\* One finding without CVEs.
MCNoCves == [f \in {f1} |-> {}]

ActorSymmetry == Permutations(Requests) \cup Permutations(Workers)

=============================================================================
