------------------------------ MODULE WriteOnce ------------------------------
(***************************************************************************)
(* What a table with a unique key and no UPDATE promises its readers:      *)
(* the row of a key is written at most once, and whatever was read stays   *)
(* true.  Enrichment implements it with finding_enrichments.               *)
(***************************************************************************)
CONSTANTS
    Keys,
    Values,
    Absent          \* no row

VARIABLE rows

Init == rows = [k \in Keys |-> Absent]

Write(k, v) ==
    /\ rows[k] = Absent
    /\ rows' = [rows EXCEPT ![k] = v]

Next == \E k \in Keys, v \in Values : Write(k, v)

Spec == Init /\ [][Next]_rows

=============================================================================
