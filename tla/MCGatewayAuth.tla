---------------------------- MODULE MCGatewayAuth ----------------------------
(* Small instances of GatewayAuth for TLC. *)
EXTENDS GatewayAuth, TLC

\* Family and token ids are random UUIDs: any renaming of them is a symmetry.
IdSymmetry == Permutations(Families) \cup Permutations(Jtis)

=============================================================================
