----------------------------- MODULE MCMitreSync -----------------------------
(* A small instance of MitreSync for TLC: the second release changes a column *)
(* of one technique, retires one and adds one; the third changes the others.  *)
EXTENDS MitreSync, TLC

CONSTANTS t1, t2, t3, name, tactics

Data(a, b) == name :> a @@ tactics :> b

MCReleases ==
    << t1 :> Data(1, 1) @@ t2 :> Data(1, 1),
       t1 :> Data(2, 1) @@ t3 :> Data(1, 1),
       t1 :> Data(1, 2) @@ t3 :> Data(2, 2) >>

=============================================================================
