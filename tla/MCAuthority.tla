---------------------------- MODULE MCAuthority ----------------------------
(* Small instances of Authority: two measures. *)
EXTENDS Authority, TLC

CONSTANTS a, b, s1, s2

\* Batches that name no cell twice, and batches that do.
Distinct == {<<<<a, 1>>>>, <<<<a, 2>>, <<b, 1>>>>, <<<<a, None>>>>}
Repeated == {<<<<a, 1>>>>, <<<<a, 1>>, <<a, 2>>>>}

\* Sessions do the same.
Symmetric == Permutations({s1, s2})
=============================================================================
