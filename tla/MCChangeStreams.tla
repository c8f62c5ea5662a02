-------------------------- MODULE MCChangeStreams --------------------------
(* Small instances of ChangeStreams: two connections of one caller, one of another. *)
EXTENDS ChangeStreams

CONSTANTS s1, s2, s3, c1, c2

Callers == [s \in Stream |-> IF s = s3 THEN c2 ELSE c1]
=============================================================================
