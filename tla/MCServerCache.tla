---------------------------- MODULE MCServerCache ----------------------------
(* Small instances of ServerCache. *)
EXTENDS ServerCache

CONSTANTS g1, g2, w1, w2, q1, t1, o1
=============================================================================
