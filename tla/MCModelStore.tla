---------------------------- MODULE MCModelStore ----------------------------
(* Small instances of ModelStore: a measure in the store's own cells and one   *)
(* bound to a fact table.                                                      *)
EXTENDS ModelStore, TLC

CONSTANTS h1, h2, h3, own, fact, x, y, n, u

Symmetric == Permutations(Handle) \cup Permutations(Name)
=============================================================================
