---------------------------- MODULE MCGuiWindow -----------------------------
(* Small instances of GuiWindow. *)
EXTENDS GuiWindow, TLC

CONSTANTS c1, c2, a1, a2, b1

Measures == a1 :> "a" @@ a2 :> "a"

\* A formula of a measure that was deleted and one of the next.
TwoMeasures == a1 :> "a" @@ b1 :> "b"

Symmetric == Permutations(Cell)
=============================================================================
