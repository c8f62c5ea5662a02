---------------------------- MODULE MCWriterSync ----------------------------
(* Small instances of WriterSync: model 1 multiplies two tables key by key,    *)
(* model 2 aggregates its results and one of the tables.                       *)
EXTENDS WriterSync, TLC

CONSTANTS b1, b2, r1, r2, o1, o2, o3, k1, k2

OutOf == 1 :> o1 @@ 2 :> o2
Chain == 1 :> {r1, r2} @@ 2 :> {r2, o1}
Filled == r1 :> [k \in Key |-> 0] @@ r2 :> [k \in Key |-> 1]
          @@ o1 :> [k \in Key |-> 0] @@ o2 :> [k \in Key |-> Cardinality(Key)]

\* Model 2 aggregates one of the tables and not model 1's results.
Apart == 1 :> {r1, r2} @@ 2 :> {r2}

\* Three models, the second fed by the first.
OutThree == OutOf @@ 3 :> o3
Three == 1 :> {r1} @@ 2 :> {o1, r2} @@ 3 :> {r1, r2}
FilledThree == [t \in {r1, r2, o1, o2, o3} |-> [k \in Key |-> 0]]
AllCommit == {[m \in Model |-> "commit"]}

Starts == {1 :> "commit" @@ 2 :> "commit", 1 :> "trigger" @@ 2 :> "trigger",
           1 :> "commit" @@ 2 :> "manual", 1 :> "manual" @@ 2 :> "trigger"}

Symmetric == Permutations(Backend) \cup Permutations(Key)
=============================================================================
