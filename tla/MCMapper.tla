------------------------------ MODULE MCMapper ------------------------------
(* Small instances of Mapper: a relation of facts with folds over it, one with a plain binding. *)
EXTENDS Mapper

CONSTANTS k1, k2

At(c, v) == [dim |-> c, val |-> v]
MCContent == [fact |-> {At(k1, 1), At(k1, 2), At(k1, Null)}, plain |-> {At(k1, 1), At(k2, 1)}]
MCBind == <<[rel |-> "fact", agg |-> "avg", collated |-> FALSE],
            [rel |-> "fact", agg |-> "min", collated |-> TRUE],
            [rel |-> "plain", agg |-> "none", collated |-> FALSE]>>
MCBase == [fact |-> <<At(k1, 1), Null>>, plain |-> <<At(k1, 1), Null>>]
MCRank == <<2, 1>>
MCKinds == [fact |-> {"insert", "update", "delete", "truncate"}, plain |-> {"insert", "update", "delete", "truncate"}]
=============================================================================
