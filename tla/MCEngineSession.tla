-------------------------- MODULE MCEngineSession --------------------------
(* A small model: a host FIXPOINT p over the inputs a and b, a sum d of p and c, a FIXPOINT q *)
(* whose body is a dataflow over p, and a measure g in a component of its own.                *)
EXTENDS EngineSession, TLC

CONSTANTS a, b, c, e, d, g, p, pr, pi, pb, q, qr, qi, qb, k1

MCOrder == <<pi, pb, d, qi, qb, g>>
MCReads == (pi :> {a}) @@ (pb :> {pr, b}) @@ (d :> {p, c}) @@ (qi :> {c}) @@ (qb :> {qr, p, d}) @@ (g :> {e})

\* b = 0 keeps the iterate, 1 flips it (and never converges), 2 takes it to 2.
Law(r, n) == IF n = 0 THEN r ELSE IF n = 1 THEN (IF r = 0 THEN 1 ELSE 0) ELSE (IF r = 2 THEN 2 ELSE r + 1)

MCPlan(m, env) ==
  [k \in Coord |->
     CASE m = pi -> env[a][k]
       [] m = pb -> IF None \in {env[pr][k], env[b][k]} THEN None ELSE Law(env[pr][k], env[b][k])
       [] m = d -> IF None \in {env[p][k], env[c][k]} THEN None ELSE (env[p][k] + env[c][k]) % 3
       [] m = qi -> env[c][k]
       [] m = qb -> IF None \in {env[qr][k], env[p][k]} THEN None ELSE Law(env[qr][k], env[p][k])
       [] m = g -> env[e][k]]

MCFixes == <<[id |-> p, r |-> pr, init |-> pi, body |-> pb, maxIter |-> 3, tolerance |-> 0, host |-> TRUE,
              reads |-> {b}],
             [id |-> q, r |-> qr, init |-> qi, body |-> qb, maxIter |-> 3, tolerance |-> 0, host |-> FALSE,
              reads |-> {p, d}]>>

Set(m, v) == [measure |-> m, coord |-> k1, value |-> v]
MCBatch == {<<Set(b, v)>> : v \in {None, 0, 1, 2}}
           \cup {<<Set(a, 1)>>, <<Set(c, None)>>, <<Set(b, 2), Set(c, 1), Set(e, 1)>>, <<Set(p, 1)>>, <<Set(b, 1), Set(b, 2)>>}
           \cup {<<>>}
MCSeed == {[m \in Input |-> [k \in Coord |-> v]] : v \in {None, 0}}
=============================================================================
