------------------------------- MODULE Mapper -------------------------------
(***************************************************************************)
(* The mapper of a live model (pg_model/src/live.rs): decoded row changes  *)
(* become input cells, one row per coordinate for a plain binding, a fold  *)
(* (row count, total, bag of values, cached best) per coordinate for an    *)
(* aggregated one.  Sessions run transactions whose ids are given at the   *)
(* first write and whose commits reach the WAL, and later other snapshots, *)
(* in any order.  A rebuild (pg_improv/src/worker.rs: rebuild, seed_folds) *)
(* loads the plain bindings and then seeds each fold, every query with a   *)
(* snapshot of its own, while sessions go on.                              *)
(*                                                                         *)
(* A value is a number with a collation rank, a coordinate is one item,    *)
(* and the items exist.  Rounding and text formats are left out: totals    *)
(* are exact in the code, by design, and here.                             *)
(***************************************************************************)
EXTENDS Integers, Sequences, FiniteSets, FiniteSetsExt

CONSTANTS
  Row,       \* row identities of a relation
  Content,   \* Content[r]: the [dim, val] a row of relation r may hold
  Bind,      \* Bind[m]: the [rel, agg, collated] of bound measure m
  Base,      \* the tables at first
  Item,
  Null,      \* SQL NULL, no row, no cell
  Rank,      \* Rank[v]: the place of value v in the collation
  Unique,    \* relations with at most one row per coordinate
  Kinds,     \* Kinds[r]: what sessions do to relation r
  Half,      \* half the number of transaction ids that pgoutput tells apart (2^31)
  FirstXid,  \* the first transaction id of a behaviour
  MaxTxn, MaxOps   \* bounds: transactions, and row changes in all

Measure == DOMAIN Bind
Rel == DOMAIN Content
Val == DOMAIN Rank
Folded == {m \in Measure : Bind[m].agg # "none"}
Plain == Measure \ Folded

ASSUME MapperAssumption ==
  /\ \A m \in Measure : Bind[m].rel \in Rel
  /\ MaxTxn < Half /\ FirstXid \in Nat \ {0}

VARIABLES
  next,     \* the next transaction id, of 64 bits
  active,   \* the changes of each running transaction
  wal,      \* committed transactions in commit order: [xid, ops]
  hidden,   \* committed, not yet in anyone's snapshot
  ended,    \* ended, as snapshots see it
  ops,      \* row changes made so far
  phase,    \* "down", "seeding" or "live"
  why,      \* why the mapper last asked for a rebuild
  pos,      \* transactions decoded and passed
  replay,   \* replay_until, as a place in the WAL
  todo,     \* folds still to seed
  snap,     \* seeded: the snapshot each fold was read with
  held,     \* what that snapshot really saw (for the properties)
  folds,    \* folds[m][c]
  cells,    \* the model's input cells
  engine    \* the input cells the engine has been fed

sessions == <<next, active, wal, hidden, ended, ops>>
mapper == <<phase, why, pos, replay, todo, snap, held, folds, cells, engine>>
vars == <<sessions, mapper>>

-----------------------------------------------------------------------------
(* Tables. *)

After(t, op) ==
  IF op.kind = "truncate" THEN [t EXCEPT ![op.rel] = [i \in Row |-> Null]]
  ELSE [t EXCEPT ![op.rel][op.row] = op.new]

AfterAll(t, os) ==
  LET s[i \in 0 .. Len(os)] == IF i = 0 THEN t ELSE LET u == s[i - 1] IN After(u, os[i])
  IN s[Len(os)]

\* The tables as the transactions of X left them.
TableOf(X) ==
  LET s[i \in 0 .. Len(wal)] ==
        IF i = 0 THEN Base
        ELSE LET u == s[i - 1] IN IF wal[i].xid \in X THEN AfterAll(u, wal[i].ops) ELSE u
  IN s[Len(wal)]

Committed == {wal[i].xid : i \in 1 .. Len(wal)}
Visible == Committed \ hidden

\* The changes whose locks another transaction than x still holds.
Locked(x) ==
  LET In(os) == {os[i] : i \in 1 .. Len(os)}
  IN UNION ({In(active[y]) : y \in DOMAIN active \ {x}}
            \cup {In(wal[j].ops) : j \in {j \in 1 .. Len(wal) : wal[j].xid \in hidden}})

\* The old and new rows those changes have in relation r.
Rows(x, r) == UNION {{op.old, op.new} : op \in {op \in Locked(x) : op.rel = r /\ op.kind # "truncate"}}
Dims(R) == {q.dim : q \in R \ {Null}} \ {Null}

\* The rows an insert may take; which of them it takes makes no difference.
Unused(t, x, r) == {i \in Row : t[i] = Null /\ \A op \in Locked(x) : op.rel = r /\ op.kind # "truncate" => op.row # i}

-----------------------------------------------------------------------------
(* Sessions. *)

\* Transactions so far.
Txns == DOMAIN active \cup hidden \cup ended

\* A row change, on rows and relations no other transaction has locked; the first one gives
\* the transaction its id.
Write(x, r, kind) ==
  /\ ops < MaxOps
  /\ x = next => Cardinality(Txns) < MaxTxn
  /\ LET mine == IF x = next THEN <<>> ELSE active[x]
         t == AfterAll(TableOf(Committed), mine)[r]
         Does(op) == active' = [y \in DOMAIN active \cup {x} |-> IF y = x THEN Append(mine, op) ELSE active[y]]
         free == \A op \in Locked(x) : op.rel # r \/ op.kind # "truncate"
         Put(i, old, new) ==
           /\ free /\ \A op \in Locked(x) : op.rel = r => op.row # i
           /\ r \in Unique /\ new # Null => new.dim \notin Dims({t[j] : j \in Row \ {i}} \cup Rows(x, r))
           /\ Does([rel |-> r, kind |-> kind, row |-> i, old |-> old, new |-> new])
     IN CASE kind = "insert" -> 
                 \E c \in Content[r] : Unused(t, x, r) # {} /\ Put(Min(Unused(t, x, r)), Null, c)
          [] kind = "update" -> \E i \in Row, c \in Content[r] : t[i] \notin {Null, c} /\ Put(i, t[i], c)
          [] kind = "delete" -> \E i \in Row : t[i] # Null /\ Put(i, t[i], Null)
          [] kind = "truncate" ->
               /\ \A op \in Locked(x) : op.rel # r
               /\ Does([rel |-> r, kind |-> kind])
  /\ ops' = ops + 1
  /\ next' = IF x = next THEN next + 1 ELSE next
  /\ UNCHANGED <<wal, hidden, ended, mapper>>

\* The commit record is in the WAL; snapshots see it later (Appear).
Commit(x) ==
  /\ wal' = Append(wal, [xid |-> x, ops |-> active[x]])
  /\ hidden' = hidden \cup {x}
  /\ active' = [y \in DOMAIN active \ {x} |-> active[y]]
  /\ UNCHANGED <<next, ended, ops, mapper>>

Appear(x) ==
  /\ x \in hidden
  /\ hidden' = hidden \ {x} /\ ended' = ended \cup {x}
  /\ UNCHANGED <<next, active, wal, ops, mapper>>

Abort(x) ==
  /\ active' = [y \in DOMAIN active \ {x} |-> active[y]]
  /\ ended' = ended \cup {x}
  /\ UNCHANGED <<next, wal, hidden, ops, mapper>>

\* pg_current_snapshot().
Snapshot ==
  LET xmax == Max(ended \cup {FirstXid - 1}) + 1
      xip == {x \in DOMAIN active \cup hidden : x < xmax}
  IN [xmin |-> Min(xip \cup {xmax}), xmax |-> xmax, xip |-> xip]

SeesUnwrapped(s, xid) == xid < s.xmin \/ (xid < s.xmax /\ xid \notin s.xip)

\* Snap::sees, of a transaction id's low bits.
Sees(s, xid) ==
  LET low == (xid - s.xmax) % (2 * Half)
      full == s.xmax + (IF low >= Half THEN low - 2 * Half ELSE low)
  IN full < s.xmin \/ (full < s.xmax /\ full \notin s.xip)

-----------------------------------------------------------------------------
(* Folds. *)

EmptyFold == [rows |-> 0, n |-> 0, total |-> 0, values |-> [v \in Val |-> 0], best |-> Null]
Present(f) == {v \in Val : f.values[v] # 0}
Keeps(agg) == agg \in {"min", "max", "count_distinct"}

\* Fold::add, of k rows that hold v.
Add(f, agg, v, k) ==
  IF v = Null THEN [f EXCEPT !.rows = @ + k]
  ELSE [f EXCEPT !.rows = @ + k, !.n = @ + k,
                 !.total = IF agg \in {"sum", "avg"} THEN @ + k * v ELSE @,
                 !.values = IF Keeps(agg) THEN [@ EXCEPT ![v] = @ + k] ELSE @]

InStep(f) == f.rows >= 0 /\ f.n >= 0 /\ \A v \in Val : f.values[v] >= 0

Beats(m, a, b) ==
  LET Place(v) == IF Bind[m].collated THEN Rank[v] ELSE v
  IN IF Bind[m].agg = "max" THEN Place(a) > Place(b) ELSE Place(a) < Place(b)

\* Fold::offer: the row just added may be the new best.
Offer(f, m, v) ==
  IF Keeps(Bind[m].agg) /\ Bind[m].collated /\ v # Null /\ f.best # Null /\ Beats(m, v, f.best)
  THEN [f EXCEPT !.best = v] ELSE f

First(m, V) == CHOOSE v \in V : \A w \in V : ~Beats(m, w, v)

\* Fold::cell scans the values again only when the best one went, or was never found.
Rescan(f, m) ==
  IF Bind[m].collated /\ Bind[m].agg \in {"min", "max"} /\ f.n > 0 /\ f.best \notin Present(f)
  THEN [f EXCEPT !.best = First(m, Present(f))] ELSE f

\* Fold::cell, after the scan.
Cell(f, m) ==
  CASE f.rows <= 0 -> Null
    [] Bind[m].agg = "count" -> f.n
    [] Bind[m].agg = "count_distinct" -> Cardinality(Present(f))
    [] f.n <= 0 -> Null
    [] Bind[m].agg = "sum" -> f.total
    [] Bind[m].agg = "avg" -> <<f.total, f.n>>
    [] Bind[m].collated -> f.best
    [] OTHER -> First(m, Present(f))

\* The rows of a table on coordinate c, and the fold seed_sql's groups of them make.
RowsAt(t, c) == {i \in Row : t[i] # Null /\ t[i].dim = c}
Seeded(m, t, c) ==
  LET R == RowsAt(t, c)
      N == {i \in R : t[i].val # Null}
      agg == Bind[m].agg
  IN Rescan([rows |-> Cardinality(R), n |-> Cardinality(N),
             total |-> IF agg \in {"sum", "avg"} THEN MapThenSumSet(LAMBDA i : t[i].val, N) ELSE 0,
             values |-> [v \in Val |-> IF Keeps(agg) THEN Cardinality({i \in N : t[i].val = v}) ELSE 0],
             best |-> Null], m)

\* What the loader reads of a plain binding: the row with a value on the coordinate.
Loaded(t, c) ==
  LET N == {i \in RowsAt(t, c) : t[i].val # Null} IN IF N = {} THEN Null ELSE t[CHOOSE i \in N : TRUE].val

-----------------------------------------------------------------------------
(* A batch: st is [cells, folds, touched, why]; touched has the value that each   *)
(* touched cell had before, and why = "" while nothing needs a rebuild.           *)

CellOf(row) == row # Null /\ row.dim # Null /\ row.val # Null

\* Mutant: the last value that a touched cell was given up for is kept.
TouchLast(touched, c, before) ==
  [d \in DOMAIN touched \cup {c} |-> IF d = c THEN before ELSE touched[d]]

\* touched.entry(c).or_insert(before): the first value stays.
Touch(touched, c, before) ==
  [d \in DOMAIN touched \cup {c} |-> IF d \in DOMAIN touched THEN touched[d] ELSE before]

Put(st, m, c, v) == [st EXCEPT !.cells[m][c] = v, !.touched = Touch(@, c, st.cells[m][c])]

PlainChangeInPlace(st, m, op, again) ==
  IF ~CellOf(op.new) THEN st ELSE Put(st, m, op.new.dim, op.new.val)

\* row, the two halves: the old row's cell goes, and the new one's is occupied already.
Gone(st, m, op) == IF CellOf(op.old) THEN Put(st, m, op.old.dim, Null) ELSE st
OccupiedAlways(cs, op, again) == cs[op.new.dim] # Null
Occupied(cs, op, again) == ~again /\ cs[op.new.dim] # Null

\* row: a change through a plain binding.
PlainChange(st, m, op, again) ==
  LET gone == Gone(st, m, op)
  IN IF ~CellOf(op.new) THEN gone
     ELSE IF Occupied(gone.cells[m], op, again) THEN [gone EXCEPT !.why = "two rows"]
     ELSE Put(gone, m, op.new.dim, op.new.val)

\* fold_row: the old row out of its fold, then the new row into its own.
FoldRow(st, m, row, k) ==
  IF row = Null \/ row.dim = Null THEN st
  ELSE LET f == Add(st.folds[m][row.dim], Bind[m].agg, row.val, k)
           g == Rescan(IF k > 0 THEN Offer(f, m, row.val) ELSE f, m)
       IN IF ~InStep(f) THEN [st EXCEPT !.why = "out of step"]
          ELSE Put([st EXCEPT !.folds[m][row.dim] = IF g.rows = 0 THEN EmptyFold ELSE g],
                   m, row.dim, Cell(g, m))

FoldChange(st, m, op) ==
  LET out == FoldRow(st, m, op.old, -1) IN IF out.why # "" THEN out ELSE FoldRow(out, m, op.new, 1)

\* truncate: every cell of the relation goes, but a replayed one rebuilds a plain binding.
TruncateChange(st, m, again) ==
  IF m \in Plain /\ again THEN [st EXCEPT !.why = "truncate"]
  ELSE LET empty == [st EXCEPT !.folds[m] = [c \in Item |-> EmptyFold]]
       IN FoldSet(LAMBDA c, u : Put(u, m, c, Null), empty, {c \in Item : st.cells[m][c] # Null})

\* loaded: the fold's seed already saw the transaction.
Skip(m, xid) == m \in Folded /\ Sees(snap[m], xid % (2 * Half))

Change(st, m, op, xid, again) ==
  IF st.why # "" \/ op.rel # Bind[m].rel \/ Skip(m, xid) THEN st
  ELSE IF op.kind = "truncate" THEN TruncateChange(st, m, again)
  ELSE IF m \in Plain THEN PlainChange(st, m, op, again) ELSE FoldChange(st, m, op)

\* map: the batch's transactions in commit order, each change through each binding.  The
\* bindings do not read one another, so that each goes through the batch on its own.
MapOne(m, from, to) ==
  LET InTxn(st, i) ==
        LET o[j \in 0 .. Len(wal[i].ops)] ==
              IF j = 0 THEN st
              ELSE LET u == o[j - 1] IN Change(u, m, wal[i].ops[j], wal[i].xid, i <= replay)
        IN o[Len(wal[i].ops)]
      s[i \in from .. to] ==
        IF i = from THEN [cells |-> cells, folds |-> folds, touched |-> <<>>, why |-> ""]
        ELSE LET u == s[i - 1] IN InTxn(u, i)
  IN s[to]

-----------------------------------------------------------------------------
(* The worker. *)

NoSnapshot == [xmin |-> 0, xmax |-> 0, xip |-> {}]
NoFolds == [m \in Measure |-> [c \in Item |-> EmptyFold]]
NoCells == [m \in Measure |-> [c \in Item |-> Null]]

Init ==
  /\ next = FirstXid /\ active = <<>> /\ wal = <<>> /\ hidden = {} /\ ended = {} /\ ops = 0
  /\ phase = "down" /\ why = "" /\ pos = 0 /\ replay = 0
  /\ todo = {} /\ snap = [m \in Folded |-> NoSnapshot] /\ held = [m \in Folded |-> {}]
  /\ folds = NoFolds /\ cells = NoCells /\ engine = NoCells

\* The bindings that need a seed.
Aggregated == Folded

\* rebuild: the plain bindings are read, and then the WAL's position.  The transactions
\* already passed are visible by then (SyncWorker has the worker's side of this).
Load ==
  /\ phase = "down"
  /\ \A i \in 1 .. pos : wal[i].xid \notin hidden
  /\ LET t == TableOf(Visible)
     IN cells' = [m \in Measure |-> [c \in Item |-> IF m \in Plain THEN Loaded(t[Bind[m].rel], c) ELSE Null]]
  /\ replay' = Len(wal)
  /\ todo' = Aggregated /\ phase' = "seeding"
  /\ why' = ""
  /\ UNCHANGED <<sessions, pos, snap, held, folds, engine>>

\* seed_folds, Mapper::seed: the next fold's groups and the snapshot they were read with.
Seed(m) ==
  /\ phase = "seeding" /\ m \in todo /\ m = Min(todo)
  /\ snap' = [snap EXCEPT ![m] = Snapshot]
  /\ held' = [held EXCEPT ![m] = Visible]
  /\ LET t == TableOf(Visible)[Bind[m].rel]
         fs == [c \in Item |-> Seeded(m, t, c)]
     IN /\ folds' = [folds EXCEPT ![m] = fs]
        /\ cells' = [cells EXCEPT ![m] = [c \in Item |-> Cell(fs[c], m)]]
  /\ todo' = todo \ {m}
  /\ UNCHANGED <<sessions, phase, why, pos, replay, engine>>

\* The engine is built on the model.
Start ==
  /\ phase = "seeding" /\ todo = {}
  /\ engine' = cells /\ phase' = "live"
  /\ UNCHANGED <<sessions, why, pos, replay, todo, snap, held, folds, cells>>

\* The model, its folds and its engine are dropped.
Discard ==
  /\ phase' = "down" /\ replay' = 0 /\ todo' = {}
  /\ snap' = [m \in Folded |-> NoSnapshot] /\ held' = [m \in Folded |-> {}]
  /\ folds' = NoFolds /\ cells' = NoCells /\ engine' = NoCells

\* The edits of a batch, of the touched cells that have another value now than before it.
Edits(st, m) == {c \in DOMAIN st.touched : st.cells[m][c] # st.touched[c]}

\* The cells of the engine once it has been fed them.
Edited(out) ==
  [m \in Measure |-> [c \in Item |-> IF c \in Edits(out[m], m) THEN out[m].cells[m][c] ELSE engine[m][c]]]

\* apply: a batch is mapped and fed, or asks for a rebuild, which passes it.
Map ==
  /\ phase = "live"
  /\ \E to \in pos + 1 .. Len(wal) :
       LET out == [m \in Measure |-> MapOne(m, pos, to)]
           bad == {m \in Measure : out[m].why # ""}
       IN /\ pos' = to
          /\ IF bad # {}
             THEN Discard /\ \E m \in bad : why' = out[m].why
             ELSE /\ folds' = [m \in Measure |-> out[m].folds[m]]
                  /\ cells' = [m \in Measure |-> out[m].cells[m]]
                  /\ engine' = Edited(out)
                  /\ UNCHANGED <<phase, why, replay, todo, snap, held>>
  /\ UNCHANGED sessions

\* Another error, a changed definition, a crash: the live state goes.
Lose ==
  /\ phase # "down"
  /\ Discard
  /\ UNCHANGED <<sessions, why, pos>>

Next ==
  \/ \E x \in DOMAIN active \cup {next}, r \in Rel : \E kind \in Kinds[r] : Write(x, r, kind)
  \/ \E x \in DOMAIN active : Commit(x) \/ Abort(x)
  \/ \E x \in hidden : Appear(x)
  \/ Load \/ (\E m \in Folded : Seed(m)) \/ Start \/ Map \/ Lose

Spec == Init /\ [][Next]_vars

-----------------------------------------------------------------------------
(* Properties. *)

TypeOK ==
  /\ next \in Nat /\ hidden \subseteq Committed /\ ops \in 0 .. MaxOps
  /\ phase \in {"down", "seeding", "live"} /\ pos \in 0 .. Len(wal) /\ replay \in 0 .. Len(wal)
  /\ todo \subseteq Folded
  /\ \A m \in Folded, c \in Item : InStep(folds[m][c])

\* The aggregate of measure m over the rows of table t, from its definition in SQL.
Aggregate(m, t, c) ==
  LET R == RowsAt(t, c)
      N == {i \in R : t[i].val # Null}
      V == {t[i].val : i \in N}
      Sum == MapThenSumSet(LAMBDA i : t[i].val, N)
  IN CASE R = {} -> Null
       [] Bind[m].agg = "count" -> Cardinality(N)
       [] Bind[m].agg = "count_distinct" -> Cardinality(V)
       [] N = {} -> Null
       [] Bind[m].agg = "sum" -> Sum
       [] Bind[m].agg = "avg" -> <<Sum, Cardinality(N)>>
       [] OTHER -> First(m, V)

\* What measure m stands for: what its seed saw, and what has been decoded since.
Applied(m) == held[m] \cup {wal[i].xid : i \in 1 .. pos}

\* Every cell of an aggregated binding is the aggregate of the rows that the transactions
\* its seed saw and those decoded since have left: none counts twice and none is left out,
\* whatever the order of ids, commits, visibility and decoding (the module docs of live.rs:
\* "skips exactly the transactions that snapshot saw").
FoldsExact ==
  phase = "live" =>
    \A m \in Folded : LET t == TableOf(Applied(m))[Bind[m].rel]
                      IN \A c \in Item : cells[m][c] = Aggregate(m, t, c)

\* Re-applied changes of a plain binding converge: once everything the load may have seen is
\* decoded, its cells are the rows of exactly the decoded transactions.
PlainConverges ==
  phase = "live" /\ pos >= replay =>
    \A m \in Plain : LET t == TableOf({wal[i].xid : i \in 1 .. pos})[Bind[m].rel]
                     IN \A c \in Item : cells[m][c] = Loaded(t, c)

\* The mapper never takes a row out of a fold that has no such row, and never finds two rows
\* on one coordinate of a relation that has at most one: a rebuild for these would mean the
\* mapper lost its place.
NeverOutOfStep == why \notin {"out of step", "two rows"}

\* The edits of a batch keep the engine's input cells the model's, however often a cell
\* moves within it: each way to change a cell notes its value, the first one counts, and
\* a cell that ends as it was makes no edit.
EngineFollows == phase = "live" => engine = cells
=============================================================================
