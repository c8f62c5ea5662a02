----------------------------- MODULE WriterSync -----------------------------
(***************************************************************************)
(* Sync inside the writer's transaction: trigger mode                      *)
(* (pg_improv/src/trigger.rs) and commit mode (pg_improv/src/commit.rs),   *)
(* with the switch between them (set_sync_mode).                           *)
(*                                                                         *)
(* Sessions write rows of the bound tables.  In trigger mode each statement *)
(* locks the model and recomputes it; in commit mode hooks note the tables *)
(* written and, if asked for, capture triggers the rows, and the models    *)
(* are recomputed before COMMIT.  A model's result table may be another    *)
(* model's input.  MVCC, row and table locks and invalidation messages are *)
(* Postgres's, external.                                                   *)
(***************************************************************************)
EXTENDS Integers, FiniteSets, Sequences

CONSTANTS
  Backend,      \* sessions that write
  Model,        \* model ids, numbers
  Rel,          \* the users' tables
  Out,          \* the result table of each model
  Binds,        \* the tables bound to each model: users' ones and result tables
  Elementwise,  \* the models whose results at a key depend on that key only (scopable)
  Key,          \* dimension values
  Start,        \* what the tables hold at the start
  None, AnyRel,    \* no value; every table (ANY_REL)
  Env,          \* what else happens: see the actions that name it
  InitModes,    \* the modes the models start in
  MaxPass,      \* the rounds of pre_commit, 16 in the code
  MaxCapture,   \* MAX_CAPTURE, scaled
  MaxStmts,     \* bound: write statements in all
  MaxSwitches   \* bound: calls of set_sync_mode

Table == Rel \cup {Out[m] : m \in Model}
Modes == {"manual", "trigger", "commit"}

ASSUME ConstantsAssumption ==
  /\ Model \subseteq Nat /\ None \notin Nat /\ \A S \in SUBSET Model : S # None
  /\ Key # {} /\ IsFiniteSet(Key) /\ \A m \in Model : IsFiniteSet(Binds[m])
  /\ Start \in [Table -> [Key -> Nat]]
  /\ Binds \in [Model -> SUBSET Table]
  /\ InitModes \subseteq [Model -> Modes]
  /\ Elementwise \subseteq Model
  /\ \A m, n \in Model : Out[m] \notin Rel /\ (Out[m] = Out[n] => m = n)
  /\ AnyRel \notin Table
  /\ MaxPass \in Nat /\ MaxCapture \in Nat /\ MaxStmts \in Nat /\ MaxSwitches \in Nat

VARIABLES
  db,        \* the committed tables
  mode,      \* improv.model.sync_mode
  capture,   \* the models whose tables have capture triggers
  pc,        \* what each session does
  own,       \* its uncommitted rows
  saved,     \* those at its savepoint, if it has one
  snap,      \* its snapshot, under REPEATABLE READ
  written,   \* WRITTEN: the tables noted
  inner,     \* of these, the ones only the subtransaction wrote
  captured,  \* CAPTURED: the keys seen by each model's triggers on each table
  capOk,     \* CAP_OK: the models whose triggers saw every write of a table
  cache,     \* BOUND: the tables bound in commit mode, as last loaded
  behind,    \* sessions with an invalidation to accept
  held,      \* the models a session has locked
  sub,       \* of these, the ones locked in the subtransaction
  asked,     \* of these, the ones recalc locked (for the properties)
  todo,      \* statements whose triggers are to fire: for which models, the keys touched
  batch,     \* the tables of a round of pre_commit
  models,    \* the models of the round still to recompute
  pass,      \* rounds begun
  switch,    \* the call of set_sync_mode that runs
  stmts, switches

hooks == <<written, inner, captured, capOk>>
locks == <<held, sub, asked>>
commit == <<todo, batch, models, pass>>
bounds == <<stmts, switches>>
vars == <<db, mode, capture, pc, own, saved, snap, hooks, cache, behind, locks, commit, switch, bounds>>

-----------------------------------------------------------------------------
(* What a session sees. *)

NoRows == [t \in Table |-> [k \in Key |-> None]]
Base(b) == IF snap[b] = None THEN db ELSE snap[b].db
ModeSeen(b) == IF snap[b] = None THEN mode ELSE snap[b].mode

Over(base, rows) ==
  [t \in Table |-> [k \in Key |-> IF rows[t][k] = None THEN base[t][k] ELSE rows[t][k]]]

View(b) == Over(Base(b), own[b])

\* A model's results over tables v: at a key, whether all its tables have a one
\* there; of a model that aggregates, at every key, how many ones there are.
Result(m, v) ==
  [k \in Key |->
     IF m \in Elementwise
     THEN IF \A t \in Binds[m] : v[t][k] # 0 THEN 1 ELSE 0
     ELSE Cardinality({x \in Binds[m] \X Key : v[x[1]][x[2]] # 0})]

\* Under REPEATABLE READ, a row that another session changed since cannot be written.
Writable(b, t, k) ==
  /\ \A c \in Backend \ {b} : own[c][t][k] = None
  /\ snap[b] # None => snap[b].db[t][k] = db[t][k]
  /\ switch # None => t \notin switch.locked

\* lock_model: FOR UPDATE, until the transaction ends.
Lockable(b, m) ==
  /\ \A c \in Backend \ {b} : m \notin held[c]
  /\ switch # None => switch.model # m
  /\ snap[b] # None => snap[b].mode[m] = mode[m]

Lock(b, m) ==
  /\ held' = [held EXCEPT ![b] = @ \cup {m}]
  /\ sub' = [sub EXCEPT ![b] = IF saved[b] # None /\ m \notin held[b] THEN @ \cup {m} ELSE @]

-----------------------------------------------------------------------------
(* Hooks and triggers of one write. *)

\* Mutant: models are locked as they come, the last first.
NextModelLast(S) == CHOOSE m \in S : \A n \in S : n <= m

\* ORDER BY m.id, the lock order; triggers fire in the order of their names.
NextModel(S) == CHOOSE m \in S : \A n \in S : m <= n

\* Mutant: a model whose triggers saw one write of the table is taken to have seen all.
SeenOnce(ok, caught) == IF ok = None THEN caught ELSE ok \cup caught

\* seen: of the models that saw every write so far, those that saw this one.
Seen(ok, caught) == IF ok = None THEN caught ELSE ok \cap caught

\* Models with capture triggers on table t that note a statement's rows.
Capturing(t) == {m \in capture : t \in Binds[m] /\ mode[m] = "commit"}

\* Mutant: result tables are given no triggers.
FollowingUsers(t) == {m \in Model : t \in Binds[m] \cap Rel /\ mode[m] = "trigger"}

\* Models with sync triggers on t.
Following(t) == {m \in Model : t \in Binds[m] /\ mode[m] = "trigger"}

\* They fire one after the other, before what was left to do.
Firing(ms, keys, rest) == IF ms = {} THEN rest ELSE <<[models |-> ms, keys |-> keys]>> \o rest

Captures(old, keys) ==
  IF Cardinality(old) + Cardinality(keys) <= MaxCapture THEN old \cup keys ELSE Key

\* Session b changes the rows of t at keys to those of row; the triggers of caught run.
\* executor_finish notes the table, commit_capture the keys; the sync triggers are
\* the first to run of what is left to do.
Writes(b, t, keys, row, caught, rest) ==
  /\ own' = [own EXCEPT ![b][t] = [k \in Key |-> IF k \in keys THEN row[k] ELSE @[k]]]
  /\ written' = [written EXCEPT ![b] = @ \cup {t}]
  /\ inner' = [inner EXCEPT ![b] = IF saved[b] # None /\ t \notin written[b] THEN @ \cup {t} ELSE @]
  /\ captured' = [captured EXCEPT ![b] = [x \in Model \X Table |->
                    IF x[1] \in caught /\ x[2] = t THEN Captures(@[x], keys) ELSE @[x]]]
  /\ capOk' = [capOk EXCEPT ![b][t] = Seen(@, caught)]
  /\ todo' = [todo EXCEPT ![b] = Firing(Following(t), keys, rest)]

\* relcache_callback: an invalidation drops the cache of bound tables.
Accept(b) ==
  /\ cache' = [cache EXCEPT ![b] = IF b \in behind THEN None ELSE @]
  /\ behind' = behind \ {b}

\* The results of m change at those of keys whose value differs (write_results): their
\* table is opened, and invalidations are accepted.
Recomputed(b, m, keys, rest) ==
  LET v == View(b)
      new == Result(m, v)
      at == {k \in (IF m \in Elementwise THEN keys ELSE Key) : new[k] # v[Out[m]][k]} IN
  /\ \A k \in at : Writable(b, Out[m], k)
  /\ IF at = {}
     THEN todo' = [todo EXCEPT ![b] = rest] /\ UNCHANGED <<own, hooks, cache, behind>>
     ELSE Writes(b, Out[m], at, new, Capturing(Out[m]), rest) /\ Accept(b)

-----------------------------------------------------------------------------
ASSUME StartAssumption == \A m \in Model : Start[Out[m]] = Result(m, Start)

Init ==
  /\ mode \in InitModes
  /\ db = Start
  /\ capture \in SUBSET {m \in Model : mode[m] = "commit"}
  /\ pc = [b \in Backend |-> "idle"]
  /\ own = [b \in Backend |-> NoRows]
  /\ saved = [b \in Backend |-> None]
  /\ snap = [b \in Backend |-> None]
  /\ written = [b \in Backend |-> {}]
  /\ inner = [b \in Backend |-> {}]
  /\ captured = [b \in Backend |-> [x \in Model \X Table |-> {}]]
  /\ capOk = [b \in Backend |-> [t \in Table |-> None]]
  /\ cache = [b \in Backend |-> None]
  /\ behind = {}
  /\ held = [b \in Backend |-> {}]
  /\ sub = [b \in Backend |-> {}]
  /\ asked = [b \in Backend |-> {}]
  /\ todo = [b \in Backend |-> <<>>]
  /\ batch = [b \in Backend |-> {}]
  /\ models = [b \in Backend |-> {}]
  /\ pass = [b \in Backend |-> 0]
  /\ switch = None
  /\ stmts = 0 /\ switches = 0

Goto(b, l) == pc' = [pc EXCEPT ![b] = l]

\* "rr": a transaction may be REPEATABLE READ.
Begin(b, rr) ==
  /\ pc[b] = "idle" /\ stmts < MaxStmts
  /\ rr => "rr" \in Env
  /\ snap' = [snap EXCEPT ![b] = IF rr THEN [db |-> db, mode |-> mode] ELSE None]
  /\ Goto(b, "open")
  /\ UNCHANGED <<db, mode, capture, own, saved, hooks, cache, behind, locks, commit, switch, bounds>>

\* A statement that writes one row.  "untriggered": it may run with the capture
\* triggers disabled; sync triggers are the only ones trigger mode has.
Write(b, t, k, v, fires) ==
  /\ pc[b] = "open" /\ stmts < MaxStmts
  /\ v # View(b)[t][k] /\ Writable(b, t, k)
  /\ fires \/ ("untriggered" \in Env /\ Capturing(t) # {} /\ Following(t) = {})
  /\ Writes(b, t, {k}, [x \in Key |-> v], IF fires THEN Capturing(t) ELSE {}, <<>>)
  /\ Goto(b, IF todo'[b] = <<>> THEN "open" ELSE "fires")
  /\ Accept(b)
  /\ stmts' = stmts + 1
  /\ UNCHANGED <<db, mode, capture, saved, snap, locks, batch, models, pass, switch, switches>>

\* TRUNCATE, with CASCADE or not: no transition tables, so every key is touched.
Truncate(b, t, cascade) ==
  /\ "truncate" \in Env
  /\ pc[b] = "open" /\ stmts < MaxStmts
  /\ \A k \in Key : Writable(b, t, k)
  /\ \A c \in Backend \ {b} : own[c][t] = NoRows[t]
  /\ LET caught == Capturing(t)
         all == {t} \cup (IF cascade THEN {AnyRel} ELSE {}) IN
     /\ own' = [own EXCEPT ![b][t] = [k \in Key |-> 0]]
     /\ written' = [written EXCEPT ![b] = @ \cup all]
     /\ inner' = [inner EXCEPT ![b] = IF saved[b] # None THEN @ \cup (all \ written[b]) ELSE @]
     /\ captured' = [captured EXCEPT ![b] = [x \in Model \X Table |->
                       IF x[1] \in caught /\ x[2] = t THEN Key ELSE @[x]]]
     /\ capOk' = [capOk EXCEPT ![b][t] = Seen(@, caught)]
     /\ todo' = [todo EXCEPT ![b] = Firing(Following(t), Key, <<>>)]
  /\ Goto(b, IF todo'[b] = <<>> THEN "open" ELSE "fires")
  /\ Accept(b)
  /\ stmts' = stmts + 1
  /\ UNCHANGED <<db, mode, capture, saved, snap, locks, batch, models, pass, switch, switches>>

\* on_change: lock the model, look at its mode again, recompute at the keys touched.
\* During a round of pre_commit the triggers of the result tables fire, too.
Fire(b) ==
  /\ pc[b] \in {"fires", "recompute"} /\ todo[b] # <<>>
  /\ LET now == Head(todo[b])
         m == NextModel(now.models)
         rest == Firing(now.models \ {m}, now.keys, Tail(todo[b])) IN
     /\ Lockable(b, m) /\ Lock(b, m)
     /\ IF mode[m] = "trigger"
        THEN Recomputed(b, m, now.keys, rest)
        ELSE todo' = [todo EXCEPT ![b] = rest] /\ UNCHANGED <<own, hooks, cache, behind>>
  /\ Goto(b, IF pc[b] = "fires" /\ todo'[b] = <<>> THEN "open" ELSE pc[b])
  /\ UNCHANGED <<db, mode, capture, saved, snap, asked, batch, models, pass, switch, bounds>>

\* recalc(model, measures): lock the model and recompute it in the caller's transaction,
\* whatever its mode.  Its result table's triggers fire.
Recalc(b, m) ==
  /\ "recalc" \in Env
  /\ pc[b] = "open" /\ stmts < MaxStmts
  /\ Lockable(b, m) /\ Lock(b, m)
  /\ asked' = [asked EXCEPT ![b] = @ \cup {m}]
  /\ Recomputed(b, m, Key, <<>>)
  /\ Goto(b, IF todo'[b] = <<>> THEN "open" ELSE "fires")
  /\ stmts' = stmts + 1
  /\ UNCHANGED <<db, mode, capture, saved, snap, batch, models, pass, switch, switches>>

Savepoint(b) ==
  /\ "savepoint" \in Env
  /\ pc[b] = "open" /\ saved[b] = None /\ stmts < MaxStmts
  /\ saved' = [saved EXCEPT ![b] = own[b]]
  /\ UNCHANGED <<db, mode, capture, pc, own, snap, hooks, cache, behind, locks, commit, switch, bounds>>

\* ROLLBACK TO, or an error in it: its rows and locks go, and subxact_callback
\* forgets the tables it alone wrote; the captures stay.
RollbackTo(b) ==
  /\ pc[b] \in {"open", "fires"} /\ saved[b] # None
  /\ own' = [own EXCEPT ![b] = saved[b]]
  /\ saved' = [saved EXCEPT ![b] = None]
  /\ written' = [written EXCEPT ![b] = @ \ inner[b]]
  /\ inner' = [inner EXCEPT ![b] = {}]
  /\ held' = [held EXCEPT ![b] = @ \ sub[b]]
  /\ asked' = [asked EXCEPT ![b] = @ \ sub[b]]
  /\ sub' = [sub EXCEPT ![b] = {}]
  /\ todo' = [todo EXCEPT ![b] = <<>>]
  /\ Goto(b, "open")
  /\ UNCHANGED <<db, mode, capture, snap, captured, capOk, cache, behind, batch, models, pass, switch, bounds>>

-----------------------------------------------------------------------------
(* Before COMMIT. *)

\* hits: the tables of W that a commit-mode model binds.
Hits(set, W) == IF set = {} THEN {} ELSE IF AnyRel \in W THEN {AnyRel} ELSE W \cap set

\* load_bound, by what the session sees of the catalog.
LoadBound(b) == UNION {Binds[m] : m \in {m \in Model : ModeSeen(b)[m] = "commit"}}

\* models_for.
ModelsFor(b, hits) ==
  {m \in Model : ModeSeen(b)[m] = "commit" /\ (AnyRel \in hits \/ Binds[m] \cap hits # {})}

\* pre_commit begins: subtransactions are the transaction's now, invalidations are
\* accepted, and a transaction that wrote no bound table is done.
PreCommit(b) ==
  /\ pc[b] = "open"
  /\ saved' = [saved EXCEPT ![b] = None]
  /\ inner' = [inner EXCEPT ![b] = {}]
  /\ sub' = [sub EXCEPT ![b] = {}]
  /\ Accept(b)
  /\ Goto(b, IF written[b] = {} \/ (cache'[b] # None /\ Hits(cache'[b], written[b]) = {})
             THEN "commit" ELSE "pass")
  /\ UNCHANGED <<db, mode, capture, own, snap, written, captured, capOk, held, asked, commit, switch, bounds>>

\* One round: WRITTEN is drained, bound_hits reloads a cache that was dropped (and
\* keeps none under REPEATABLE READ).
Pass(b) ==
  LET set == IF cache[b] = None THEN LoadBound(b) ELSE cache[b]
      hits == Hits(set, written[b]) IN
  /\ pc[b] = "pass"
  /\ IF pass[b] = MaxPass \/ written[b] = {} \/ hits = {}
     THEN Goto(b, "commit") /\ UNCHANGED <<batch, models, pass>>
     ELSE /\ batch' = [batch EXCEPT ![b] = written[b]]
          /\ models' = [models EXCEPT ![b] = ModelsFor(b, hits)]
          /\ pass' = [pass EXCEPT ![b] = @ + 1]
          /\ Goto(b, "recompute")
  /\ written' = [written EXCEPT ![b] = {}]
  /\ cache' = [cache EXCEPT ![b] = IF snap[b] = None THEN set ELSE @]
  /\ UNCHANGED <<db, mode, capture, own, saved, snap, inner, captured, capOk, behind, locks, todo, switch, bounds>>

\* scoped_captures: the keys to recompute at, all of them unless the model's
\* triggers saw every write of its tables.
Scope(b, m) ==
  LET mine == batch[b] \cap Binds[m] IN
  IF AnyRel \in batch[b] \/ \E t \in mine : capOk[b][t] = None \/ m \notin capOk[b][t]
  THEN Key
  ELSE UNION {captured[b][<<m, t>>] : t \in mine}

\* recompute: lock the model, look at its mode again, recompute.
Recompute(b) ==
  LET m == NextModel(models[b]) IN
  /\ pc[b] = "recompute" /\ todo[b] = <<>> /\ models[b] # {}
  /\ Lockable(b, m) /\ Lock(b, m)
  /\ IF mode[m] = "commit"
     THEN Recomputed(b, m, Scope(b, m), <<>>)
     ELSE UNCHANGED <<own, hooks, todo, cache, behind>>
  /\ models' = [models EXCEPT ![b] = @ \ {m}]
  /\ UNCHANGED <<db, mode, capture, pc, saved, snap, asked, batch, pass, switch, bounds>>

PassEnds(b) ==
  /\ pc[b] = "recompute" /\ todo[b] = <<>> /\ models[b] = {}
  /\ batch' = [batch EXCEPT ![b] = {}]
  /\ Goto(b, "pass")
  /\ UNCHANGED <<db, mode, capture, own, saved, snap, hooks, cache, behind, locks, todo, models, pass, switch, bounds>>

\* The transaction ends; forget.
Ends(b) ==
  /\ own' = [own EXCEPT ![b] = NoRows]
  /\ saved' = [saved EXCEPT ![b] = None]
  /\ snap' = [snap EXCEPT ![b] = None]
  /\ written' = [written EXCEPT ![b] = {}]
  /\ inner' = [inner EXCEPT ![b] = {}]
  /\ captured' = [captured EXCEPT ![b] = [x \in Model \X Table |-> {}]]
  /\ capOk' = [capOk EXCEPT ![b] = [t \in Table |-> None]]
  /\ held' = [held EXCEPT ![b] = {}]
  /\ asked' = [asked EXCEPT ![b] = {}]
  /\ sub' = [sub EXCEPT ![b] = {}]
  /\ todo' = [todo EXCEPT ![b] = <<>>]
  /\ batch' = [batch EXCEPT ![b] = {}]
  /\ models' = [models EXCEPT ![b] = {}]
  /\ pass' = [pass EXCEPT ![b] = 0]
  /\ Goto(b, "idle")
  /\ UNCHANGED <<mode, capture, cache, behind, switch, bounds>>

Commit(b) == pc[b] = "commit" /\ db' = Over(db, own[b]) /\ Ends(b)

\* ROLLBACK, an error in the recompute, a serialization failure, a deadlock or a crash.
Abort(b) == pc[b] # "idle" /\ UNCHANGED db /\ Ends(b)

-----------------------------------------------------------------------------
(* set_sync_mode, in a transaction of its own. *)

NoSwitch == UNCHANGED <<pc, own, saved, snap, hooks, cache, locks, commit>>

\* lock_model.
BeginSwitch(m, to, rows) ==
  /\ switch = None /\ switches < MaxSwitches
  /\ \A b \in Backend : m \notin held[b]
  /\ rows => to = "commit"
  /\ switch' = [model |-> m, to |-> to, rows |-> rows, locked |-> {}]
  /\ switches' = switches + 1
  /\ UNCHANGED <<db, mode, capture, behind, stmts>> /\ NoSwitch

\* SHARE ROW EXCLUSIVE: no session has rows of its own in t.
Guarded(t) == \A b \in Backend : own[b][t] = NoRows[t]

\* guard, or CREATE TRIGGER: table after table, waiting for the writers in flight.
Guard(t) ==
  /\ switch # None /\ switch.to # "manual"
  /\ t \in Binds[switch.model] \ switch.locked
  /\ Guarded(t)
  /\ switch' = [switch EXCEPT !.locked = @ \cup {t}]
  /\ UNCHANGED <<db, mode, capture, behind, bounds>> /\ NoSwitch

\* remove_triggers, then capture triggers if improv.commit_capture says rows.
Capturers(m) == IF switch.rows THEN capture \cup {m} ELSE capture \ {m}

\* The models of live recomputed over tables d.
AllRecomputed(live, d) ==
  [t \in Table |-> IF \E n \in live : Out[n] = t THEN Result(CHOOSE n \in live : Out[n] = t, d) ELSE db[t]]

\* recompute_all writes the results, and as in any transaction the models that read them
\* follow, one after the other.
Followed(live) ==
  LET d[i \in Nat] == IF i = 0 THEN db ELSE AllRecomputed(live, d[i - 1])
  IN AllRecomputed(live, d[Cardinality(Model)])

\* The mode and the triggers are changed, recompute_all brings the results up to
\* date, and the commit invalidates every session's cache.  It waits for the rows of its
\* results and the locks of the models that follow.  These settle, unless models feed each
\* other in a circle: such a switch is left out.
Switch ==
  LET m == switch.model
      live == {n \in Model : mode'[n] # "manual"}
      fed == {n \in live : \E t \in Binds[n] : db'[t] # db[t]} IN
  /\ switch # None
  /\ mode' = [mode EXCEPT ![m] = switch.to]
  /\ capture' = Capturers(m)
  /\ IF switch.to = "manual" THEN UNCHANGED db
     ELSE /\ switch.locked = Binds[m] /\ Guarded(Out[m])
          /\ db' = Followed(live)
          /\ \A n \in live : db'[Out[n]] = Result(n, db')
          /\ \A n \in fed, b \in Backend : n \notin held[b]
  /\ behind' = Backend
  /\ switch' = None
  /\ UNCHANGED bounds /\ NoSwitch

\* It fails, or is the one a deadlock ends.
SwitchFails ==
  /\ switch # None
  /\ switch' = None
  /\ UNCHANGED <<db, mode, capture, behind, bounds>> /\ NoSwitch

-----------------------------------------------------------------------------
Session(b) ==
  \/ \E rr \in BOOLEAN : Begin(b, rr)
  \/ \E t \in Rel, k \in Key, v \in {0, 1}, fires \in BOOLEAN : Write(b, t, k, v, fires)
  \/ \E t \in Rel, cascade \in BOOLEAN : Truncate(b, t, cascade)
  \/ \E m \in Model : Recalc(b, m)
  \/ Fire(b) \/ Savepoint(b) \/ RollbackTo(b)
  \/ PreCommit(b) \/ Pass(b) \/ Recompute(b) \/ PassEnds(b) \/ Commit(b) \/ Abort(b)

SetSyncMode ==
  \/ \E m \in Model, to \in Modes, rows \in BOOLEAN : BeginSwitch(m, to, rows)
  \/ \E t \in Table : Guard(t)
  \/ Switch \/ SwitchFails

Next == (\E b \in Backend : Session(b)) \/ SetSyncMode

Spec == Init /\ [][Next]_vars

-----------------------------------------------------------------------------
(* Properties. *)

Rows == [Table -> [Key -> Nat \cup {None}]]
Noted == SUBSET (Table \cup {AnyRel})
Switches == [model : Model, to : Modes, rows : BOOLEAN, locked : SUBSET Table]

\* The variables have their types; an idle session keeps nothing, and what its
\* subtransaction noted and locked is among what it noted and locked.
TypeOK ==
  /\ db \in [Table -> [Key -> Nat]] /\ mode \in [Model -> Modes]
  /\ capture \subseteq Model /\ \A m \in capture : mode[m] = "commit"
  /\ pc \in [Backend -> {"idle", "open", "fires", "pass", "recompute", "commit"}]
  /\ own \in [Backend -> Rows] /\ saved \in [Backend -> Rows \cup {None}]
  /\ snap \in [Backend -> [db : [Table -> [Key -> Nat]], mode : [Model -> Modes]] \cup {None}]
  /\ {written, inner, batch} \subseteq [Backend -> Noted]
  /\ captured \in [Backend -> [Model \X Table -> SUBSET Key]]
  /\ capOk \in [Backend -> [Table -> (SUBSET Model) \cup {None}]]
  /\ cache \in [Backend -> (SUBSET Table) \cup {None}] /\ behind \subseteq Backend
  /\ {held, sub, asked, models} \subseteq [Backend -> SUBSET Model]
  /\ todo \in [Backend -> Seq([models : (SUBSET Model) \ {{}}, keys : SUBSET Key])]
  /\ pass \in [Backend -> 0 .. MaxPass]
  /\ switch \in Switches \cup {None}
  /\ stmts \in 0 .. MaxStmts /\ switches \in 0 .. MaxSwitches
  /\ \A b \in Backend :
       /\ pc[b] = "idle" => own[b] = NoRows /\ written[b] = {} /\ held[b] = {}
       /\ inner[b] \subseteq written[b] /\ sub[b] \cup asked[b] \subseteq held[b]
       /\ saved[b] = None => inner[b] = {} /\ sub[b] = {}
       /\ models[b] # {} => pc[b] = "recompute"

\* "results commit with it, atomically, visible to others at the same moment": the
\* committed results of a model in trigger or commit mode are those of its committed
\* tables, whichever sessions write at once, whatever they roll back to, whichever
\* rows the captures saw and whenever the mode is switched.
ResultsCurrent ==
  \A m \in Model : mode[m] # "manual" => db[Out[m]] = Result(m, db)

\* "transactional, read-your-writes": in trigger mode, once its statement has
\* returned, a session sees results of the tables it sees.
ReadYourWrites ==
  \A b \in Backend, m \in Model :
    pc[b] = "open" /\ mode[m] = "trigger" => View(b)[Out[m]] = Result(m, View(b))

Waits(b, c) ==
  /\ pc[b] = "recompute" /\ todo[b] = <<>> /\ models[b] # {}
  /\ NextModel(models[b]) \in held[c]

NoLockCycle == \A b \in Backend : \A c \in Backend \ {b} : ~(Waits(b, c) /\ Waits(c, b))

\* Only the last model by id reads what other models compute.
LastReads == \A m, n \in Model : Out[m] \in Binds[n] => \A o \in Model : o <= n

InOrder == (\A m \in Model : mode[m] = "commit") /\ (\A b \in Backend : asked[b] = {})

\* "in id order (the lock order)": two commits never wait for each other, if no
\* transaction locked a model earlier (recalc does), in their first rounds; and in
\* whatever rounds they lock models, if only the last one reads others' results.
NoCommitDeadlock ==
  InOrder /\ (LastReads \/ \A b \in Backend : pass[b] <= 1) => NoLockCycle

\* The same of every round, however the models feed each other.
NoDeadlockInRounds == InOrder => NoLockCycle
=============================================================================
