----------------------------- MODULE ModelStore -----------------------------
(***************************************************************************)
(* The model store over its two backends: handles of several processes on  *)
(* one Mentat file (storage_mentat/src/lib.rs) or one Postgres model       *)
(* (storage_pg/src/lib.rs), behind the surface of store/src/lib.rs.        *)
(*                                                                         *)
(* A model is its measures, one input cell for each, the items of the      *)
(* category a fact table's rows name, and the rest of its structure (other *)
(* items, categories, views, meta) as one bit.  A Mentat load reads the    *)
(* high-water and then each part in a transaction of its own; a Mentat     *)
(* save checks the ids held in memory and then writes in one IMMEDIATE     *)
(* transaction.  A Postgres load is one REPEATABLE READ transaction, and a *)
(* second one, which writes, when the rows name items there are not; a     *)
(* save is one that locks the version row.  Mentat, SQLite and Postgres    *)
(* are external.                                                           *)
(***************************************************************************)
EXTENDS Integers, FiniteSets

CONSTANTS
  Handle,      \* store handles, each of a process of its own
  Measure,     \* measure ids
  Value,       \* values a user gives an input cell
  FactValue,   \* values SQL gives a cell in a fact table
  Name,        \* names of items
  None,        \* no cell, no token, no snapshot
  Nothing, Stale,  \* the views of VersionedStore
  Droppable,   \* bound: the measures that are added and dropped
  Closures,    \* the dependency closures load_partial is asked for
  Bound,       \* the measures bound to fact tables, in Postgres
  Backends,    \* of {"mentat", "pg"}: what Store::open may be given
  Env,         \* what else may happen: see the actions that name it
  MaxItem,     \* bound: item ids
  MaxTx,       \* bound: transaction ids of the store
  MaxPolicies, \* bound: changes of the policies
  MaxPending   \* bound: edits of a model between its saves

ASSUME ConstantsAssumption ==
  /\ None \notin Value \cup FactValue \cup Name \cup Nat
  /\ Droppable \subseteq Measure
  /\ Closures \subseteq SUBSET Measure
  /\ Bound \subseteq Measure
  /\ Backends \subseteq {"mentat", "pg"}
  /\ MaxItem \in Nat /\ MaxTx \in Nat \ {0} /\ MaxPolicies \in Nat /\ MaxPending \in Nat

Cell == Value \cup FactValue \cup {None}
ItemId == 1 .. MaxItem
Items == [ItemId -> Name \cup {None}]
NoItems == [i \in ItemId |-> None]
Content == [measures : SUBSET Measure, rest : BOOLEAN, cells : [Measure -> Cell], items : Items]
Blank == [measures |-> {}, rest |-> FALSE, cells |-> [m \in Measure |-> None], items |-> NoItems]

\* The views that hold nothing are no contents.
ASSUME ViewsAssumption == Nothing # Stale /\ {Nothing, Stale, None} \cap Content = {}

\* The model of a process that builds one and has loaded none.
New == [Blank EXCEPT !.measures = Measure \ Droppable]

VARIABLES
  backend,   \* Store::Mentat or Store::Pg
  disk,      \* what is stored; a bound measure's cell is in its fact table
  dims,      \* the names in the dimension columns of the fact tables' rows
  hw,        \* tx_high_water: TX_HIGH_WATER_SQL, or improv.model_version.tx
  newest,    \* the newest transaction id in the log
  policy,    \* the version of the access policies in a Mentat store
  loadedTx,  \* ModelStore.loaded_tx, PgModelStore.loaded_tx
  snap,      \* PgModelStore.loaded; of a Mentat handle, what it last loaded or saved
  scope,     \* ModelStore.loaded_scope: all measures after a full load
  ids,       \* Store::last_tx_id in a write: the newest id the Mentat handle knows
  model,     \* the model in the handle's process
  pending,   \* its edits since the last load or save
  pc,        \* where the handle's process is
  part       \* what a load has read so far

store == <<backend, disk, dims, hw, newest, policy>>
token == <<loadedTx, snap, scope>>
vars == <<store, token, ids, model, pending, pc, part>>

-----------------------------------------------------------------------------
Pg == backend = "pg"
InFacts == IF Pg THEN Bound ELSE {}

\* The cells of the measures of S, and of no other.
Cells(c, S) == [m \in Measure |-> IF m \in S THEN c.cells[m] ELSE None]

\* What a load reads cannot be made a model: a cell or a binding of a measure
\* that was not read (value_type_of; "cell for unknown measure").
Unreadable(c, measures, S) ==
  \E m \in S \ measures :
    IF Pg THEN m \in Bound \/ c.cells[m] # None ELSE m \in c.measures /\ c.cells[m] # None

\* The names that items have, and the id a new one is given (next_id, mint_items).
Names(items) == {items[i] : i \in ItemId} \ {None}
IsNext(items, i) ==
  /\ \A j \in ItemId : j >= i => items[j] = None
  /\ i # 1 => items[i - 1] # None

\* ChangeSet::between what the handle loaded or saved and the model.
Named(h) == {m \in Measure : snap[h].cells[m] # model[h].cells[m]}
Structure(h) ==
  \/ snap[h].measures # model[h].measures
  \/ snap[h].rest # model[h].rest
  \/ snap[h].items # model[h].items

Init ==
  /\ backend \in Backends
  /\ disk \in {[measures |-> Measure, rest |-> FALSE, cells |-> [m \in Measure |-> v], items |-> NoItems] :
                 v \in Value}
  /\ dims = {}
  /\ hw = 1 /\ newest = 1 /\ policy = 0
  /\ loadedTx = [h \in Handle |-> None]
  /\ snap = [h \in Handle |-> None]
  /\ scope = [h \in Handle |-> Measure]
  /\ ids = [h \in Handle |-> 0]
  /\ model = [h \in Handle |-> New]
  /\ pending = [h \in Handle |-> 0]
  /\ pc = [h \in Handle |-> "closed"]
  /\ part = [h \in Handle |-> None]

Goto(h, l) == pc' = [pc EXCEPT ![h] = l]
Ends(h) ==
  /\ Goto(h, "idle")
  /\ ids' = [ids EXCEPT ![h] = 0]

-----------------------------------------------------------------------------
(* Handles. *)

Open(h) ==
  /\ pc[h] = "closed"
  /\ Goto(h, "idle")
  /\ UNCHANGED <<store, token, ids, model, pending, part>>

\* The handle as Open finds it.
Closed(h) ==
  /\ loadedTx' = [loadedTx EXCEPT ![h] = None]
  /\ snap' = [snap EXCEPT ![h] = None]
  /\ scope' = [scope EXCEPT ![h] = Measure]
  /\ ids' = [ids EXCEPT ![h] = 0]
  /\ model' = [model EXCEPT ![h] = New]
  /\ pending' = [pending EXCEPT ![h] = 0]
  /\ part' = [part EXCEPT ![h] = None]
  /\ Goto(h, "closed")

\* The process ends, or dies: in the middle of a load, or with a save begun
\* and not committed.
Close(h) == pc[h] # "closed" /\ Closed(h) /\ UNCHANGED store

-----------------------------------------------------------------------------
(* Loads: load_model (S = Measure, all) and load_partial (a closure S), by a  *)
(* process that has no edits or has put them aside.                           *)

\* Mutant: the high-water is read when the parts have been.
LoadedLate(h, tx, S, c) ==
  /\ loadedTx' = [loadedTx EXCEPT ![h] = hw]
  /\ snap' = [snap EXCEPT ![h] = c]
  /\ scope' = [scope EXCEPT ![h] = S]
  /\ model' = [model EXCEPT ![h] = c]
  /\ pending' = [pending EXCEPT ![h] = 0]
  /\ part' = [part EXCEPT ![h] = None]
  /\ Ends(h)

\* The model read is the process's now; tx is the mark its saves are checked by.
Loaded(h, tx, S, c) ==
  /\ loadedTx' = [loadedTx EXCEPT ![h] = tx]
  /\ snap' = [snap EXCEPT ![h] = c]
  /\ scope' = [scope EXCEPT ![h] = S]
  /\ model' = [model EXCEPT ![h] = c]
  /\ pending' = [pending EXCEPT ![h] = 0]
  /\ part' = [part EXCEPT ![h] = None]
  /\ Ends(h)

\* Mentat: the high-water first, in a read transaction of its own.
BeginLoad(h, S, all) ==
  /\ ~Pg /\ pc[h] = "idle" /\ pending[h] = 0
  /\ part' = [part EXCEPT ![h] = [tx |-> hw, all |-> all, scope |-> S, read |-> Blank, new |-> {}]]
  /\ Goto(h, "measures")
  /\ UNCHANGED <<store, token, ids, model, pending>>

\* load_categories, load_items, load_measures.
LoadMeasures(h) ==
  /\ pc[h] = "measures"
  /\ part' = [part EXCEPT ![h].read.measures = disk.measures]
  /\ Goto(h, IF part[h].all THEN "cells" ELSE "meta")
  /\ UNCHANGED <<store, token, ids, model, pending>>

\* load_cells, of the scope; the last read of a partial load.
LoadCells(h) ==
  LET p == part[h]
      c == [p.read EXCEPT !.cells = Cells(disk, p.scope \cap disk.measures)] IN
  /\ pc[h] = "cells"
  /\ IF Unreadable(disk, p.read.measures, p.scope)
     THEN /\ part' = [part EXCEPT ![h] = None]
          /\ Ends(h)
          /\ UNCHANGED <<store, token, model, pending>>
     ELSE IF p.all
     THEN /\ part' = [part EXCEPT ![h].read = c]
          /\ Goto(h, "meta")
          /\ UNCHANGED <<store, token, ids, model, pending>>
     ELSE Loaded(h, p.tx, p.scope, c) /\ UNCHANGED store

\* load_views, load_meta; the last read of a full load.
LoadMeta(h) ==
  LET p == part[h]
      c == [p.read EXCEPT !.rest = disk.rest] IN
  /\ pc[h] = "meta"
  /\ IF p.all
     THEN Loaded(h, p.tx, Measure, c) /\ UNCHANGED store
     ELSE /\ part' = [part EXCEPT ![h].read = c]
          /\ Goto(h, "cells")
          /\ UNCHANGED <<store, token, ids, model, pending>>

\* The names a load of S finds in fact tables' rows and knows no item for.
Unknown(S) == IF InFacts \cap S \cap disk.measures = {} THEN {} ELSE dims \ Names(disk.items)

\* Postgres: the version and the data in one snapshot.
LoadPg(h, S) ==
  LET c == [disk EXCEPT !.cells = Cells(disk, S)] IN
  /\ Pg /\ pc[h] = "idle" /\ pending[h] = 0
  /\ IF Unreadable(disk, disk.measures, S)
     THEN /\ Ends(h)
          /\ UNCHANGED <<store, token, model, pending, part>>
     ELSE IF Unknown(S) = {}
     THEN Loaded(h, hw, S, c) /\ UNCHANGED store
     ELSE /\ part' = [part EXCEPT ![h] = [tx |-> hw, all |-> FALSE, scope |-> S, read |-> c, new |-> Unknown(S)]]
          /\ Goto(h, "minting")
          /\ UNCHANGED <<store, token, ids, model, pending>>

\* improv.mint_items: names that have no item yet are given the next ids, in some order.
Minted(items, new, minted) ==
  /\ Names(minted) = Names(items) \cup new
  /\ \A i \in ItemId :
       IF items[i] # None THEN minted[i] = items[i]
       ELSE minted[i] # None =>
              /\ \A j \in ItemId : items[j] # None => j < i
              /\ i # 1 => minted[i - 1] # None
              /\ \A j \in ItemId \ {i} : minted[j] # minted[i]

\* What is minted, here or by others meanwhile, joins the model that was read.
Joined(p, minted) ==
  [p.read EXCEPT !.items = [i \in ItemId |-> IF minted[i] \in p.new THEN minted[i] ELSE @[i]]]

\* Then, read committed and in a transaction of its own, which leaves the version alone.
Mint(h) ==
  LET p == part[h] IN
  /\ pc[h] = "minting"
  /\ \E minted \in Items :
       /\ Minted(disk.items, p.new, minted)
       /\ disk' = [disk EXCEPT !.items = minted]
       /\ Loaded(h, p.tx, p.scope, Joined(p, minted))
  /\ UNCHANGED <<backend, dims, hw, newest, policy>>

\* The load fails then or after it ("two rows for one coordinate").
MintFails(h) ==
  /\ pc[h] = "minting"
  /\ \E minted \in Items :
       /\ minted = disk.items \/ Minted(disk.items, part[h].new, minted)
       /\ disk' = [disk EXCEPT !.items = minted]
  /\ part' = [part EXCEPT ![h] = None]
  /\ Ends(h)
  /\ UNCHANGED <<backend, dims, hw, newest, policy, token, model, pending>>

-----------------------------------------------------------------------------
(* Edits of the model in memory. *)

Edited(h, c) ==
  /\ pc[h] = "idle" /\ pending[h] < MaxPending /\ c # model[h]
  /\ model' = [model EXCEPT ![h] = c]
  /\ pending' = [pending EXCEPT ![h] = @ + 1]
  /\ UNCHANGED <<store, token, ids, pc, part>>

\* A partial model is edited where it was loaded.
SetCell(h, m, v) ==
  /\ m \in model[h].measures \cap scope[h]
  /\ Edited(h, [model[h] EXCEPT !.cells[m] = v])

AddMeasure(h, m) ==
  /\ m \in Droppable \ model[h].measures
  /\ Edited(h, [model[h] EXCEPT !.measures = @ \cup {m}])

\* "partialDrop": of a measure whose cells were not loaded; "dropBound": of one
\* that is bound to a fact table.
DropMeasure(h, m) ==
  /\ m \in Droppable \cap model[h].measures
  /\ m \in scope[h] \/ "partialDrop" \in Env
  /\ m \notin InFacts \/ "dropBound" \in Env
  /\ Edited(h, [model[h] EXCEPT !.measures = @ \ {m}, !.cells[m] = None])

\* An item of a fact table's category: a new one gets the next id of the model's own
\* (Authority's next_id).
AddItem(h, n) ==
  /\ InFacts # {} /\ n \notin Names(model[h].items)
  /\ \E i \in ItemId : IsNext(model[h].items, i) /\ Edited(h, [model[h] EXCEPT !.items[i] = n])

DropItem(h, i) == Edited(h, [model[h] EXCEPT !.items[i] = None])

EditRest(h) == Edited(h, [model[h] EXCEPT !.rest = ~@])

\* The process puts its edits aside, as it does to reload after a conflict.
Discard(h) ==
  /\ pc[h] = "idle" /\ pending[h] > 0
  /\ model' = [model EXCEPT ![h] = IF snap[h] = None THEN New ELSE snap[h]]
  /\ pending' = [pending EXCEPT ![h] = 0]
  /\ UNCHANGED <<store, token, ids, pc, part>>

-----------------------------------------------------------------------------
(* Saves: save_model ("model", all cells) and save_changes ("changes", what   *)
(* ChangeSet::between names).  Without a token Store::save_changes saves the  *)
(* whole model.                                                               *)

Whole(h, kind) == kind = "model" \/ loadedTx[h] = None

\* The items that a save of the structure leaves: the model's, and those that others
\* added since the handle's snapshot; without one, the model's.
Kept(h) ==
  [i \in ItemId |-> IF model[h].items[i] # None THEN model[h].items[i]
                    ELSE IF snap[h] = None \/ snap[h].items[i] # None THEN None
                    ELSE disk.items[i]]

\* What is stored once the cells of W are written as the model has them and
\* those of D deleted, with the structure if s.
Written(h, s, measures, W, D) ==
  [measures |-> IF s THEN measures ELSE disk.measures,
   rest |-> IF s THEN model[h].rest ELSE disk.rest,
   items |-> IF s THEN Kept(h) ELSE disk.items,
   cells |-> [m \in Measure |-> IF m \in W THEN model[h].cells[m]
                               ELSE IF m \in D THEN None ELSE disk.cells[m]]]

\* Mentat: a full save drops the stored cells of its scope that the model lacks;
\* a save of changes those of the dropped measures.
MentatWrites(h, kind) ==
  IF Whole(h, kind)
  THEN Written(h, TRUE, model[h].measures, {m \in Measure : model[h].cells[m] # None}, scope[h])
  ELSE Written(h, Structure(h), model[h].measures, Named(h),
               IF Structure(h) THEN disk.measures \ model[h].measures ELSE {})

\* Mutant: the cells the model has lost are left out.
ChangedSet(h, measures) == {m \in Named(h) : model[h].cells[m] # None}

\* The cells a Postgres save writes or deletes: bound ones of the measures it keeps.
Changed(h, measures) == {m \in Named(h) : m \in InFacts => m \in measures}

\* Postgres, with a snapshot: rows it held and the model dropped go, cells that
\* changed are written.  Without one: the model replaces all but the fact
\* tables' other cells.
PgWrites(h, kind) ==
  LET s == Whole(h, kind) \/ Structure(h)
      mine == IF s THEN model[h].measures ELSE disk.measures IN
  IF snap[h] = None
  THEN Written(h, TRUE, model[h].measures,
               {m \in Measure : model[h].cells[m] # None}, Measure \ InFacts)
  ELSE Written(h, s, (disk.measures \ (snap[h].measures \ model[h].measures)) \cup model[h].measures,
               Changed(h, mine),
               IF s /\ kind = "changes" THEN (snap[h].measures \ model[h].measures) \ InFacts ELSE {})

\* "again": a model is saved that has not changed since.
Saves(h) == pending[h] > 0 \/ "again" \in Env

\* fresh_for_write, of a save or of save_policies: a Mentat store whose ids are
\* behind the log's is opened again.
FreshForWrite(h, what) ==
  /\ ~Pg /\ pc[h] = "idle"
  /\ IF what = "saving" THEN Saves(h) ELSE "policy" \in Env /\ policy < MaxPolicies
  /\ ids' = [ids EXCEPT ![h] = newest]
  /\ Goto(h, what)
  /\ UNCHANGED <<store, token, model, pending, part>>

Moved(h) == loadedTx[h] # None /\ loadedTx[h] # hw

Refuse(h) == Ends(h) /\ UNCHANGED <<store, token, model, pending, part>>

\* The save is committed: c is stored, and tx is the mark from now on.
Commit(h, c, tx) ==
  /\ disk' = c
  /\ hw' = tx
  /\ loadedTx' = [loadedTx EXCEPT ![h] = tx]
  /\ snap' = [snap EXCEPT ![h] = model[h]]
  /\ pending' = [pending EXCEPT ![h] = 0]
  /\ Ends(h)
  /\ UNCHANGED <<backend, dims, policy, scope, model, part>>

\* "race": another process commits between fresh_for_write and the IMMEDIATE
\* transaction of a write that no conflict check refuses.
InTime(h) == ids[h] = newest \/ "race" \in Env

\* Mentat: the conflict check and the writes, in one IMMEDIATE transaction.  Ids
\* come from memory; a save that changes no datom leaves the high-water alone.
SaveMentat(h, kind) ==
  LET c == MentatWrites(h, kind) IN
  /\ pc[h] = "saving"
  /\ IF Moved(h)
     THEN Refuse(h)
     ELSE /\ InTime(h) /\ ids[h] < MaxTx
          /\ newest' = ids[h] + 1
          /\ Commit(h, c, IF c = disk THEN hw ELSE ids[h] + 1)

\* Mutant: the parts written before the failing one stay.
SaveFailsHalf(h) ==
  /\ pc[h] \in {"saving", "policies"}
  /\ disk' = IF pc[h] = "saving" THEN MentatWrites(h, "model") ELSE disk
  /\ Ends(h)
  /\ UNCHANGED <<backend, dims, hw, newest, policy, token, model, pending, part>>

\* Any step fails: the transaction is rolled back.
SaveFails(h) == pc[h] \in {"saving", "policies"} /\ Refuse(h)

\* Mutant: a bound cell is written whatever is stored.
BlockedNever(h) == {}

\* write_bound: bound cells to write that changed since the load.
Blocked(h) ==
  {m \in Named(h) \cap InFacts \cap model[h].measures : disk.cells[m] # snap[h].cells[m]}

\* The upsert of the items, row by row in some order: item_name_uniq refuses a name
\* that another row has by then.
Fits(h) ==
  \E at \in [ItemId -> ItemId] : \A i, j \in ItemId :
    i # j /\ model[h].items[i] # None /\ disk.items[j] = model[h].items[i] =>
      model[h].items[j] # None /\ at[j] < at[i]

\* check_measures_saved: the change set names a cell of a measure that the database
\* does not hold once the structure is written.
Malformed(h, kind) ==
  snap[h] # None /\ ~Whole(h, kind) /\ ~(Named(h) \subseteq PgWrites(h, kind).measures)

\* Postgres: one transaction with the version row locked.
SavePg(h, kind) ==
  LET c == PgWrites(h, kind) IN
  /\ Pg /\ pc[h] = "idle" /\ hw < MaxTx /\ Saves(h)
  /\ Bound \subseteq model[h].measures \/ "dropBound" \in Env
  /\ IF \/ Moved(h)
        \/ (Whole(h, kind) \/ Structure(h)) /\ ~Fits(h)
        \/ Malformed(h, kind)
        \/ snap[h] # None /\ Blocked(h) # {}
     THEN Refuse(h)
     ELSE /\ newest' = hw + 1
          /\ Commit(h, c, hw + 1)

\* save_policies: no conflict check.  "policyLoaded": by a handle that goes on to
\* save a model it loaded; `improv policy set` loads one, and exits.
SavePolicies(h) ==
  /\ pc[h] = "policies"
  /\ InTime(h) /\ ids[h] < MaxTx /\ policy < MaxPolicies
  /\ newest' = ids[h] + 1
  /\ hw' = ids[h] + 1
  /\ policy' = policy + 1
  /\ UNCHANGED <<backend, disk, dims>>
  /\ IF "policyLoaded" \in Env
     THEN /\ loadedTx' = [loadedTx EXCEPT ![h] = IF @ = None THEN None ELSE hw']
          /\ Ends(h)
          /\ UNCHANGED <<snap, scope, model, pending, part>>
     ELSE Closed(h)

\* improv.set_policies: a table of their own, and the model's version stays.
SetPoliciesPg(h) ==
  /\ Pg /\ pc[h] = "idle" /\ "policy" \in Env
  /\ Ends(h)
  /\ UNCHANGED <<store, token, model, pending, part>>

\* "fact": SQL changes a bound measure's fact table.
WriteFact(m, v) ==
  /\ "fact" \in Env /\ m \in InFacts /\ v # disk.cells[m]
  /\ disk' = [disk EXCEPT !.cells[m] = v]
  /\ UNCHANGED <<backend, dims, hw, newest, policy, token, ids, model, pending, pc, part>>

\* ... or inserts and deletes rows, whose names need not be items'.
WriteRows(N) ==
  /\ "fact" \in Env /\ InFacts # {} /\ N # dims
  /\ dims' = N
  /\ UNCHANGED <<backend, disk, hw, newest, policy, token, ids, model, pending, pc, part>>

-----------------------------------------------------------------------------
Load(h) ==
  \/ BeginLoad(h, Measure, TRUE) \/ \E S \in Closures : BeginLoad(h, S, FALSE)
  \/ LoadMeasures(h) \/ LoadCells(h) \/ LoadMeta(h)
  \/ (\E S \in Closures \cup {Measure} : LoadPg(h, S)) \/ Mint(h) \/ MintFails(h)

Edit(h) ==
  \/ \E m \in Measure : AddMeasure(h, m) \/ DropMeasure(h, m) \/ \E v \in Value \cup {None} : SetCell(h, m, v)
  \/ (\E n \in Name : AddItem(h, n)) \/ \E i \in ItemId : DropItem(h, i)
  \/ EditRest(h) \/ Discard(h)

Save(h) == \E kind \in {"model", "changes"} : SaveMentat(h, kind) \/ SavePg(h, kind)

Write(h) ==
  \/ FreshForWrite(h, "saving") \/ FreshForWrite(h, "policies")
  \/ Save(h) \/ SaveFails(h) \/ SavePolicies(h) \/ SetPoliciesPg(h)

Next ==
  \/ \E h \in Handle : Open(h) \/ Close(h) \/ Load(h) \/ Edit(h) \/ Write(h)
  \/ \E m \in Measure, v \in FactValue : WriteFact(m, v)
  \/ \E N \in SUBSET Name : WriteRows(N)

Spec == Init /\ [][Next]_vars

-----------------------------------------------------------------------------
(* Properties. *)

\* What a load holds between its transactions.
Loading(h) == pc[h] \in {"measures", "cells", "meta", "minting"}
Partial == [tx : 1 .. MaxTx, all : BOOLEAN, scope : SUBSET Measure, read : Content, new : SUBSET Name]

TypeOK ==
  /\ backend \in Backends
  /\ disk \in Content
  /\ dims \in SUBSET Name
  /\ hw \in 1 .. MaxTx /\ newest \in 1 .. MaxTx /\ policy \in 0 .. MaxPolicies
  /\ loadedTx \in [Handle -> 1 .. MaxTx \cup {None}]
  /\ snap \in [Handle -> Content \cup {None}]
  /\ scope \in [Handle -> SUBSET Measure]
  /\ ids \in [Handle -> 0 .. MaxTx]
  /\ model \in [Handle -> Content]
  /\ pending \in [Handle -> 0 .. MaxPending]
  /\ pc \in [Handle -> {"closed", "idle", "measures", "cells", "meta", "minting", "saving", "policies"}]
  /\ part \in [Handle -> Partial \cup {None}]
  /\ \A h \in Handle : IF Loading(h) THEN part[h] \in Partial ELSE part[h] = None
  /\ \A h \in Handle : loadedTx[h] = None <=> snap[h] = None

\* What a handle holds while the store's mark is its own is what is stored, although
\* a load reads the mark and the parts one by one and other writers run between
\* them: without it, a save that passes the conflict check would undo another's.
\* Others' loads may have minted items since, but each it holds is stored as it has it.
BaseIsCurrent ==
  \A h \in Handle : loadedTx[h] = hw =>
    /\ snap[h].measures = disk.measures /\ snap[h].rest = disk.rest
    /\ \A m \in scope[h] \ InFacts : snap[h].cells[m] = disk.cells[m]
    /\ \A i \in ItemId : snap[h].items[i] \in {None, disk.items[i]}

\* "refused with Conflict, writing nothing, if another writer committed since", and
\* "cells of measures the load skipped are left as they are": a handle that loaded
\* changes a cell only from the value it saw, bound cells too, and only where it looked,
\* and drops no item that it did not hold ("rows another client added survive").
NoBlindWrite ==
  [][\A h \in Handle : Save(h) /\ loadedTx[h] # None =>
       /\ \A m \in Measure : disk'.cells[m] # disk.cells[m] =>
            m \in scope[h] /\ snap[h].cells[m] = disk.cells[m]
       /\ \A i \in ItemId : disk.items[i] # None /\ disk'.items[i] = None =>
            snap[h].items[i] = disk.items[i]]_vars

\* The same of an item that is overwritten: with "fact" it is not so, since the id a
\* client gives a new item may be of one minted under the version it loaded.
ItemsSurvive ==
  [][\A h \in Handle : Save(h) /\ loadedTx[h] # None =>
       \A i \in ItemId : disk.items[i] \notin {None, disk'.items[i]} =>
         snap[h].items[i] = disk.items[i]]_vars

\* What any sequence of saves leaves can be loaded again.
StoreLoads == ~Unreadable(disk, disk.measures, Measure)

\* A model whose cells are all of its own measures is never refused as malformed,
\* so a change the user made can be saved.
SavesAreTaken ==
  \A h \in Handle : Pg /\ ~Moved(h) => ~Malformed(h, "changes")

\* Every transaction of a Mentat store has an id of its own, so no new entity is
\* given one that another process's has (fresh_for_write).
IdsAreNew == [][~Pg /\ (disk' # disk \/ policy' # policy) => newest' > newest]_vars

-----------------------------------------------------------------------------
(* Both backends are a VersionedStore. *)

\* What a version covers: facts and the items minted for them change under it.
Public(c) == [c EXCEPT !.cells = Cells(c, Measure \ InFacts), !.items = NoItems]

\* What a handle holds, with what a partial load skipped as it is stored.
View(h) ==
  IF loadedTx[h] = None THEN Nothing
  ELSE IF loadedTx[h] # hw THEN Stale
  ELSE Public([snap[h] EXCEPT !.cells = [m \in Measure |->
                 IF m \in scope[h] THEN snap[h].cells[m] ELSE disk.cells[m]]])

Abstract == INSTANCE VersionedStore WITH
  content <- Public(disk), view <- [h \in Handle |-> View(h)]

\* A store's saves are taken from handles that hold what is stored, and from those
\* that hold nothing; no other step changes what is stored of what a version covers.
IsVersioned == Abstract!Spec
=============================================================================
