----------------------------- MODULE SyncWorker -----------------------------
(***************************************************************************)
(* The logical-decoding sync worker of pg_improv (pg_improv/src/worker.rs  *)
(* with pg_model/src/live.rs).  One worker thread reads one replication    *)
(* slot for every model of the database, routes each decoded transaction   *)
(* to the models that bind its relations, and keeps each model's result    *)
(* tables equal to what its bound tables hold.                             *)
(*                                                                         *)
(* A sweep is a sequence of database transactions: list the models, make   *)
(* sure the slot exists, decode it, give every model its share (tick),     *)
(* write the engine rounds that ended (finish), move the slot.  Each of    *)
(* them is one action, so sessions commit, change models and switch modes  *)
(* between any two of them, and the worker may die between any two.        *)
(*                                                                         *)
(* Data abstraction.  A WAL position is the number of the transaction that *)
(* ends there.  A bound relation holds one row that matters; its content   *)
(* is the number of the transaction that last wrote it, and a result table *)
(* is the definition and the content it was computed from.  An input cell  *)
(* is set by the last change applied to it (live.rs, a binding without     *)
(* agg).                                                                   *)
(***************************************************************************)
EXTENDS Integers, Sequences, FiniteSetsExt

CONSTANTS
  Model,        \* model ids; a sweep visits them in id order
  Rel,          \* relations that models bind
  Binds,        \* Binds[m]: the relations model m binds
  Broken,       \* models whose every tick fails (a formula the engine refuses)
  Env,          \* what the environment does beyond committing rows
  MaxTxn,       \* bound: transactions in the WAL
  MaxVersion,   \* bound: changes of one model's definition
  MaxFaults     \* bound: crashes, errors and slot losses

EnvKinds ==
  {"define",     \* sessions change a model's definition (model_version moves)
   "toggle",     \* sessions take a model out of logical mode and back
   "partition",  \* partitions are truncated, attached or detached
   "lag",        \* a commit is in the WAL before a snapshot shows it
   "lose",       \* the slot is dropped by hand, invalidated, or lags too far
   "error",      \* a worker transaction or an engine round fails
   "reset",      \* so does the transaction that resets the progress
   "crash"}      \* the worker process dies

ASSUME ModelAssumption == Model \subseteq Nat
ASSUME BindsAssumption == Binds \in [Model -> SUBSET Rel]
ASSUME BrokenAssumption == Broken \subseteq Model
ASSUME EnvAssumption == Env \subseteq EnvKinds
ASSUME BoundAssumption == MaxTxn \in Nat /\ MaxVersion \in Nat /\ MaxFaults \in Nat

VARIABLES
  (* the database *)
  wal,       \* committed transactions: what each changed and what is published
  hidden,    \* transactions in the WAL that no snapshot shows yet
  table,     \* the bound relations' content, as a snapshot shows it
  version,   \* improv.model_version
  logical,   \* models in logical mode (each has a row in improv.sync_state)
  sync,      \* improv.sync_state: recorded progress, and whether caught up once
  res,       \* the result tables of each model
  slot,      \* the replication slot improv_db
  faults,    \* faults so far
  (* the worker's memory *)
  live,      \* LIVE: models kept loaded, each with its engine
  inflight,  \* INFLIGHT: batches whose engine round runs
  waiting,   \* RETRY: failing models whose retry is not due
  parts,     \* PARTITIONS: each model's partitions as last seen, or None
  peekedTo,  \* PEEKED_TO: where the last complete decode ended
  (* the sweep *)
  pc,        \* the transaction the worker runs next
  listed,    \* the listing of this sweep
  todo,      \* listed models this sweep has not visited
  done,      \* the decoded transactions
  upto,      \* how far this decode lets the slot move (0: not at all)
  held       \* where the batches of skipped models start

database == <<wal, hidden, table, version, logical, sync, res, slot>>
memory == <<live, inflight, waiting, parts, peekedTo>>
sweep == <<pc, listed, todo, done, upto, held>>
vars == <<database, memory, sweep, faults>>

-----------------------------------------------------------------------------
None == -1

Empty == [r \in Rel |-> 0]
Unsynced == [confirmed |-> 0, caughtUp |-> FALSE]
NoLive == [on |-> FALSE, version |-> 0, data |-> Empty]
NoRound == [on |-> FALSE, ended |-> FALSE, version |-> 0, data |-> Empty,
            touched |-> {}, first |-> 0, last |-> 0]
NotListed == [version |-> 0, caughtUp |-> FALSE, confirmed |-> 0, partitions |-> 0]

\* The transactions in the WAL.
Txns == 1 .. Len(wal)

\* The publication: the relations bound by the models in logical mode.
Published == UNION {Binds[m] : m \in logical}

\* Which partitions model m's relations have: every move changes it.
Partitions(m) == Max({0} \cup {i \in Txns : wal[i].moved /\ wal[i].rels \cap Binds[m] # {}})

\* What a load of model m reads from its tables now.
Load(m) == [r \in Rel |-> IF r \in Binds[m] THEN table[r] ELSE 0]

\* A live state just built from the tables, and the results a rebuild writes.
Rebuilt(m) == [on |-> TRUE, version |-> version[m], data |-> Load(m)]
Computed(m) == [version |-> version[m], data |-> Load(m)]

\* Mapper::map: data after the changes of txns, the last change to a cell wins.
Mapped(m, data, txns) ==
  [r \in Rel |->
     LET w == {i \in txns : r \in wal[i].sent \cap Binds[m]}
     IN IF w = {} THEN data[r] ELSE Max(w)]

\* record(): the model's progress, with its result writes.  A model that left
\* logical mode has no row to update.
Record(m, lsn) ==
  sync' = IF m \in logical
          THEN [sync EXCEPT ![m] = [confirmed |-> IF lsn = None THEN @.confirmed ELSE lsn,
                                    caughtUp |-> TRUE]]
          ELSE sync

\* A fault of this kind may happen once more.
Fault(kind) ==
  /\ kind \in Env
  /\ faults < MaxFaults
  /\ faults' = faults + 1

Init ==
  /\ wal = <<>>
  /\ hidden = {}
  /\ table = Empty
  /\ version = [m \in Model |-> 0]
  /\ logical = Model
  /\ sync = [m \in Model |-> Unsynced]
  /\ res = [m \in Model |-> [version |-> 0, data |-> Empty]]
  /\ slot = [state |-> "none", at |-> 0]
  /\ faults = 0
  /\ live = [m \in Model |-> NoLive]
  /\ inflight = [m \in Model |-> NoRound]
  /\ waiting = {}
  /\ parts = [m \in Model |-> None]
  /\ peekedTo = 0
  /\ pc = "idle"
  /\ listed = [m \in Model |-> NotListed]
  /\ todo = {}
  /\ done = {}
  /\ upto = 0
  /\ held = {}

-----------------------------------------------------------------------------
(* Sessions and the server. *)

\* A session commits changes to rels.  Writers of one row wait for each other,
\* so no earlier writer of rels is still hidden.
Commit(rels) ==
  /\ Len(wal) < MaxTxn
  /\ \A i \in hidden : wal[i].rels \cap rels = {}
  /\ wal' = Append(wal, [rels |-> rels, sent |-> rels \cap Published, moved |-> FALSE])
  /\ \/ /\ table' = [r \in Rel |-> IF r \in rels THEN Len(wal) + 1 ELSE table[r]]
        /\ UNCHANGED hidden
     \/ /\ "lag" \in Env
        /\ hidden' = hidden \cup {Len(wal) + 1}
        /\ UNCHANGED table
  /\ UNCHANGED <<version, logical, sync, res, slot, memory, sweep, faults>>

\* A committed transaction leaves the list of running ones: snapshots show it.
Show(i) ==
  /\ i \in hidden
  /\ hidden' = hidden \ {i}
  /\ table' = [r \in Rel |-> IF r \in wal[i].rels THEN i ELSE table[r]]
  /\ UNCHANGED <<wal, version, logical, sync, res, slot, memory, sweep, faults>>

\* A partition of r is truncated, attached or detached: rows move, and the
\* publication sends no row change.
MovePartition(r) ==
  /\ "partition" \in Env
  /\ Len(wal) < MaxTxn
  /\ \A i \in hidden : r \notin wal[i].rels
  /\ wal' = Append(wal, [rels |-> {r}, sent |-> {}, moved |-> TRUE])
  /\ table' = [table EXCEPT ![r] = Len(wal) + 1]
  /\ UNCHANGED <<hidden, version, logical, sync, res, slot, memory, sweep, faults>>

\* A session changes model m's definition, owner or bindings' measures.
Define(m) ==
  /\ "define" \in Env
  /\ version[m] < MaxVersion
  /\ version' = [version EXCEPT ![m] = @ + 1]
  /\ UNCHANGED <<wal, hidden, table, logical, sync, res, slot, memory, sweep, faults>>

\* set_sync_mode: enable() inserts a new sync_state row, disable() deletes it,
\* both set the publication and bump the version.
SetSyncMode(m) ==
  /\ "toggle" \in Env
  /\ version[m] < MaxVersion
  /\ version' = [version EXCEPT ![m] = @ + 1]
  /\ logical' = IF m \in logical THEN logical \ {m} ELSE logical \cup {m}
  /\ sync' = [sync EXCEPT ![m] = Unsynced]
  /\ UNCHANGED <<wal, hidden, table, res, slot, memory, sweep, faults>>

\* The slot is dropped by hand, or invalidated (its WAL is gone).
LoseSlot ==
  /\ slot.state = "ok"
  /\ Fault("lose")
  /\ slot' \in {[slot EXCEPT !.state = "none"], [slot EXCEPT !.state = "lost"]}
  /\ UNCHANGED <<wal, hidden, table, version, logical, sync, res, memory, sweep>>

\* Model m's engine answers its round.
EndRound(m) ==
  /\ inflight[m].on
  /\ ~inflight[m].ended
  /\ inflight' = [inflight EXCEPT ![m].ended = TRUE]
  /\ UNCHANGED <<database, live, waiting, parts, peekedTo, sweep, faults>>

\* A failing model's retry is due.
Due(m) ==
  /\ m \in waiting
  /\ waiting' = waiting \ {m}
  /\ UNCHANGED <<database, live, inflight, parts, peekedTo, sweep, faults>>

-----------------------------------------------------------------------------
(* The sweep. *)

\* The worker goes back to its main loop; a failed transaction ends a sweep early.
EndSweep ==
  /\ pc' = "idle"
  /\ listed' = [m \in Model |-> NotListed]
  /\ todo' = {}
  /\ done' = {}
  /\ upto' = 0
  /\ held' = {}

\* list_models: what the sweep knows of model m from here on.
Listed(m) == [version |-> version[m], caughtUp |-> sync[m].caughtUp,
              confirmed |-> sync[m].confirmed, partitions |-> Partitions(m)]

\* List the models in logical mode, forget the others; with none left, drop
\* the slot rather than let it retain WAL.
Listing ==
  /\ pc = "idle"
  /\ live' = [m \in Model |-> IF m \in logical THEN live[m] ELSE NoLive]
  /\ inflight' = [m \in Model |-> IF m \in logical THEN inflight[m] ELSE NoRound]
  /\ waiting' = waiting \cap logical
  /\ parts' = [m \in Model |-> IF m \in logical THEN parts[m] ELSE None]
  /\ IF logical = {}
     THEN /\ EndSweep
          /\ slot' = [slot EXCEPT !.state = "none"]
     ELSE /\ pc' = "slot"
          /\ listed' = [m \in Model |-> IF m \in logical THEN Listed(m) ELSE NotListed]
          /\ todo' = logical
          /\ UNCHANGED <<slot, done, upto, held>>
  /\ UNCHANGED <<wal, hidden, table, version, logical, sync, res, peekedTo, faults>>

\* The slot is usable; or it is made (again) at the end of the WAL, once every
\* transaction in it is visible, and the rounds read from the old one go.
EnsureSlot ==
  /\ pc = "slot"
  /\ \/ /\ slot.state = "ok"
        /\ pc' = "peek"
        /\ UNCHANGED <<slot, inflight, faults, listed, todo, done, upto, held>>
     \/ /\ slot.state # "ok"
        /\ hidden = {}
        /\ slot' = [state |-> "ok", at |-> Len(wal)]
        /\ inflight' = [m \in Model |-> NoRound]
        /\ pc' = "reset"
        /\ UNCHANGED <<faults, listed, todo, done, upto, held>>
     \/ /\ Fault("error")
        /\ EndSweep
        /\ UNCHANGED <<slot, inflight>>
  /\ UNCHANGED <<wal, hidden, table, version, logical, sync, res, live, waiting, parts, peekedTo>>

\* After a new slot: forget every model's progress, in a transaction of its own.
ResetProgress ==
  /\ pc = "reset"
  /\ \/ /\ sync' = [m \in Model |-> Unsynced]
        /\ pc' = "peek"
        /\ UNCHANGED <<faults, listed, todo, done, upto, held>>
     \/ /\ Fault("reset")
        /\ EndSweep
        /\ UNCHANGED sync
  /\ UNCHANGED <<wal, hidden, table, version, logical, res, slot, memory>>

\* Decode the slot: nothing when no WAL was written since the last complete
\* decode; else every published transaction past the slot, or the first few of
\* them when the decode reaches max_changes.
Peek ==
  LET fresh == {i \in Txns : i > slot.at /\ wal[i].sent # {}}
  IN /\ pc = "peek"
     /\ \/ /\ slot.state = "ok"
           /\ pc' = "models"
           /\ UNCHANGED <<listed, todo, held, faults>>
           /\ \/ /\ Len(wal) <= peekedTo
                 /\ done' = {}
                 /\ upto' = 0
                 /\ UNCHANGED peekedTo
              \/ /\ Len(wal) > peekedTo
                 /\ done' = fresh
                 /\ upto' = Len(wal)
                 /\ peekedTo' = Len(wal)
              \/ /\ Len(wal) > peekedTo
                 /\ \E cut \in fresh :
                      /\ done' = {i \in fresh : i <= cut}
                      /\ upto' = cut
                 /\ peekedTo' = 0
        \/ /\ (slot.state # "ok" /\ UNCHANGED faults) \/ Fault("error")
           /\ EndSweep
           /\ UNCHANGED peekedTo
     /\ UNCHANGED <<database, live, inflight, waiting, parts>>

\* The next model of the listing.
Visit(m) ==
  /\ pc = "models"
  /\ m \in todo
  /\ \A o \in todo : m <= o
  /\ todo' = todo \ {m}
  /\ UNCHANGED <<pc, listed, done, upto>>

\* live::route, and the transactions model m's listed progress already holds.
Routed(m) == {i \in done : wal[i].sent \cap Binds[m] # {} /\ i > listed[m].confirmed}

\* Its live state, dropped when its partitions moved since the last sweep.
KeptLive(m) ==
  IF parts[m] # None /\ parts[m] # listed[m].partitions THEN NoLive ELSE live[m]

\* One batch in flight per model: the rest waits, and the slot with it.
SkipRunning(m) ==
  /\ Visit(m)
  /\ inflight[m].on
  /\ held' = held \cup {inflight[m].first}
  /\ UNCHANGED <<database, memory, faults>>

Unchanged(m) == Routed(m) = {} /\ listed[m].caughtUp /\ KeptLive(m).on
                  /\ KeptLive(m).version = listed[m].version

\* Nothing for the model and its live state is current; or its retry is not due.
SkipIdle(m) ==
  /\ Visit(m)
  /\ ~inflight[m].on
  /\ Unchanged(m) \/ m \in waiting
  /\ parts' = [parts EXCEPT ![m] = listed[m].partitions]
  /\ live' = [live EXCEPT ![m] = KeptLive(m)]
  /\ UNCHANGED <<database, inflight, waiting, peekedTo, held, faults>>

\* What the model has not recorded of its share.
Unapplied(m) == {i \in Routed(m) : i > sync[m].confirmed}

TakenAlways(m) == KeptLive(m)

\* Its live state as tick takes it: none for a new or reset model.
Taken(m) == IF sync[m].caughtUp THEN KeptLive(m) ELSE NoLive
NeedsBuild(m) == ~Taken(m).on \/ Taken(m).version # version[m]
Current(m) == IF NeedsBuild(m) THEN Rebuilt(m) ELSE Taken(m)

RecordAtSubmit(m) ==
  IF Unapplied(m) = {} THEN UNCHANGED sync ELSE Record(m, Max(Unapplied(m)))

\* Recorded before the batch is applied: a rebuild, if there was one.
RecordBuild(m) == IF NeedsBuild(m) THEN Record(m, None) ELSE UNCHANGED sync

Starts(m) ==
  /\ Visit(m)
  /\ ~inflight[m].on
  /\ ~(Unchanged(m) \/ m \in waiting)
  /\ parts' = [parts EXCEPT ![m] = listed[m].partitions]
  /\ UNCHANGED <<wal, hidden, table, version, logical, slot, peekedTo, held>>

\* tick with nothing to apply, or with a batch that edits no cell: (re)build the
\* live state if needed, record, keep it.
TickIdle(m) ==
  LET txns == Unapplied(m)
  IN /\ Starts(m)
     /\ m \in logical \ Broken
     /\ Mapped(m, Current(m).data, txns) = Current(m).data
     /\ live' = [live EXCEPT ![m] = Current(m)]
     /\ res' = IF NeedsBuild(m) THEN [res EXCEPT ![m] = Computed(m)] ELSE res
     /\ IF txns = {} THEN RecordBuild(m) ELSE Record(m, Max(txns))
     /\ UNCHANGED <<inflight, waiting, faults>>

\* tick with a batch: the engine starts on it.  A rebuild before it is recorded,
\* the batch is not.
TickSubmit(m) ==
  LET txns == Unapplied(m)
      data == Mapped(m, Current(m).data, txns)
  IN /\ Starts(m)
     /\ m \in logical \ Broken
     /\ data # Current(m).data
     /\ live' = [live EXCEPT ![m] = NoLive]
     /\ inflight' = [inflight EXCEPT ![m] =
                       [on |-> TRUE, ended |-> FALSE, version |-> version[m], data |-> data,
                        touched |-> {r \in Rel : data[r] # Current(m).data[r]},
                        first |-> Min(txns), last |-> Max(txns)]]
     /\ res' = IF NeedsBuild(m) THEN [res EXCEPT ![m] = Computed(m)] ELSE res
     /\ RecordBuild(m)
     /\ UNCHANGED <<waiting, faults>>

\* tick with a batch that cannot be applied cell by cell: rebuild, and record the
\* batch, which the load is taken to hold.
TickRebuild(m) ==
  LET txns == Unapplied(m)
  IN /\ Starts(m)
     /\ m \in logical \ Broken
     /\ txns # {}
     /\ live' = [live EXCEPT ![m] = Rebuilt(m)]
     /\ res' = [res EXCEPT ![m] = Computed(m)]
     /\ Record(m, Max(txns))
     /\ UNCHANGED <<inflight, waiting, faults>>

\* tick fails: its transaction aborts, the live state it took is gone, and the
\* model's retries back off (settle).  A model that left logical mode since the
\* listing has no progress row to read, which fails too.
TickFail(m) ==
  /\ Starts(m)
  /\ \/ /\ m \in Broken \/ m \notin logical
        /\ UNCHANGED faults
     \/ Fault("error")
  /\ live' = [live EXCEPT ![m] = NoLive]
  /\ waiting' = waiting \cup {m}
  /\ UNCHANGED <<res, sync, inflight>>

\* Every listed model was visited.
Visited ==
  /\ pc = "models"
  /\ todo = {}
  /\ pc' = "finish"
  /\ UNCHANGED <<database, memory, listed, todo, done, upto, held, faults>>

NoRedecode == UNCHANGED peekedTo

\* The slot held before the batch: decode again, even with no new WAL.
Redecode == peekedTo' = 0

\* A round ended: finish_ready collects it between sweeps and in each sweep.
Collect(m) ==
  /\ pc \in {"idle", "finish"}
  /\ inflight[m].on
  /\ inflight[m].ended
  /\ inflight' = [inflight EXCEPT ![m] = NoRound]
  /\ Redecode
  /\ UNCHANGED <<wal, hidden, table, version, logical, slot, parts, sweep>>

\* finish: write the cells the round changed, with the model's progress.
FinishWrite(m) ==
  LET f == inflight[m]
  IN /\ Collect(m)
     /\ f.version = version[m]
     /\ res' = [res EXCEPT ![m].data = [r \in Rel |-> IF r \in f.touched THEN f.data[r] ELSE @[r]]]
     /\ live' = [live EXCEPT ![m] = [on |-> TRUE, version |-> f.version, data |-> f.data]]
     /\ Record(m, f.last)
     /\ waiting' = waiting \ {m}
     /\ UNCHANGED faults

\* finish: the model changed while the engine ran, or the owner may not read the
\* batch's rows: rebuild, and record the batch, which the load is taken to hold.
FinishRebuild(m) ==
  /\ Collect(m)
  /\ res' = [res EXCEPT ![m] = Computed(m)]
  /\ live' = [live EXCEPT ![m] = Rebuilt(m)]
  /\ Record(m, inflight[m].last)
  /\ waiting' = waiting \ {m}
  /\ UNCHANGED faults

FinishFailKeeps(m) ==
  /\ Collect(m)
  /\ Fault("error")
  /\ waiting' = waiting \cup {m}
  /\ live' = [live EXCEPT ![m] = [on |-> TRUE, version |-> inflight[m].version,
                                  data |-> inflight[m].data]]
  /\ UNCHANGED <<res, sync>>

\* The round or its writes fail: the live state is gone with it.
FinishFail(m) ==
  /\ Collect(m)
  /\ Fault("error")
  /\ waiting' = waiting \cup {m}
  /\ UNCHANGED <<res, live, sync>>

\* No round that ended is left to write.
Finished ==
  /\ pc = "finish"
  /\ \A m \in Model : ~inflight[m].ended
  /\ pc' = "advance"
  /\ UNCHANGED <<database, memory, listed, todo, done, upto, held, faults>>

HoldAt(first) == Max({0} \cup {i \in done : i <= first})
HoldsRunning == {inflight[m].first : m \in {o \in Model : inflight[o].on}}

\* live::slot_hold: where the slot may move when a batch starting at first is
\* not applied: the end of the decoded transaction before it, or nowhere.
HoldBefore(first) == Max({0} \cup {i \in done : i < first})
Holds == held \cup {inflight[m].first : m \in {o \in Model : inflight[o].on}}
SlotTarget == Min({upto} \cup {HoldBefore(first) : first \in Holds})

\* Confirm the slot, forward only; a decode with nothing in it may leave it until
\* the slot lags by more WAL, and the call may fail.
Advance ==
  /\ pc = "advance"
  /\ \/ /\ upto > 0
        /\ slot.state = "ok"
        /\ slot' = [slot EXCEPT !.at = Max({@, SlotTarget})]
        /\ UNCHANGED faults
     \/ /\ upto = 0 \/ done = {} \/ slot.state # "ok"
        /\ UNCHANGED <<slot, faults>>
     \/ /\ upto > 0
        /\ Fault("error")
        /\ UNCHANGED slot
  /\ EndSweep
  /\ UNCHANGED <<wal, hidden, table, version, logical, sync, res, memory>>

\* The worker dies and is started again: its memory is gone, the database stays.
Crash ==
  /\ Fault("crash")
  /\ live' = [m \in Model |-> NoLive]
  /\ inflight' = [m \in Model |-> NoRound]
  /\ waiting' = {}
  /\ parts' = [m \in Model |-> None]
  /\ peekedTo' = 0
  /\ EndSweep
  /\ UNCHANGED database

-----------------------------------------------------------------------------
Environment ==
  \/ \E rels \in (SUBSET Rel) \ {{}} : Commit(rels)
  \/ \E i \in hidden : Show(i)
  \/ \E r \in Rel : MovePartition(r)
  \/ \E m \in Model : Define(m)
  \/ \E m \in Model : SetSyncMode(m)
  \/ LoseSlot

Tick(m) == TickIdle(m) \/ TickSubmit(m) \/ TickRebuild(m) \/ TickFail(m)
Finish(m) == FinishWrite(m) \/ FinishRebuild(m) \/ FinishFail(m)

Worker ==
  \/ Listing
  \/ EnsureSlot
  \/ ResetProgress
  \/ Peek
  \/ \E m \in Model : SkipRunning(m) \/ SkipIdle(m) \/ Tick(m)
  \/ Visited
  \/ \E m \in Model : Finish(m)
  \/ Finished
  \/ Advance

Next ==
  \/ Environment
  \/ Worker
  \/ \E m \in Model : EndRound(m)
  \/ \E m \in Model : Due(m)
  \/ Crash

Spec == Init /\ [][Next]_vars

\* The main loop never stops, engine rounds end, retries come due, and a
\* committed transaction becomes visible.
Fairness ==
  /\ WF_vars(Worker)
  /\ \A m \in Model : WF_vars(EndRound(m)) /\ WF_vars(Due(m))
  /\ WF_vars(\E i \in hidden : Show(i))

FairSpec == Spec /\ Fairness

-----------------------------------------------------------------------------
(* Properties. *)

Contents == [Rel -> Nat]
Transactions == [rels : SUBSET Rel, sent : SUBSET Rel, moved : BOOLEAN]
SyncRows == [confirmed : Nat, caughtUp : BOOLEAN]
Results == [version : Nat, data : Contents]
Slots == [state : {"none", "ok", "lost"}, at : Nat]
LiveStates == [on : BOOLEAN, version : Nat, data : Contents]
Rounds == [on : BOOLEAN, ended : BOOLEAN, version : Nat, data : Contents,
           touched : SUBSET Rel, first : Nat, last : Nat]
ListedRows == [version : Nat, caughtUp : BOOLEAN, confirmed : Nat, partitions : Nat]

DatabaseOK ==
  /\ wal \in Seq(Transactions)
  /\ hidden \subseteq Txns
  /\ table \in Contents
  /\ version \in [Model -> Nat]
  /\ logical \subseteq Model
  /\ sync \in [Model -> SyncRows]
  /\ res \in [Model -> Results]
  /\ slot \in Slots
  /\ faults \in Nat

MemoryOK ==
  /\ live \in [Model -> LiveStates]
  /\ inflight \in [Model -> Rounds]
  /\ waiting \subseteq Model
  /\ parts \in [Model -> Nat \cup {None}]
  /\ peekedTo \in Nat

SweepOK ==
  /\ pc \in {"idle", "slot", "reset", "peek", "models", "finish", "advance"}
  /\ listed \in [Model -> ListedRows]
  /\ todo \subseteq Model
  /\ done \subseteq Txns
  /\ upto \in 0 .. Len(wal)
  /\ held \subseteq Nat

\* The variables have their types; what a sweep decoded lies in the WAL, and a
\* recorded position is one (record() keeps the row's when there is none to write).
TypeOK == DatabaseOK /\ MemoryOK /\ SweepOK

\* A state the worker goes on from: the live state of a model, kept (tick drops
\* that of a model that has not caught up since its progress was reset) or with
\* its engine.
Loaded(m) == (live[m].on /\ sync[m].caughtUp) \/ inflight[m].on
LoadedData(m) == IF live[m].on THEN live[m].data ELSE inflight[m].data

\* The worker "never loses a change" (worker.rs, module docs): a published change
\* the slot has passed, or the model's progress has, is never decoded for the
\* model again, so the live state it goes on from holds that change or a later
\* one to the same cell.
NoLostChange ==
  slot.state = "ok" /\ pc # "reset" =>
    \A m \in logical : Loaded(m) =>
      \A i \in Txns : \A r \in wal[i].sent \cap Binds[m] :
        i <= slot.at \/ (live[m].on /\ i <= sync[m].confirmed) => LoadedData(m)[r] >= i

\* The slot "stops before the first transaction of a batch still in flight"
\* (worker.rs, module docs; live::slot_hold).
SlotBehindInFlight ==
  \A m \in Model : inflight[m].on => slot.at < inflight[m].first

\* Incremental writes leave the result tables equal to what a rebuild of the live
\* state would write: a kept live state and its results never differ, and while
\* a round runs they differ only in the cells it changes (write_changed).
ResultsFollowLive ==
  \A m \in Model :
    /\ live[m].on => res[m] = [version |-> live[m].version, data |-> live[m].data]
    /\ inflight[m].on =>
         /\ res[m].version = inflight[m].version
         /\ \A r \in Rel \ inflight[m].touched : res[m].data[r] = inflight[m].data[r]

\* Progress and results are recorded together: whatever a crash interrupts, the
\* result tables hold every published change the recorded progress names.
ProgressIsBacked ==
  \A m \in logical : \A i \in Txns : \A r \in wal[i].sent \cap Binds[m] :
    i <= sync[m].confirmed => res[m].data[r] >= i

\* The worker has nothing left to do for model m.
AtRest(m) ==
  /\ pc = "idle"
  /\ m \in logical
  /\ slot.state = "ok"
  /\ slot.at = Len(wal)
  /\ live[m].on
  /\ sync[m].caughtUp
  /\ live[m].version = version[m]
  /\ parts[m] = Partitions(m)

\* "re-applying converges" (live.rs, module docs): a model the worker has nothing
\* left to do for shows what its tables hold.
RestIsCurrent == \A m \in Model : AtRest(m) => res[m] = Computed(m)

\* Results catch up with the tables once sessions and faults stop, and stay there;
\* a failing model "never holds the others' slot back".
Converges ==
  <>[](\A m \in logical \ Broken : res[m] = Computed(m))
=============================================================================
