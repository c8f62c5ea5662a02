# improv: specifications and proofs

improv is a multidimensional modelling program: categories, items, measures and
formulas, kept in a store (Mentat over SQLite, or Postgres), computed by a
differential-dataflow engine, and reached through a terminal UI, graphical UIs, a
REST server and extensions for Postgres and DuckDB. This directory models the parts
of it where several actors share state and a mistake would lose somebody's data.

## The system

| part | state | operations | with whom |
|---|---|---|---|
| sync worker (`pg_improv/worker.rs`, `pg_model/live.rs`) | replication slot, progress per model, live engines, batches in flight, result tables | list, ensure slot, decode, route, tick, finish, advance | sessions that commit and change models; the engines' threads |
| REST server (`server/main.rs`) | cached model, its high-water, write lock, policy sessions | load, access, save, per request | other requests, the scheduler, other processes |
| scheduler (`server/scheduler.rs`) | last run per measure | tick: load, refresh, save, drop the cache | the server's locks, the store |
| GUI routes (`server/gui.rs`) | the authority, change streams, a poller | serve, changes, poll | the same locks, subscribers |
| authority (`service/authority.rs`) | one model, engine, change log, undo stacks | edit, undo, redo, refresh, windows | the store's other writers |
| row mapping (`pg_model/live.rs`) | input cells, folds with the snapshot each was seeded from | load, seed, map a transaction | the sync worker, sessions that commit |
| writer's sync (`pg_improv/trigger.rs`, `commit.rs`) | tables noted, rows captured, model locks, a cache of bindings per session | trigger, capture, pre-commit, `set_sync_mode` | concurrent sessions |
| model store (`storage_mentat`, `storage_pg`, `store`) | datoms or rows, high-water, a token per handle | load, load in part, save, save what changed, policies | every process that opens it |
| engine (`engine/session.rs`) | sessions of a dataflow, the running snapshot, FIXPOINT results | submit, apply, snapshot, drop | worker, server, UIs |
| window (`gui/app.rs`) | model, engine, changes to save, undo stacks | edit, undo, save, revert, open, per frame: poll the threads | its load, build and save threads, other programs |
| pure kernels (`verified`, `core_model/schedule.rs`, `policy`) | none | build order, keys, due measures, decisions | everyone |

Hard behaviours: decoding a shared slot for many models whose engines run at
different speeds; a slot lost, or a worker killed, between any two transactions;
snapshots that lag behind the WAL; structural changes under a running batch; a cache
read, probed and read again around other requests' saves; requests that time out
while their blocking save runs on; streams that are woken while they look; a load that
reads a store part by part while others save; a fold that must count each transaction
once although it was seeded in the middle of them; two commits that recompute one model;
a window that edits a model its build and its save still share.

What makes each part correct is stated as a property in its module, below; `hazards`
in `PROJECT.json` lists what could go wrong at which line and the property that would
show it.

## Modules

### SyncWorker

One action per database transaction of a sweep, and one for each thing sessions, the
server, the engines and faults do between them.

- Database: `wal` (a sequence of transactions with the relations each changed and
  those the publication sends), `hidden` (in the WAL, not yet in snapshots), `table`,
  `version`, `logical`, `sync` (`improv.sync_state`), `res`, `slot`.
- Worker memory, lost in a crash: `live`, `inflight`, `waiting`, `parts`, `peekedTo`
  (the thread-locals LIVE, INFLIGHT, RETRY, PARTITIONS, PEEKED_TO).
- Sweep: `Listing`, `EnsureSlot`, `ResetProgress`, `Peek`, then per model in id order
  `SkipRunning`, `SkipIdle` or a tick (`TickIdle`, `TickSubmit`, `TickRebuild`,
  `TickFail`), then the rounds that ended (`FinishWrite`, `FinishRebuild`,
  `FinishFail`), then `Advance`. `Crash` may come between any two.

A position is a transaction's number, a relation's content the number of the
transaction that last wrote it, results are the definition and content they were
computed from. `Env` says which kinds of events an instance has. Which batches cannot
be applied cell by cell is left open: any batch may take the rebuild path.

### ServerCache

Requests are async tasks and each action runs from one await to the next. Readers
load and take their decisions; writers hold `writeLock` across load, decision and save;
the GUI route saves inside its blocking task and drops the cache afterwards; the
scheduler's tick does its own load and save; `OutsideSave` is another process. `Drop`
ends a request at an await: its guards go, and a save already handed to a blocking
thread is an orphan that still runs. The store is `history`, its content (a set of
writes) at every high-water mark. A load reads the mark (`LoadMark`) and then each part
of the model in a transaction of its own (`Load`): what comes of it may hold a write
stored after the mark and lack one stored at the same time (`ReadSince`), so a cached
model is never older than `loaded_tx` but may be newer in parts. `ModelStore` has the
parts one by one.

### Authority

The authority serves one request at a time, but other programs write the store between
its accesses, so a request is `Serve` (the refresh) followed by `Edit`, `Retry`,
`ChangeStructure`, `UndoStep`, `UndoRefused`, `NothingToUndo` or `Refuse`; the saves of
`ApplyCells` and `Adopt` are the optimistic save of the store (`Conflicts`). `model`,
`tx`, `log`, `undo` and `redo` are the fields of `Authority`; `store` is what is saved.
A measure has one cell and the structure is the set of measures; a batch is a sequence
of pairs, so it may name a cell twice. `client` follows the changes (`Look`, from
`changes_since`) and reloads when told to (`Fetch`). Each step on an undo stack also
carries the model before and after its change, for `UndoInverse` only. What a batch
leaves (`After`) and what it replaced (`Before`) are stated cell by cell, by the last edit
that names the cell, which is what applying the edits in order comes to. `UndoInverse`
leaves one case out: a cell that an undone deletion filled, where the measure created anew
had none, stays as it is.

### ChangeStreams

Streams, the poller and the writers of the GUI routes, each action from one await, lock
or blocking task to the next: `Connect` takes a slot or is refused, `FirstLook`, `Mark`,
`Wake` and `Look` are `changes`, `Leave` drops the stream at any await; `PollWakes`,
`Probe`, `ProbeFails` and `Tell` are `poller`; `Write`, `WriteRefused`, `Read` and `Bump`
are `serve` and `with_authority`. A version is its number: what an event says of a
version is `Authority`'s `Look`. The channel `changed` is the counter of the watch
channel and `cursor` the value each receiver has seen.

### EngineSession

The worker thread of a live engine and a caller that keeps its own view of the results.
A round is `Round` (the edits are fed and the components they reach are advanced), then
for each FIXPOINT `Skip` or `Solve`, `Iterate` and `Publish`, then `Answer`; `Serve` answers
a snapshot, `Submit`, `Apply`, `AskSnapshot`, `Take`, `DropPending` and `DropEngine` are the
handle's calls, over a channel. Differential dataflow is external: an advanced component
shows its plans evaluated over what its sessions hold, one that was not keeps what it
showed. Plans are the constant `Plan`, so a mistake in which components a round advances,
or in which FIXPOINT it solves again, shows as a stale measure. The union-find of the code
is stated by its result: a component is the least set that has both ends or neither of
every link. `FedBy` likewise gives each cell the value of the last edit that sets it.
`StructureAssumption` is what `split_fixpoints` and the compiler leave: a FIXPOINT has a
measure of its own, which no plan computes and no other FIXPOINT iterates on, its first
iterate is planned, and plans give cells. `BuildOrderAssumption` is the order
`derived_build_order` and `split_fixpoints` give the plans: each after what it reads, what
reads a FIXPOINT after its step, and the FIXPOINTs in the order of their steps.

### Mapper

The mapper of one live model: `Load` and one `Seed` per fold are the steps of `rebuild`,
each with a snapshot of its own; `Map` decodes a transaction into cells and edits of
the engine, and asks for a rebuild where the code does; `Lose` drops the live state.
As in `fold_tx`, a batch keeps, for each cell it touches, the value before the first
touch (`Touch`, called by `Put` for every cell a row change or a TRUNCATE writes), and the
edits are the touched cells that end otherwise (`Edits`, `Edited`); the engine's cells
(`engine`) change by these edits and by nothing else, so a touch that is not kept, or kept
too late, leaves the engine behind.
Sessions (`Write`, `Commit`, `Abort`, `Appear`) get their ids at the first write, commit in
any order, and become visible after they are in the WAL. Ids are sent modulo `2 * Half`
and compared by `Sees` as `Snap::sees` does; the properties use `held`, what a snapshot
really saw.

### VersionedStore and ModelStore

`VersionedStore` is what `store/src/lib.rs` promises: a save is taken from a handle that
holds what is stored, or that has loaded nothing. `ModelStore` has handles of several
processes on a Mentat file or a Postgres model. A Mentat load is `BeginLoad`,
`LoadMeasures`, `LoadCells` and `LoadMeta`, with other processes between them; its save is
`FreshForWrite` and then one transaction (`SaveMentat`). A Postgres save is one transaction
(`SavePg`), with the bound cells checked against their fact tables, which `WriteFact`
changes under the model's version. A Postgres load is one snapshot (`LoadPg`) and, when the
rows of the fact tables name items there are none of (`WriteRows`, `Unknown`), a second
transaction that gives these names the next ids and leaves the version alone (`Mint`);
`MintFails` is one that fails before or after it committed, and stands for the items that
the `pg_improv` extension mints too. Items are ids with names; a client gives a new one the
next id of its own model (`AddItem`). A save of the structure deletes the items its handle
held and dropped and leaves those others added (`Kept`), row by row, which a name in use
refuses (`Fits`). Full saves, saves of changes (`Named`, from `ChangeSet::between`), partial
loads, policies (`SavePolicies`, `SetPoliciesPg`) and failures are included.

The refinement mapping takes the contents without the facts and the items, which change
under a version (`Public`), and for a handle whose token is the store's mark what it last
loaded or saved, the cells a partial load skipped being as stored; a handle with another
token is `Stale`. That items are not lost is therefore a claim of its own: `BaseIsCurrent`
says that a handle has each item it holds as it is stored, `NoBlindWrite` that a save drops
none it did not hold, and `ItemsSurvive`, that a save overwrites none, is not so (below).

### WriterSync

Sessions that write bound tables while models are kept up to date inside their transactions.
In trigger mode `Write` queues the statement's firings, which lock a model and recompute it
(`Fire`); in commit mode the hooks note tables, capture triggers note keys, and `PreCommit`
makes rounds (`Pass`, `Recompute` in id order) until nothing more is noted. `Recalc`
recomputes a model when asked to, in any mode. Savepoints, rollbacks, truncation, writes
past disabled triggers, the sessions' cached bindings and `set_sync_mode` with its table
locks are actions. One model's result table may be another's input: what a switch recomputes
is written in its own transaction, and the models that read it follow there (`Followed`; a
switch whose followers never settle, models that feed each other in a circle, is left out).
A session accepts invalidations at the start of a statement, when it opens a result table to
write it, and before COMMIT (`Accept`). Row locks, MVCC and invalidation are Postgres's. A
statement's firings are sets of models that follow the table by triggers (`Firing`), in any
order.

### GuiWindow

One window and the stores it opens. The UI thread's state is the record `win`; a handler
is one action, written as a composition of functions from windows to windows that carry
the methods' names (`WriteInput`, `PushEngine`, `SaveChanges`, `SendSave`, `LandSave`,
`RebuildEngine`, `Land`, ...). The threads are `Loads`, `Copies`, `Builds` and `Saves`, each
step of which may fall between two frames (`PollLoad`, `PollHeld`, `PollBuild`, `PollSaves`,
`Probe`). What an engine or a snapshot holds is stood for by the model it was computed
from. `past`, `future`, `failed` and `loadedAt` are kept for the properties only. Several
edits in a row (`PutCells`) are a recursive function, and what a window, a build and a
save may be is written as sets of records (`Window`, `Build`, `Save`, `Step`), so that the
module can be proved about.

## Runs

| run | instance | checks |
|---|---|---|
| sync_safety | two models sharing a relation, 2 transactions, definition changes, one fault (error, crash or slot loss) | NoLostChange, ProgressIsBacked, RestIsCurrent |
| sync_faults | one model, every kind of event, 2 transactions, 2 versions, 2 faults | SlotBehindInFlight, ResultsFollowLive |
| sync_liveness | two models of which one always fails, 3 transactions, one error | Converges |
| server_cache | a reader, a writer that may be dropped, a GUI write, a tick, another process | MatchingPair, ReadsAreFresh, NoLostUpdate, AllEnd |
| server_lost | a reader, a writer, another process | NoSaveFromStale: violated, below |
| authority_edits | two sessions, two measures, batches of distinct cells, failing saves, another program, 5 versions, log and stacks of depth 2, one retry | ModelIsStored, ClientFollows, OnlyWhatIsAsked, UndoInverse |
| streams | three connections of two callers, 2 slots and 1 per caller, 2 versions, one failure | SlotsCounted, OnePoller, ChangesArrive |
| engine | a FIXPOINT solved in memory, one solved by rounds of the dataflow that reads it, a measure of both, a component apart, 4 commands | SnapshotCurrent, ConvergedIsCurrent, HostCutOffIsCold, ViewFollows, ChangesAreExact, AllAnswered |
| folds | a relation with two folds and one with a plain binding, 2 transactions, 3 row changes, ids across the wrap | FoldsExact, PlainConverges, NeverOutOfStep, EngineFollows |
| store | two handles on either backend, a measure of the store and a bound one, 3 transaction ids, an item's name and id, policies | BaseIsCurrent, StoreLoads, NoBlindWrite, IsVersioned (the refinement) |
| writers | two sessions, two models in a chain, in one mode or in two, 2 tables, 2 keys, 2 statements, one switch of a mode | ResultsCurrent, ReadYourWrites, NoCommitDeadlock |
| gui_window | three commands of the user, two cells, two formulas, another program's save, one failure | SnapshotCurrent, NothingForgotten, NeverStranded, UndoExact, NoClobber |

`PROJECT.json` lists these runs. Each other configuration here asks one more question of
the same modules and shows a counterexample, listed below. Every module has a `TypeOK`;
all but `Mapper`'s are proved.

Bounds. Losing or repeating a change takes two transactions (one passed, one
pending) and a fault between them; two models suffice for one to hold, pass or starve
the other; a second fault covers a failure during recovery. In the server each actor
runs once: a lost update takes two savers and, for the violations, one reader. In the
authority the store's version bounds everything: five versions are a defined measure, a
changed cell, its deletion, an undo and another program's write, and a log of depth 2
has forgotten entries by then; the code's three retries are one, as each is the same
step. Three connections are one more than the slots and than a caller may have.
In the engine four commands are an edit that makes a FIXPOINT converge or not, one that
changes what it reads, one that undoes that and a reply to compare; three iterations are
enough for a solve to converge early, at the end, or not at all. For the folds, two
transactions give every order of two ids, commits, visibilities and decodes around a
seed, and `FirstXid` puts the wrap between them (`Half` is 4 for 2^31); three row changes
are a move of a row and another row on the coordinate it left or came to. In the store a
lost update takes two handles and two saves after the first one's; one name and one id are
an item that one handle's load mints while another's model has none, adds it or drops it
(`ModelStore_mint` has two of each, the theorems any number). Two writers and a
chain of two models give every order of two recomputes, and the two rounds of a
pre-commit; `MaxCapture` is 1, so that a second key is past it. In the window three
commands are an edit, its undo or a structural change while a build or a save is in
flight, and one more before the threads answer; `SeekLimit` is 1, so that a save of one
cell is by changes and of two whole.

Fairness. `SyncWorker`'s main loop polls for ever, an engine round ends, a retry comes
due after at most 60 s and a committed transaction becomes visible, so each is weakly
fair; sessions and faults are not. In `ServerCache` the runtime polls every ready task
(weak fairness) and tokio's mutex serves its waiters in order, so taking `write_lock`
is strongly fair. In `ChangeStreams` the streams' tasks, the poller's timer and refresh
and the last step of a write request are weakly fair; connections, clients that leave
and writers are not, and a refresh that fails is never required. In `EngineSession` the
worker's thread runs while it has a command or a round (weak fairness); callers need not
take their replies. Deadlock is checked except where the actors may all be done:
`Mapper`, `ModelStore`, `WriterSync` (whose statements are bounded; waiting for each other
is `NoCommitDeadlock`) and `GuiWindow`.

## What the violations show

Listed as a run, with the line of the docs it contradicts under `findings`:

- **server_lost**: `save_model` checks against the mark of the last load by anyone,
  not of its own model; another process's write is saved over.

Further configurations with a counterexample, run as `tlc -config X.cfg MCModule`:

| configuration | property | what TLC shows |
|---|---|---|
| `SyncWorker_reset` | NoLostChange | a new slot and a failed progress reset: the next sweep finds the slot usable and keeps the stale live states; the gap's changes are lost (worker.rs:13 says a crash "never loses a change") |
| `SyncWorker_visibility` | NoLostChange | a rebuild records a batch its snapshot does not show (worker.rs:1486 says the load "already holds this batch") |
| `SyncWorker_partition` | RestIsCurrent | a rebuild reads the state after a partition move, and an older row change is applied over it; `Env = {"toggle"}` gives the same of a commit made while the model was out of the logical mode, which is never sent |
| `ServerCache_sessions` | SessionsMatch | a policy session is keyed by one mark and made from another mark's model (main.rs:1122 says "a structure change (any save) makes new ones") |
| `ServerCache_dropped` | NoSaveUndone | `server_lost` inside one server, through a write that timed out while its save ran on |
| `ServerCache_stale` | FreshReads | a copy published late is taken for new by a request that found nothing cached |
| `Authority_rollback` | ModelIsStored | the rollback of a failed save writes the values a batch replaced back in the order of the batch, which is wrong for a cell it names twice (authority.rs:625); an undo does the same (`PROPERTY UndoInverse`) |
| `Authority_conflict` | CellsNeverConflict | cell edits give up after three retries, and undoing one is not retried (authority.rs:530 says they never conflict); such an undo ("reload and try again", authority.rs:96) has also lost its step (`PROPERTY ConflictKeepsStep`) |
| `ChangeStreams_missed` | NothingMissed | `mark_unchanged` comes after the first look and swallows the wake-up of a write in between (gui.rs:466 says "one event per change the caller may see"); a failed refresh wakes the streams, which do not end as gui.rs:146 says (`PROPERTY StreamsEnd`) |
| `EngineSession_cutoff` | CutOffIsCold | a FIXPOINT whose body is a dataflow was cut off; an edit that changes an earlier iterate and not the last step leaves the old result (session.rs:618 says "a result cut off at max_iter is always a full recompute's") |
| `ModelStore_drop` | SavesAreTaken | in Postgres `save_changes` deletes a dropped measure's row and then refuses the cells the change set names of it: "a cell of measure {m}, which is not saved" |
| `ModelStore_binding` | StoreLoads | dropping a bound measure leaves its binding, and the model no longer loads; with `Env = {"partialDrop"}`, `Droppable = {own}` and `Closures = {{fact}}`, a process that loaded in part drops a measure it did not load, whose cells stay and are refused by the next load |
| `ModelStore_race` | IdsAreNew | a commit between `fresh_for_write` and the IMMEDIATE transaction: a transaction id is used twice; with `Env = {"policy", "policyLoaded"}` and `INVARIANT BaseIsCurrent`, `save_policies` moves the handle's mark past another's save, so a model loaded before would pass the conflict check; no caller saves one after it |
| `ModelStore_mint` | ItemsSurvive | a load mints an item under the version another handle loaded; that one gives a new item of its own the same id, its save passes the conflict check, and the minted item has the new one's name (storage_pg/src/lib.rs:637 and docs/src/storage.md:306 say that rows another client added since survive, pg-reference.md:198 that ids are never reused) |
| `WriterSync_deadlock` | NoDeadlockInRounds | model 1 feeds model 2, and model 3 reads their tables: one commit locks 1 and 3 in its first round and waits for 2 in its second, another has locked 2 in its first and waits for 3 (commit.rs:641 calls id order "the lock order") |
| `WriterSync_recalc` | NoLockCycle | a transaction that called `recalc` on a later model holds its lock when it commits, and waits for an earlier one whose holder waits for it; Postgres ends one of the two |
| `WriterSync_snapshot` | ResultsCurrent | under REPEATABLE READ a commit recomputes from a snapshot that is older than the lock it waited for, and the results miss the other commit |
| `GuiWindow_reused` | ShownIsOwn | a new measure reuses the id of a deleted one while a build is in flight, and shows its results, which the comment at app.rs:2749 means to exclude |
| `GuiWindow_lost` | NothingForgotten | the save thread dies with the changes, and the window is no longer dirty |

The passing runs leave out exactly the event that a violation needs (`lag`, `reset`,
`partition`, `toggle`; a cell named twice in a batch; `race`, `dropBound`, `partialDrop`,
`policyLoaded`; `rr`; `saver`), or state the property for the rest (`NoLostUpdate` until a
writer is dropped, `ReadsAreFresh` until a GUI route writes, `HostCutOffIsCold` for
FIXPOINTs solved in memory, `NoBlindWrite` for items that are dropped), so they say what holds otherwise. `ChangesArrive` is about
changes that come while a stream already waits, which is what `ChangeStreams_missed`
leaves.

## Proofs

Every theorem is for any values of the constants that satisfy the named `ASSUME`s of its
module: any number of models, sessions, handles, requests or streams, any bounds. A
hypothesis beyond these is written in the theorem, and a configuration above shows what
happens without it. Each inductive invariant was checked by TLC before it was proved. An
action keeps it in a lemma of its own; the last step of each theorem is temporal.

**SyncWorkerProofs**

- `TypesCorrect`: `Spec => []TypeOK`; `ResultsCorrect`: `Spec => []ResultsFollowLive`;
  `SlotHeld`: `Spec => []SlotBehindInFlight`.
- `NothingLost`: `Spec => []NoLostChange` and `ProgressBacked`: `Spec => []ProgressIsBacked`,
  if `"lag"` and `"reset"` are not in `Env` (`SyncWorker_visibility`, `SyncWorker_reset`).
- `RestCurrent`: `Spec => []RestIsCurrent`, if moreover `"partition"` and `"toggle"` are not
  (`SyncWorker_partition`): both write rows that the publication never sends. That `toggle`
  is needed came out of the proof.

`NoLostChange` is not inductive: a rebuild may be interrupted, a batch may be in
flight, a model may be visited with a listing that is older than its progress. The
inductive invariant `IInv` adds where every position lies (`Positions`), that the
tables hold what the WAL says (`TablesHold`), that the decoded set is everything
published between the slot and `upto` (`DecodedPastSlot`, `DecodedAll`), that a model
has a live state or a round but not both (`OneLive`), that visited models and held
positions cover the decode (`Visits`, `VisitedHold`), and that live states and rounds
hold what slot and progress have passed (`LiveHolds`, `RoundHolds`).

**ChangeStreamsProofs**

- `TypesCorrect`: no count passes its limit or goes below zero; `SlotsCorrect`:
  `Spec => []SlotsCounted`; `PollerCorrect`: `Spec => []OnePoller`.

`OnePoller` is not inductive, because a stream starts a poller by what `polling` says:
the invariant adds that the flag is set exactly while there is a poller (`PollerFlag`).
The types need `SlotsCounted` (a count is lowered only by a stream it counts) and that
the store is never behind the authority. Cardinalities come from `FiniteSetTheorems`.

**ServerCacheProofs**

- `TypeCorrect`; `PairMatches`: `Spec => []MatchingPair`; `FreshlyRead`:
  `Spec => []ReadsAreFresh`; `NothingLost`: `Spec => NoLostUpdate`.

Each part of a model a request has in hand was stored at its mark or later (`Copies`):
while the mark is the store's it is what is stored. Who is past a lock holds it
(`Locks`). A request that found nothing cached probes nothing and takes any model it
finds later: so whatever may still become the cached model, a load about to land or a
writer's about to be published, has to be as new as the request (`MissedFresh`).
`NoLostUpdate` needs that since a writer looked at the cache no other writer of the
server has saved (`Exclusive`), whatever other processes did.

**AuthorityProofs**, for batches that name no cell twice (`Plain`; `Authority_rollback`
shows why)

- `TypeCorrect`, with the log within `LogDepth` and the stacks within `UndoDepth`;
  `ModelStored`: `Spec => []ModelIsStored`; `ClientCurrent`: `Spec => []ClientFollows`;
  `OnlyAsked`: `Spec => OnlyWhatIsAsked`; `UndoInverts`: `Spec => UndoInverse`.

A step on a stack determines what it takes back (`StepsInv`), the last entry of the log
that names a cell has its value (`LogInv`), and a client that is not stale holds whatever
the log has not named since what it saw (`ClientInv`): this is what makes forgetting the
oldest entries sound.

**ModelStoreProofs**, all but the first if `Env` has none of the histories that
`ModelStore_race` and `_binding` show the code not to guard against (`Orderly`)

- `TypeCorrect`; `BaseCorrect`: `Spec => []BaseIsCurrent`; `Loadable`:
  `Spec => []StoreLoads`; `SavesSee`: `Spec => NoBlindWrite`.
- `Versioned`: `Spec => IsVersioned`: both backends implement `VersionedStore`, each step
  being a read, a save, a refusal or a stutter of it under the refinement mapping.

A Mentat load reads its mark first and then part by part, a Postgres load a snapshot before
it mints. What a load has read agrees with the store while the store's mark is the one it
read (`PartsInv`, `SnapshotInv`, then `TokenInv`). Minting adds items under that mark, so
agreement is one-sided for items: others may have minted some that a handle lacks, and each
that it has is stored as it has it (`Agrees`), which is enough for a save to drop only what
its handle held (`ItemsKept`). That minting changes nothing a version covers
(`MintPublic`) makes it a stutter, or the minting load's read, of `VersionedStore`. No
cell is stored or edited of a measure there is not, and a partial model has no cell it did
not load.

**EngineSessionProofs**

- `TypeCorrect`; `SnapshotIsCurrent`: `Spec => []SnapshotCurrent`; `ViewKept`:
  `Spec => []ViewFollows`; `ExactChanges`: `Spec => []ChangesAreExact`; `HostCutOffs`:
  `Spec => []HostCutOffIsCold`.
- `ConvergedStaysCurrent`: `Spec => []ConvergedIsCurrent`, if every FIXPOINT solved in
  memory has a body whose measures are all compiled (`Host`); it has, for an unknown
  measure is an error of the compiler's (compiler.rs:24).

Components are closed under reads, so a plan outside the advanced ones reads nothing that
was fed and what it showed is what evaluating it anew gives (`EvaluateAgree`, by induction
over the build order, with `WFMin` for the least place where two evaluations differ). At
every step of a round the log and the snapshot give the cells as the round began
(`RoundStart`), and the replies outstanding lead from the caller's view to it, one by one
(`Follows`); a view that has to be rebuilt has its dropped replies, or a snapshot asked for
behind them (`AllDropped`, `Asked`, `Given`).

A FIXPOINT the round has passed is settled: its result is a step of its body as it is now
from an iterate within the tolerance, or a cold solve's last. One it has not passed is as
long as nothing its body reads has changed since (`SolveInv`). In build order, what a
FIXPOINT publishes moves nothing an earlier one's body reads, so what is settled stays so
to the end of the round. While one is solved, the dataflow's rounds are the iterates of a
solve from its first (cold) or from the last result (warm), and a solve skipped has the
same body and first iterate as the one before.

**WriterSyncProofs**

- `TypeCorrect`: what a savepoint noted and locked is always among what the transaction
  did, and an ended transaction keeps nothing; `NoDeadlock`: `Spec => []NoCommitDeadlock`.
- `AlwaysCurrent`: `Spec => []ResultsCurrent`, if `"rr"` is not in `Env`
  (`WriterSync_snapshot`) and models feed each other in fewer layers than there are rounds
  (`Layered`; the code has 16); `WritersRead`: `Spec => []ReadYourWrites`, if `"rr"` is not
  in `Env`, however the models of trigger mode feed each other.

The invariant says in which order a session's locks were taken: none before its first
round, in id order within the first, and from the second round on only models that read
results (`RoundInv`); it needs that triggers still to fire are of models no switch can have
brought to commit mode (`FireInv`). That results follow rests on one claim about each
session and model (`FollowInv`): at every key, what the session sees of the results is what
the model computes from what the session sees, or the session is yet to recompute the model
there (`Owed`: a trigger to fire, a table noted whose captures hold the key or are not to be
trusted, a model of the round); and unless it holds the model's lock, every row it wrote of
the model's tables is owed. A rollback to a savepoint keeps it because the same holds of
what the session goes back to (`SavedInv`, in which the captures stay and the notes go); a
commit or a switch changes the tables under the others, and keeps it because who holds no
lock of a model is owed all it wrote, and sees the committed rows elsewhere. At COMMIT
nothing is owed: the cache of bound tables lacks none but those of switches the session
wrote nothing of (`CacheInv`), and the last round finds nothing, since what each round
leaves is a layer further on (`LayerInv`). A switch meets no session with rows of the
model's tables or results (`RowsInv`).

The claim for every round, however models feed each other, is false with three models: the
proof got stuck there and TLC found `WriterSync_deadlock`.

**GuiWindowProofs**

- `TypeCorrect`; `EngineIsCurrent`: `Spec => []SnapshotCurrent`; `ChangesGoInTheNext`:
  `Spec => []NeverStranded`; `UndoIsExact`: `Spec => []UndoExact`; `SavesDoNotClobber`:
  `Spec => NoClobber`.
- `NothingIsForgotten`: `Spec => []NothingForgotten`, if `"saver"` is not in `Env`
  (`GuiWindow_lost`).

The constants are assumed to be what the code has: finitely many cells, at least one, a
formula, an undo depth above 0 and a `None` that is no other value. The proof follows the
shape of the module. Each method is a function from windows to windows, and has a lemma
that says what it changes: what the window shows (`Shown`), what saving and loading look at
(`Ledger`), the engine and its build (`Engines`), or the stacks (`Stacks`); an action's
proof composes them. The invariant of a window and its store (`WinInv`) says that a build in
flight will be of what is shown, once the edits made since are put in it, or is followed by
another (`BuildInv`); that what is shown differently from the store and from the running
save is unsaved, and differently from the store alone is in the two together (`SaveInv`,
whose last argument is the change a command has made and not noted yet); that the token is
in one place, and never past another program's save that was not loaded (`TokenInv`); and
that what is unsaved is wanted (`StrandInv`). Undo is a chain: each step brings back what
the window showed at its change from what it showed at the next one's (`Chain`), and
that several edits are put back by their inverses, last first, is by the least place
where it would fail (`PutCellsOf`).

Only model-checked: everything of `Mapper`; and liveness (`Converges`,
`AllEnd`, `ChangesArrive`, `AllAnswered`), which is out of the prover's reach, as are
`ENABLED` and, for recursive definitions, induction over data.

## Not modelled

In the worker: a publication dropped by hand, dropping the extension, memory caps
and the cached listing. In the server: routing, authentication, the rate limiter, the
audit log and the capacity of the session cache. In the authority: the engine's results,
categories, items and views, what a policy decides (a request may be refused at any point
the code can), and the number of session names. In the change streams: `since` and what
events say. In the engine: what a plan computes, and whether an engine serves a changed
model. In the mapper: the parsing of values, the items a row mints and rounding. In the
stores: the encoding of datoms and rows, and migrations. In the window: everything drawn,
views, and structural commands other than a formula, a deletion and an import, which go
the same way. Of the rest, parsing (formulas, pgoutput, CSV), rendering, floating-point
functions, SQL generation and the wire types are pure or I/O and out of scope: most of
the program's lines are of this kind, so the share of it that is mapped stays small.
`components` in `PROJECT.json` lists every part with the reason.

## Plan

Done: the sync worker, the server's cache, the change streams, the authority, the stores
with their refinement, the engine's sessions and the window, with proofs; the writer's sync
modes with proofs of their lock order and their results; the folds. Next, in this order:

1. Theorems: `FoldsExact` for `Mapper`.
2. Composition: a client of `ChangeStreams` follows the log of `Authority` through
   reconnects with `since`; `ServerCache`'s `history` as a `VersionedStore`.
3. Kernels (build order, keys, due measures) against reference definitions; the rate
   limiter's buckets; the external functions' runner.
