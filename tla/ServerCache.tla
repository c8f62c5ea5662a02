---------------------------- MODULE ServerCache ----------------------------
(***************************************************************************)
(* The REST server's model cache (server/src/main.rs: load_model,          *)
(* save_model, access and the handlers around them; server/src/            *)
(* scheduler.rs; the write path of server/src/gui.rs).  Requests are async *)
(* tasks: each action below runs from one await point to the next, so the  *)
(* other requests, the refresh scheduler and other processes run between   *)
(* any two, and a request may be dropped at any of them (its client goes,  *)
(* or REQUEST_TIMEOUT passes) while its blocking task runs on.             *)
(*                                                                         *)
(* Data abstraction.  The store's content is the set of writes it holds; a *)
(* save stores a whole model.  history[tx] is the content at high-water tx,*)
(* so its length is the store's high-water mark.  A load reads the mark    *)
(* and then each part of the model in a transaction of its own, so other   *)
(* saves fall between them: what it gives may hold any write that was      *)
(* stored since the mark, and lack any that was not stored all the time.   *)
(***************************************************************************)
EXTENDS Integers, Sequences, FiniteSets

CONSTANTS
  Reader,     \* GET requests: load_model, then the caller's decisions
  Writer,     \* set_cell and persisted eval_measure requests
  Gui,        \* write requests of the GUI routes (gui::serve)
  Tick,       \* scheduler ticks with something to refresh
  Outside,    \* saves of other processes
  MayDrop     \* requests that may be dropped at an await point

Request == Reader \cup Writer
Actor == Request \cup Gui \cup Tick
Edit == Writer \cup Gui \cup Tick \cup Outside

ASSUME MayDropAssumption == MayDrop \subseteq Request \cup Gui
ASSUME DistinctAssumption ==
  /\ Reader \cap (Writer \cup Gui \cup Tick \cup Outside) = {}
  /\ Writer \cap (Gui \cup Tick \cup Outside) = {}
  /\ Gui \cap (Tick \cup Outside) = {}
  /\ Tick \cap Outside = {}
  /\ IsFiniteSet(Edit)

Free == "free"
ASSUME FreeAssumption == Free \notin Actor

VARIABLES
  history,    \* the store's content at each high-water mark
  cache,      \* AppState.cache: the cached model, with the mark it was read at
  loadedTx,   \* AppState.loaded_tx
  writeLock,  \* the holder of AppState.write_lock, or Free
  cacheLock,  \* the request that holds the cache for writing, or Free
  sessions,   \* policy sessions: the key's mark -> the mark of the model it is made from
  pc,         \* where each actor is
  start,      \* the store's high-water when the request looked at the cache first
  hw,         \* the high-water load_model probed, or None
  model,      \* the model in hand, and the mark it was loaded at
  base,       \* the mark a save is checked against
  orphans     \* saves whose request was dropped: their blocking tasks run on

vars == <<history, cache, loadedTx, writeLock, cacheLock, sessions, pc, start, hw, model, base,
          orphans>>

-----------------------------------------------------------------------------
None == 0
NoModel == [on |-> FALSE, tx |-> 0, edits |-> {}]

\* The store's high-water mark.
HighWater == Len(history)

\* A load has read it, and no part of the model.
Begun == [on |-> FALSE, tx |-> HighWater, edits |-> {}]

\* The parts of a model, read one by one since mark tx, may hold the writes of E.
ReadSince(tx, E) ==
  \A e \in Edit : \E t \in tx .. HighWater : e \in E <=> e \in history[t]

\* save_model: another writer committed since the base it is checked against.
Conflicts(b) == b # None /\ b # HighWater

Goto(r, l) == pc' = [pc EXCEPT ![r] = l]

\* The guard of write_lock goes out of scope.
Release(r) == writeLock' = IF writeLock = r THEN Free ELSE writeLock

Init ==
  /\ history = <<{}>>
  /\ cache = NoModel
  /\ loadedTx = None
  /\ writeLock = Free
  /\ cacheLock = Free
  /\ sessions = [tx \in {} |-> 0]
  /\ pc = [a \in Actor |-> "idle"]
  /\ start = [r \in Request |-> 0]
  /\ hw = [r \in Request |-> None]
  /\ model = [a \in Actor |-> NoModel]
  /\ base = [a \in Actor |-> None]
  /\ orphans = {}

-----------------------------------------------------------------------------
(* load_model and access. *)

TakeWriteAny(a) ==
  /\ a \in Actor \ Reader
  /\ pc[a] = "idle"
  /\ writeLock' = a
  /\ Goto(a, IF a \in Request THEN "check" ELSE "locked")
  /\ UNCHANGED <<history, cache, loadedTx, cacheLock, sessions, start, hw, model, base, orphans>>

\* A writer, a GUI write or a tick takes write_lock.
TakeWrite(a) ==
  /\ a \in Actor \ Reader
  /\ writeLock = Free
  /\ pc[a] = "idle"
  /\ writeLock' = a
  /\ Goto(a, IF a \in Request THEN "check" ELSE "locked")
  /\ UNCHANGED <<history, cache, loadedTx, cacheLock, sessions, start, hw, model, base, orphans>>

\* A reader comes in.
Arrive(r) ==
  /\ r \in Reader
  /\ pc[r] = "idle"
  /\ Goto(r, "check")
  /\ UNCHANGED <<history, cache, loadedTx, writeLock, cacheLock, sessions, start, hw, model, base,
                 orphans>>

\* Is a model cached?  If so its mark is checked against the store's.
Check(r) ==
  /\ pc[r] = "check"
  /\ cacheLock = Free
  /\ start' = [start EXCEPT ![r] = HighWater]
  /\ Goto(r, IF cache.on THEN "probe" ELSE "look")
  /\ UNCHANGED <<history, cache, loadedTx, writeLock, cacheLock, sessions, hw, model, base, orphans>>

\* store_high_water, on the kept probe handle.
Probe(r) ==
  /\ pc[r] = "probe"
  /\ hw' = [hw EXCEPT ![r] = HighWater]
  /\ Goto(r, "look")
  /\ UNCHANGED <<history, cache, loadedTx, writeLock, cacheLock, sessions, start, model, base,
                 orphans>>

FreshAny(r) == cache.on

\* The cached copy still matches; with nothing cached before, any copy will do.
Fresh(r) == cache.on /\ (hw[r] = None \/ hw[r] = loadedTx)

LookHolds(r) ==
  /\ pc[r] = "look"
  /\ cacheLock = Free
  /\ IF Fresh(r)
     THEN /\ model' = [model EXCEPT ![r] = cache]
          /\ Goto(r, "access")
          /\ UNCHANGED cacheLock
     ELSE /\ Goto(r, "relook")
          /\ cacheLock' = r
          /\ UNCHANGED model
  /\ UNCHANGED <<history, cache, loadedTx, writeLock, sessions, start, hw, base, orphans>>

\* The cached copy, under the read lock.
Look(r) ==
  /\ pc[r] = "look"
  /\ cacheLock = Free
  /\ IF Fresh(r)
     THEN /\ model' = [model EXCEPT ![r] = cache]
          /\ Goto(r, "access")
     ELSE /\ Goto(r, "relook")
          /\ UNCHANGED model
  /\ UNCHANGED <<history, cache, loadedTx, writeLock, cacheLock, sessions, start, hw, base, orphans>>

\* The same under the write lock, which a miss keeps for the load.
Relook(r) ==
  /\ pc[r] = "relook"
  /\ cacheLock = Free
  /\ IF Fresh(r)
     THEN /\ model' = [model EXCEPT ![r] = cache]
          /\ Goto(r, "access")
          /\ UNCHANGED cacheLock
     ELSE /\ cacheLock' = r
          /\ Goto(r, "load")
          /\ UNCHANGED model
  /\ UNCHANGED <<history, cache, loadedTx, writeLock, sessions, start, hw, base, orphans>>

\* The load, on a blocking thread: the high-water first, ...
LoadMark(r) ==
  /\ pc[r] = "load"
  /\ model' = [model EXCEPT ![r] = Begun]
  /\ Goto(r, "parts")
  /\ UNCHANGED <<history, cache, loadedTx, writeLock, cacheLock, sessions, start, hw, base, orphans>>

\* Mutant: the high-water is read when the parts have been.
LoadLate(r) ==
  /\ pc[r] = "parts"
  /\ \E E \in SUBSET Edit :
       /\ ReadSince(model[r].tx, E)
       /\ model' = [model EXCEPT ![r] = [on |-> TRUE, tx |-> HighWater, edits |-> E]]
  /\ Goto(r, "land")
  /\ UNCHANGED <<history, cache, loadedTx, writeLock, cacheLock, sessions, start, hw, base, orphans>>

\* ... then categories, items, measures, cells, views and meta.
Load(r) ==
  /\ pc[r] = "parts"
  /\ \E E \in SUBSET Edit :
       /\ ReadSince(model[r].tx, E)
       /\ model' = [model EXCEPT ![r] = [on |-> TRUE, tx |-> model[r].tx, edits |-> E]]
  /\ Goto(r, "land")
  /\ UNCHANGED <<history, cache, loadedTx, writeLock, cacheLock, sessions, start, hw, base, orphans>>

\* It becomes the cached copy.
Land(r) ==
  /\ pc[r] = "land"
  /\ loadedTx' = model[r].tx
  /\ cache' = model[r]
  /\ cacheLock' = Free
  /\ Goto(r, "access")
  /\ UNCHANGED <<history, writeLock, sessions, start, hw, model, base, orphans>>

\* access: the caller's decisions, from the session keyed by loaded_tx or a new
\* one made from the model in hand.  A reader then answers; a request the policy
\* or a writer the validation turns down is refused.
Access(r) ==
  /\ pc[r] = "access"
  /\ sessions' = IF loadedTx \in DOMAIN sessions
                 THEN sessions
                 ELSE [tx \in DOMAIN sessions \cup {loadedTx} |->
                         IF tx = loadedTx THEN model[r].tx ELSE sessions[tx]]
  /\ \/ /\ r \in Reader
        /\ Goto(r, "done")
        /\ UNCHANGED writeLock
     \/ /\ Goto(r, "refused")
        /\ Release(r)
     \/ /\ r \in Writer
        /\ Goto(r, "save")
        /\ UNCHANGED writeLock
  /\ UNCHANGED <<history, cache, loadedTx, cacheLock, start, hw, model, base, orphans>>

\* The probe or the load fails: 500, and the guards go.
LoadFail(r) ==
  /\ pc[r] \in {"probe", "load", "parts"}
  /\ Goto(r, "refused")
  /\ Release(r)
  /\ cacheLock' = IF cacheLock = r THEN Free ELSE cacheLock
  /\ UNCHANGED <<history, cache, loadedTx, sessions, start, hw, model, base, orphans>>

-----------------------------------------------------------------------------
(* save_model. *)

\* The base is what loaded_tx is by now.
Base(r) ==
  /\ pc[r] = "save"
  /\ base' = [base EXCEPT ![r] = loadedTx]
  /\ Goto(r, "saving")
  /\ UNCHANGED <<history, cache, loadedTx, writeLock, cacheLock, sessions, start, hw, model, orphans>>

\* The store's save, on a blocking thread: the whole model, or a conflict.
Save(r) ==
  /\ pc[r] = "saving"
  /\ IF Conflicts(base[r])
     THEN /\ Goto(r, "conflict")
          /\ UNCHANGED <<history, model>>
     ELSE LET edits == model[r].edits \cup {r}
          IN /\ history' = Append(history, edits)
             /\ model' = [model EXCEPT ![r] = [on |-> TRUE, tx |-> HighWater + 1, edits |-> edits]]
             /\ Goto(r, "publish")
  /\ UNCHANGED <<cache, loadedTx, writeLock, cacheLock, sessions, start, hw, base, orphans>>

\* The save fails for another reason: 500, and the cache stays.
SaveFail(r) ==
  /\ pc[r] = "saving"
  /\ Goto(r, "refused")
  /\ Release(r)
  /\ UNCHANGED <<history, cache, loadedTx, cacheLock, sessions, start, hw, model, base, orphans>>

\* What was saved becomes the cached copy; the request is answered.
Publish(r) ==
  /\ pc[r] = "publish"
  /\ cacheLock = Free
  /\ loadedTx' = model[r].tx
  /\ cache' = model[r]
  /\ Release(r)
  /\ Goto(r, "done")
  /\ UNCHANGED <<history, cacheLock, sessions, start, hw, model, base, orphans>>

\* A conflict drops the stale cache and answers 409.
Conflict(r) ==
  /\ pc[r] = "conflict"
  /\ cacheLock = Free
  /\ cache' = NoModel
  /\ Release(r)
  /\ Goto(r, "refused")
  /\ UNCHANGED <<history, loadedTx, cacheLock, sessions, start, hw, model, base, orphans>>

\* The request is dropped: its locks go with it, its blocking save runs on.  A
\* GUI write keeps write_lock inside its blocking task, and only loses the
\* invalidation that follows it.
Drop(r) ==
  /\ r \in MayDrop
  /\ pc[r] \notin {"idle", "locked", "done", "refused", "dropped"}
  /\ Goto(r, "dropped")
  /\ Release(r)
  /\ cacheLock' = IF cacheLock = r THEN Free ELSE cacheLock
  /\ orphans' = IF pc[r] = "saving"
                THEN orphans \cup {[edits |-> model[r].edits \cup {r}, base |-> base[r]]}
                ELSE orphans
  /\ UNCHANGED <<history, cache, loadedTx, sessions, start, hw, model, base>>

\* The save of a dropped request.
OrphanSave(o) ==
  /\ o \in orphans
  /\ orphans' = orphans \ {o}
  /\ history' = IF Conflicts(o.base) THEN history ELSE Append(history, o.edits)
  /\ UNCHANGED <<cache, loadedTx, writeLock, cacheLock, sessions, pc, start, hw, model, base>>

-----------------------------------------------------------------------------
(* The other writers. *)

\* gui::serve: the authority refreshes and saves against its own mark, one request
\* at a time, or refuses; write_lock goes with the blocking task.
GuiSave(g) ==
  /\ g \in Gui
  /\ pc[g] = "locked"
  /\ history' \in {history, Append(history, history[HighWater] \cup {g})}
  /\ writeLock' = Free
  /\ Goto(g, "invalidate")
  /\ UNCHANGED <<cache, loadedTx, cacheLock, sessions, start, hw, model, base, orphans>>

\* Then the older routes' cache is dropped.
Invalidate(g) ==
  /\ g \in Gui
  /\ pc[g] = "invalidate"
  /\ cacheLock = Free
  /\ cache' = NoModel
  /\ Goto(g, "done")
  /\ UNCHANGED <<history, loadedTx, writeLock, cacheLock, sessions, start, hw, model, base, orphans>>

\* tick_once: its own load, the refreshes, its own save, then the cache goes.
\* With every refresh failed, or the store, there is nothing to save.
TickMark(t) ==
  /\ t \in Tick
  /\ pc[t] = "locked"
  /\ model' = [model EXCEPT ![t] = Begun]
  /\ Goto(t, "parts")
  /\ UNCHANGED <<history, cache, loadedTx, writeLock, cacheLock, sessions, start, hw, base, orphans>>

TickLoad(t) ==
  /\ t \in Tick
  /\ pc[t] = "parts"
  /\ \E E \in SUBSET Edit :
       /\ ReadSince(model[t].tx, E)
       /\ model' = [model EXCEPT ![t] = [on |-> TRUE, tx |-> model[t].tx, edits |-> E]]
  /\ Goto(t, "refresh")
  /\ UNCHANGED <<history, cache, loadedTx, writeLock, cacheLock, sessions, start, hw, base, orphans>>

TickSave(t) ==
  /\ t \in Tick
  /\ pc[t] = "refresh"
  /\ IF Conflicts(model[t].tx)
     THEN /\ writeLock' = Free
          /\ Goto(t, "refused")
          /\ UNCHANGED history
     ELSE /\ history' = Append(history, model[t].edits \cup {t})
          /\ Goto(t, "forget")
          /\ UNCHANGED writeLock
  /\ model' = [model EXCEPT ![t] = NoModel]
  /\ UNCHANGED <<cache, loadedTx, cacheLock, sessions, start, hw, base, orphans>>

TickNothing(t) ==
  /\ t \in Tick
  /\ pc[t] \in {"locked", "parts", "refresh"}
  /\ writeLock' = Free
  /\ Goto(t, "refused")
  /\ model' = [model EXCEPT ![t] = NoModel]
  /\ UNCHANGED <<history, cache, loadedTx, cacheLock, sessions, start, hw, base, orphans>>

TickForget(t) ==
  /\ t \in Tick
  /\ pc[t] = "forget"
  /\ cacheLock = Free
  /\ cache' = NoModel
  /\ writeLock' = Free
  /\ Goto(t, "done")
  /\ UNCHANGED <<history, loadedTx, cacheLock, sessions, start, hw, model, base, orphans>>

\* Another process loads, changes and saves the model, or conflicts and does not.
OutsideSave(o) ==
  /\ \A i \in 1 .. HighWater : o \notin history[i]
  /\ history' = Append(history, history[HighWater] \cup {o})
  /\ UNCHANGED <<cache, loadedTx, writeLock, cacheLock, sessions, pc, start, hw, model, base, orphans>>

-----------------------------------------------------------------------------
LoadModel(r) == Check(r) \/ Probe(r) \/ Look(r) \/ Relook(r) \/ LoadMark(r) \/ Load(r)
                \/ Land(r) \/ LoadFail(r)
SaveModel(r) == Base(r) \/ Save(r) \/ SaveFail(r) \/ Publish(r) \/ Conflict(r)
Scheduler(t) == TickMark(t) \/ TickLoad(t) \/ TickSave(t) \/ TickNothing(t) \/ TickForget(t)

Step(a) ==
  \/ TakeWrite(a)
  \/ a \in Request /\ (Arrive(a) \/ LoadModel(a) \/ Access(a))
  \/ a \in Writer /\ SaveModel(a)
  \/ GuiSave(a)
  \/ Invalidate(a)
  \/ Scheduler(a)

\* Every request was answered or dropped.
Ended == /\ \A a \in Actor : pc[a] \in {"done", "refused", "dropped"}
         /\ UNCHANGED vars

Next ==
  \/ \E a \in Actor : Step(a)
  \/ \E r \in Request \cup Gui : Drop(r)
  \/ \E o \in orphans : OrphanSave(o)
  \/ \E o \in Outside : OutsideSave(o)
  \/ Ended

Spec == Init /\ [][Next]_vars

\* The runtime polls every task that can go on; tokio's locks are handed out in
\* the order they were asked for.
Fairness ==
  /\ \A a \in Actor : WF_vars(Step(a))
  /\ \A a \in Actor \ Reader : SF_vars(TakeWrite(a))
FairSpec == Spec /\ Fairness

-----------------------------------------------------------------------------
(* Properties. *)

Models == [on : BOOLEAN, tx : Nat, edits : SUBSET Edit]

TypeOK ==
  /\ history \in Seq(SUBSET Edit) /\ HighWater >= 1
  /\ cache \in Models
  /\ loadedTx \in 0 .. HighWater
  /\ writeLock \in (Actor \ Reader) \cup {Free}
  /\ cacheLock \in Request \cup {Free}
  /\ DOMAIN sessions \subseteq 1 .. HighWater
  /\ \A tx \in DOMAIN sessions : sessions[tx] \in 1 .. HighWater
  /\ pc \in [Actor -> {"idle", "locked", "check", "probe", "look", "relook", "load", "parts",
                       "land", "access", "save", "saving", "publish", "conflict", "invalidate",
                       "refresh", "forget", "done", "refused", "dropped"}]
  /\ start \in [Request -> Nat]
  /\ hw \in [Request -> 0 .. HighWater]
  /\ model \in [Actor -> Models]
  /\ base \in [Actor -> 0 .. HighWater]
  /\ orphans \subseteq [edits : SUBSET Edit, base : 0 .. HighWater]

\* "Held across every load-modify-save of the store ..., so concurrent writers
\* cannot lose each other's updates" (AppState.write_lock): while no writer was
\* dropped, no save removes another writer's write, whatever other processes save.
NoSaveUndone == [][history[HighWater] \subseteq history'[HighWater']]_vars
NoLostUpdate ==
  [][(\A a \in Writer \cup Gui : pc[a] # "dropped") =>
       history[HighWater] \ Outside \subseteq history'[HighWater']]_vars

\* A save "from a stale cache (another process wrote since) is refused with 409"
\* (AppState.loaded_tx): what a save stores was loaded at the mark it replaces.
NoSaveFromStale ==
  [][\A r \in Writer : pc[r] = "saving" /\ pc'[r] = "publish" => model[r].tx = HighWater]_vars

\* loaded_tx is "changed only with the cache write lock held, so a cache reader
\* sees a matching pair": no part of the cached model is older than loaded_tx, so
\* while that is the store's mark the model is what is stored, although it was read
\* in parts while others saved.  (When it no longer is, some parts may be newer.)
MatchingPair ==
  cacheLock = Free /\ cache.on => cache.tx = loadedTx /\ ReadSince(loadedTx, cache.edits)

\* "another process's write shows up on the next request" (load_model): until a
\* GUI route writes, the model a request goes on with holds every save made before
\* it looked at the cache.
FreshReads ==
  \A r \in Request : pc[r] \in {"access", "save", "done"} => start[r] <= model[r].tx
ReadsAreFresh == (\A q \in Gui : pc[q] = "idle") => FreshReads

\* Policy sessions "are keyed by the store's high-water, so a structure change (any
\* save) makes new ones" (access): a session is made from the model it is keyed by.
SessionsMatch == \A tx \in DOMAIN sessions : sessions[tx] = tx

\* Every request is answered, every tick ends: no lock is kept or waited for
\* in a circle.
AllEnd == <>(\A a \in Actor : pc[a] \in {"done", "refused", "dropped"})
=============================================================================
