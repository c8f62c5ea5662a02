----------------------------- MODULE GuiWindow ------------------------------
(***************************************************************************)
(* A window of the graphical UI (gui/src/app.rs): the model it shows, the  *)
(* engine build, the load and the save that run on threads of their own,   *)
(* autosave, undo, and the stores, which other programs save too.          *)
(*                                                                         *)
(* The UI thread's state is the record win: each of its handlers is one    *)
(* atomic action, written as a composition of functions from windows to    *)
(* windows, one for each method.  A model is its input cells and its form, *)
(* the formula of its derived measure.  What an engine or a snapshot holds *)
(* is stood for by the model it was computed from.                         *)
(***************************************************************************)
EXTENDS Integers, Sequences, SequencesExt, FiniteSets, FiniteSetsExt

CONSTANTS
  Path,        \* stores
  Cell,        \* input cells
  Value,       \* what a cell may hold
  Formula,     \* formulas of the derived measure
  MeasureOf,   \* which measure a formula defines: one made anew may reuse an id
  None,        \* no value
  Env,         \* what fails: "load", "engine", "build", "disk", "saver"
  SeekLimit,   \* SEEK_SAVE_LIMIT, scaled
  UndoDepth,   \* UNDO_DEPTH, scaled
  MaxCommands, \* bound: the user's commands
  MaxOutside,  \* bound: saves of other programs
  MaxFaults    \* bound: failures

ASSUME ConstantsAssumption ==
  /\ MeasureOf \in [Formula -> STRING]
  /\ None \notin Path /\ None \notin Value /\ None \notin Formula
  /\ {SeekLimit, MaxCommands, MaxOutside, MaxFaults} \subseteq Nat
  /\ UndoDepth \in Nat \ {0}
  /\ IsFiniteSet(Cell) /\ Cell # {} /\ Formula # {}

VARIABLES
  store,     \* the model and high-water of each store
  foreign,   \* the high-water of another program's last save of each
  win,       \* the window: see Opened
  commands, faults, outsiders

vars == <<store, foreign, win, commands, faults, outsiders>>

Models == [cells : [Cell -> Value \cup {None}], form : Formula \cup {None}]
Edit == [at : Cell, value : Value \cup {None}]
Changes == [cells : SUBSET Cell, structure : BOOLEAN]

\* What the threads were given, and what they answered: Loading, Building, Saving.
Load == [done : {None, "failed"}] \cup [done : {"ok"}, got : [model : Models, hw : Nat]]
Build == [of : Models, shares : BOOLEAN, edits : Seq(Edit), stale : BOOLEAN,
          done : {None, "ok", "failed"}]
Save == [model : Models, changes : Changes, token : Nat \cup {None}, whole : BOOLEAN,
         shares : BOOLEAN, done : {None, "ok", "conflict", "failed", "lost"}]

\* Step, of the undo and redo stacks.
Step == [kind : {"cells"}, edits : Seq(Edit)] \cup [kind : {"form"}, form : Formula \cup {None}]
          \cup [kind : {"model"}, model : Models]

\* ImprovApp.
Window ==
  [db : Path \cup {None}, loading : Load \cup {None},
   model : Models, held : Seq(Edit), engine : Models \cup {None}, snapshot : Models \cup {None},
   building : Build \cup {None},
   token : Nat \cup {None}, unsaved : Changes, saving : Save \cup {None},
   wanted : BOOLEAN, failed : BOOLEAN, lost : BOOLEAN, outside : Nat \cup {None}, dirty : BOOLEAN,
   undo : Seq(Step), redo : Seq(Step),
   past : Seq(Models), future : Seq(Models), loadedAt : Nat]

\* None is Option::None: none of the values a field can hold.
ASSUME NoneAssumption ==
  /\ None \notin Nat /\ None \notin {"ok", "conflict", "failed", "lost"}
  /\ None \notin Models /\ None \notin Load /\ None \notin Build /\ None \notin Save

Empty == [cells |-> [c \in Cell |-> None], form |-> None]
NoChanges == [cells |-> {}, structure |-> FALSE]

-----------------------------------------------------------------------------
(* Change sets and edits. *)

\* ChangeSet::add.
Add(a, b) == [cells |-> a.cells \cup b.cells, structure |-> a.structure \/ b.structure]

\* ChangeSet::between.
Between(old, new) ==
  [cells |-> {c \in Cell : old.cells[c] # new.cells[c]}, structure |-> old.form # new.form]

\* put_input, for each edit in order: the last one of a cell says what it holds.
Put(cells, edits) ==
  [c \in Cell |-> LET of == {i \in DOMAIN edits : edits[i].at = c} IN
                  IF of = {} THEN cells[c] ELSE edits[Max(of)].value]

\* push_bounded.
PushBounded(stack, x) == Append(IF Len(stack) >= UndoDepth THEN Tail(stack) ELSE stack, x)

-----------------------------------------------------------------------------
(* The model and its sharing. *)

\* The model as the window shows it: input looks at the held edits first.
Shown(w) == IF w.held = <<>> THEN w.model ELSE [w.model EXCEPT !.cells = Put(@, w.held)]

Sharing(x) == x # None /\ x.shares
Shared(w) == Sharing(w.building) \/ Sharing(w.saving)

LetGo(x) == IF x = None THEN None ELSE [x EXCEPT !.shares = FALSE]

\* The window has another copy of the model than the threads.
Unshared(w) == [w EXCEPT !.building = LetGo(@), !.saving = LetGo(@)]

\* model_mut waits for the build's copy, or copies the model itself: either way
\* nothing shares it and the held edits are in it.
ModelMut(w) == [Unshared(w) EXCEPT !.model = Shown(w), !.held = <<>>]

WriteHeld(w) == IF Shared(w) THEN w ELSE [w EXCEPT !.model = Shown(w), !.held = <<>>]

WriteInput(w, at, value) ==
  LET u == WriteHeld(w) IN
  IF Shared(u) THEN [u EXCEPT !.held = Append(@, [at |-> at, value |-> value])]
  ELSE [u EXCEPT !.model.cells[at] = value]

-----------------------------------------------------------------------------
(* Engine builds. *)

\* spawn_build: the old engine goes, and of its results those of measures the
\* model no longer computes.
SpawnBuild(w) ==
  LET u == IF w.held = <<>> THEN w ELSE ModelMut(w) IN
  [u EXCEPT !.engine = None,
            !.snapshot = IF u.model.form = None THEN None ELSE @,
            !.building = [of |-> u.model, shares |-> TRUE, edits |-> <<>>, stale |-> FALSE, done |-> None]]

\* Mutant: the build in flight is not marked stale.
RebuildOnce(w) ==
  IF w.building # None THEN [w EXCEPT !.building.edits = <<>>] ELSE SpawnBuild(w)

\* rebuild_engine.
RebuildEngine(w) ==
  IF w.building # None
  THEN [w EXCEPT !.building.stale = TRUE, !.building.edits = <<>>]
  ELSE SpawnBuild(w)

\* land.
Land(w) ==
  LET b == w.building
      u == WriteHeld([w EXCEPT !.building = None])
      e == IF b.done = "failed" \/ b.of.form = None THEN None
           ELSE [b.of EXCEPT !.cells = Put(@, b.edits)] IN
  IF b.stale THEN SpawnBuild(u) ELSE [u EXCEPT !.engine = e, !.snapshot = e]

\* push_engine: an edit waits for the build in flight, if any.
PushEngine(w, at, value) ==
  IF w.building # None
  THEN IF w.building.stale THEN w
       ELSE [w EXCEPT !.building.edits = Append(@, [at |-> at, value |-> value])]
  ELSE IF w.engine = None THEN w
  ELSE LET e == [w.engine EXCEPT !.cells[at] = value] IN
       [w EXCEPT !.engine = e, !.snapshot = e]

-----------------------------------------------------------------------------
(* Saves. *)

Writable(w) == w.loading = None /\ ~w.lost /\ w.outside = None

\* send_save and save_model_for: everything unsaved, with the token; a save of
\* more than SeekLimit cells shares the model.
SendSave(w) ==
  LET whole == Cardinality(w.unsaved.cells) > SeekLimit \/ w.token = None
      u == IF whole THEN ModelMut(w) ELSE w IN
  [u EXCEPT !.saving = [model |-> Shown(u), changes |-> w.unsaved, token |-> w.token,
                        whole |-> whole, shares |-> whole, done |-> None],
            !.unsaved = NoChanges,
            !.token = None]

\* Mutant: a change made while a save runs does not ask for another.
SaveChangesNotWanted(w, changes) ==
  IF w.db = None THEN w
  ELSE LET u == [w EXCEPT !.unsaved = Add(@, changes), !.dirty = TRUE] IN
       IF ~Writable(u) \/ u.saving # None THEN u ELSE SendSave(u)

\* save_changes: one save at a time.
SaveChanges(w, changes) ==
  IF w.db = None THEN w
  ELSE LET u == [w EXCEPT !.unsaved = Add(@, changes), !.dirty = TRUE] IN
       IF ~Writable(u) THEN u
       ELSE IF u.saving # None THEN [u EXCEPT !.wanted = TRUE]
       ELSE SendSave(u)

\* Mutant: a failed save forgets what it was to write.
AdoptForgetting(w, s, hw) ==
  CASE s.done = "ok" -> [w EXCEPT !.token = s.token, !.failed = FALSE]
    [] s.done = "lost" -> [w EXCEPT !.lost = TRUE, !.failed = TRUE]
    [] OTHER -> [w EXCEPT !.token = s.token, !.failed = TRUE,
                          !.outside = IF s.done = "conflict" THEN hw ELSE @]

\* What land_save takes from a finished save s: the token, and what it failed to
\* write.
Adopt(w, s, hw) ==
  CASE s.done = "ok" -> [w EXCEPT !.token = s.token, !.failed = FALSE]
    [] s.done = "lost" -> [w EXCEPT !.lost = TRUE, !.failed = TRUE]
    [] OTHER -> [w EXCEPT !.token = s.token, !.failed = TRUE,
                          !.unsaved = Add(@, s.changes),
                          !.outside = IF s.done = "conflict" THEN hw ELSE @]

\* land_save: and the next save, if one was asked for meanwhile.
LandSave(w, hw) ==
  LET u == [Adopt([w EXCEPT !.saving = None], w.saving, hw) EXCEPT !.wanted = FALSE] IN
  IF w.wanted /\ Writable(u) THEN [SendSave(u) EXCEPT !.dirty = TRUE]
  ELSE [u EXCEPT !.dirty = u.unsaved # NoChanges]

-----------------------------------------------------------------------------
(* Edits and history. *)

\* Mutant: the value to restore is the model's, held edits or not.
PriorInModel(w, at) == w.model.cells[at]

\* A cell's value before put_cell changes it.
Prior(w, at) == Shown(w).cells[at]

\* put_cell, when the engine takes the edit.
PutCell(w, at, value) ==
  SaveChanges(PushEngine(WriteInput(w, at, value), at, value),
              [cells |-> {at}, structure |-> FALSE])

\* put_cell, when the engine refuses it: the cell is put back, in the engine as well
\* or by a new engine.
Refused(w, at, value, engineLives) ==
  LET u == WriteInput(WriteInput(w, at, value), at, Prior(w, at)) IN
  IF engineLives THEN u ELSE RebuildEngine([u EXCEPT !.snapshot = None])

\* Cell after cell, with the edits that put them back, the last first.
PutNext(r, e) == [win |-> PutCell(r.win, e.at, e.value),
                  inverse |-> <<[at |-> e.at, value |-> Prior(r.win, e.at)]>> \o r.inverse]
PutCells(w, edits) ==
  LET f[i \in 0 .. Len(edits)] ==
        IF i = 0 THEN [win |-> w, inverse |-> <<>>] ELSE PutNext(f[i - 1], edits[i]) IN
  f[Len(edits)]

\* swap_structure.
SwapStructure(w, form) ==
  RebuildEngine(SaveChanges([ModelMut(w) EXCEPT !.model.form = form],
                            [cells |-> {}, structure |-> TRUE]))

\* swap_model.
SwapModel(w, m) ==
  RebuildEngine(SaveChanges([ModelMut(w) EXCEPT !.model = m], Between(Shown(w), m)))

\* apply_step, with the step that restores what it replaced.
ApplyStep(w, step) ==
  CASE step.kind = "cells" ->
         LET r == PutCells(w, step.edits) IN
         [win |-> r.win, inverse |-> [kind |-> "cells", edits |-> r.inverse]]
    [] step.kind = "form" ->
         [win |-> SwapStructure(w, step.form), inverse |-> [kind |-> "form", form |-> w.model.form]]
    [] step.kind = "model" ->
         [win |-> SwapModel(w, step.model), inverse |-> [kind |-> "model", model |-> Shown(w)]]

\* record_step, after a change of what w0 showed.
Record(w0, w, step) ==
  [w EXCEPT !.undo = PushBounded(@, step), !.redo = <<>>,
            !.past = PushBounded(@, Shown(w0)), !.future = <<>>]

-----------------------------------------------------------------------------
(* The window's life. *)

\* open: an empty window whose model loads, unless it is in memory.
Opened(path) ==
  LET w == [db |-> path, loading |-> IF path = None THEN None ELSE [done |-> None],
            model |-> Empty, held |-> <<>>, engine |-> None, snapshot |-> None, building |-> None,
            token |-> None, unsaved |-> NoChanges, saving |-> None,
            wanted |-> FALSE, failed |-> FALSE, lost |-> FALSE, outside |-> None, dirty |-> FALSE,
            undo |-> <<>>, redo |-> <<>>,
            past |-> <<>>, future |-> <<>>, loadedAt |-> 0] IN
  IF path = None THEN RebuildEngine(w) ELSE w

\* The window shows a model just loaded: install, and the reload of revert_to_saved.
Install(w, m, hw) ==
  RebuildEngine([Unshared(w) EXCEPT
    !.model = m, !.held = <<>>, !.token = hw, !.loadedAt = hw,
    !.unsaved = NoChanges, !.dirty = FALSE,
    !.undo = <<>>, !.redo = <<>>, !.past = <<>>, !.future = <<>>])

\* There is nothing left of failed saves.
Forgiven(w) ==
  [w EXCEPT !.failed = FALSE, !.lost = FALSE, !.wanted = FALSE, !.outside = None]

-----------------------------------------------------------------------------
Init ==
  /\ store \in [Path -> [model : {Empty, [cells |-> [c \in Cell |-> None], form |-> CHOOSE f \in Formula : TRUE]},
                         hw : {1}]]
  /\ foreign = [p \in Path |-> 0]
  /\ win \in {Opened(p) : p \in Path}
  /\ commands = 0 /\ faults = 0 /\ outsiders = 0

Fault(f) == f \in Env /\ faults < MaxFaults /\ faults' = faults + 1

\* Another program loads a store and saves it.
OutsideSave(p, c, v) ==
  /\ outsiders < MaxOutside /\ outsiders' = outsiders + 1
  /\ v # store[p].model.cells[c]
  /\ store' = [store EXCEPT ![p].model.cells[c] = v, ![p].hw = @ + 1]
  /\ foreign' = [foreign EXCEPT ![p] = store[p].hw + 1]
  /\ UNCHANGED <<win, commands, faults>>

(* The threads. *)

Loads ==
  /\ win.loading # None /\ win.loading.done = None
  /\ \/ win' = [win EXCEPT !.loading = [done |-> "ok", got |-> store[win.db]]] /\ UNCHANGED faults
     \/ Fault("load") /\ win' = [win EXCEPT !.loading = [done |-> "failed"]]
  /\ UNCHANGED <<store, foreign, commands, outsiders>>

\* The build thread copies the model and lets go of it.
Copies ==
  /\ Sharing(win.building)
  /\ win' = [win EXCEPT !.building = LetGo(@)]
  /\ UNCHANGED <<store, foreign, commands, faults, outsiders>>

\* It ends, with an engine or without; a failing build may be one of the edits.
Builds ==
  /\ win.building # None /\ ~win.building.shares /\ win.building.done = None
  /\ \/ win' = [win EXCEPT !.building.done = "ok"] /\ UNCHANGED faults
     \/ Fault("build") /\ win' = [win EXCEPT !.building.done = "failed"]
  /\ UNCHANGED <<store, foreign, commands, outsiders>>

\* Mutant: a failed save leaves the token with the store's handle.
TokenLost(s, done) == [s EXCEPT !.done = done, !.shares = FALSE, !.token = None]

\* run_save failed: the adopted token back, unchanged.
TokenBack(s, done) == [s EXCEPT !.done = done, !.shares = FALSE]

\* What a save leaves in the store.
Written(m, s) ==
  IF s.whole THEN s.model
  ELSE [cells |-> [c \in Cell |-> IF c \in s.changes.cells THEN s.model.cells[c] ELSE m.cells[c]],
        form |-> IF s.changes.structure THEN s.model.form ELSE m.form]

\* run_save: refused when another program saved since the token, whole and unchecked
\* without one.
Saves ==
  LET s == win.saving
      p == win.db IN
  /\ s # None /\ s.done = None
  /\ \/ /\ s.token \in {None, store[p].hw}
        /\ store' = [store EXCEPT ![p] = [model |-> Written(@.model, s), hw |-> @.hw + 1]]
        /\ win' = [win EXCEPT !.saving = [s EXCEPT !.done = "ok", !.token = store[p].hw + 1, !.shares = FALSE]]
        /\ UNCHANGED faults
     \/ /\ s.token \notin {None, store[p].hw}
        /\ win' = [win EXCEPT !.saving = TokenBack(s, "conflict")]
        /\ UNCHANGED <<store, faults>>
     \/ /\ Fault("disk")
        /\ win' = [win EXCEPT !.saving = TokenBack(s, "failed")]
        /\ UNCHANGED store
     \/ /\ Fault("saver")
        /\ win' = [win EXCEPT !.saving = [s EXCEPT !.done = "lost", !.shares = FALSE]]
        /\ UNCHANGED store
  /\ UNCHANGED <<foreign, commands, outsiders>>

(* Frames. *)

PollLoad ==
  /\ win.loading # None /\ win.loading.done # None
  /\ LET l == win.loading
         w == [win EXCEPT !.loading = None] IN
     win' = IF l.done = "failed" THEN [w EXCEPT !.db = None] ELSE Install(w, l.got.model, l.got.hw)
  /\ UNCHANGED <<store, foreign, commands, faults, outsiders>>

\* The first part of poll_build, each frame.
PollHeld ==
  /\ win.loading = None
  /\ win.held # <<>> /\ ~Shared(win)
  /\ win' = WriteHeld(win)
  /\ UNCHANGED <<store, foreign, commands, faults, outsiders>>

PollBuild ==
  /\ win.loading = None
  /\ win.building # None /\ win.building.done # None
  /\ win' = Land(win)
  /\ UNCHANGED <<store, foreign, commands, faults, outsiders>>

\* outside_save of a conflict may not read the store: then it is 0.
PollSaves ==
  /\ win.saving # None /\ win.saving.done # None
  /\ win' = LandSave(win, store[win.db].hw)
  /\ UNCHANGED <<store, foreign, commands, faults, outsiders>>

\* probe_store, unless a save runs; one that cannot read the store finds nothing.
Probe ==
  /\ win.db # None /\ win.loading = None /\ win.saving = None
  /\ \/ /\ win' = [win EXCEPT !.outside = IF win.token \in {None, store[win.db].hw} THEN None ELSE store[win.db].hw]
        /\ UNCHANGED faults
     \/ /\ Fault("disk")
        /\ win' = [win EXCEPT !.outside = None]
  /\ UNCHANGED <<store, foreign, commands, outsiders>>

-----------------------------------------------------------------------------
(* Commands.  None runs while the model loads; those that wait for the running
   save and what it starts (finish_saves) come once these have landed. *)

Command == commands < MaxCommands /\ commands' = commands + 1 /\ win.loading = None

\* set_cell, clear_cell, paste_cells and cut: each edit in turn.
EditCells(edits) ==
  /\ Command
  /\ \E i \in DOMAIN edits : Prior(win, edits[i].at) # edits[i].value
  /\ LET r == PutCells(win, edits) IN
     win' = Record(win, r.win, [kind |-> "cells", edits |-> r.inverse])
  /\ UNCHANGED <<store, foreign, faults, outsiders>>

\* The engine refuses the last one: those before it are put back, and nothing is
\* recorded.
EditRefused(edits, engineLives) ==
  /\ Command /\ Fault("engine")
  /\ win.building = None /\ win.engine # None
  /\ LET n == Len(edits)
         r == PutCells(win, SubSeq(edits, 1, n - 1)) IN
     win' = PutCells(Refused(r.win, edits[n].at, edits[n].value, engineLives), r.inverse).win
  /\ UNCHANGED <<store, foreign, outsiders>>

\* commit_formula, add_derived_measure: publish_structure.
SetFormula(f) ==
  /\ Command
  /\ f # win.model.form
  /\ win.model.form # None => MeasureOf[f] = MeasureOf[win.model.form]
  /\ win' = Record(win, SwapStructure(win, f), [kind |-> "form", form |-> win.model.form])
  /\ UNCHANGED <<store, foreign, faults, outsiders>>

\* Delete: publish.
DeleteMeasure ==
  /\ Command
  /\ win.model.form # None
  /\ win' = Record(win, SwapModel(win, [Shown(win) EXCEPT !.form = None]),
                   [kind |-> "model", model |-> Shown(win)])
  /\ UNCHANGED <<store, foreign, faults, outsiders>>

\* run_csv_import, of a value into every cell.
Import(v) ==
  /\ Command
  /\ LET m == [Shown(win) EXCEPT !.cells = [c \in Cell |-> v]]
         u == RebuildEngine([ModelMut(win) EXCEPT !.model = m]) IN
     /\ m # Shown(win)
     /\ win' = Record(win, SaveChanges(u, Between(Shown(win), m)),
                      [kind |-> "model", model |-> Shown(win)])
  /\ UNCHANGED <<store, foreign, faults, outsiders>>

Undo ==
  /\ Command
  /\ win.undo # <<>>
  /\ LET r == ApplyStep(win, Last(win.undo)) IN
     win' = [r.win EXCEPT !.undo = Front(@), !.past = Front(@),
                          !.redo = PushBounded(@, r.inverse), !.future = PushBounded(@, Shown(win))]
  /\ UNCHANGED <<store, foreign, faults, outsiders>>

Redo ==
  /\ Command
  /\ win.redo # <<>>
  /\ LET r == ApplyStep(win, Last(win.redo)) IN
     win' = [r.win EXCEPT !.redo = Front(@), !.future = Front(@),
                          !.undo = PushBounded(@, r.inverse), !.past = PushBounded(@, Shown(win))]
  /\ UNCHANGED <<store, foreign, faults, outsiders>>

Recalculate ==
  /\ Command
  /\ win' = RebuildEngine(win)
  /\ UNCHANGED <<store, foreign, faults, outsiders>>

\* File > Save: the structure, and whatever is unsaved.
SaveModel ==
  /\ Command
  /\ win.db # None
  /\ win' = SaveChanges(win, [cells |-> {}, structure |-> TRUE])
  /\ UNCHANGED <<store, foreign, faults, outsiders>>

\* revert_to_saved; when it fails nothing changes, but the Reload panel goes.
RevertToSaved ==
  /\ Command
  /\ win.db # None /\ win.saving = None
  /\ \/ win' = Forgiven(Install(win, store[win.db].model, store[win.db].hw)) /\ UNCHANGED faults
     \/ Fault("disk") /\ win' = [win EXCEPT !.outside = None]
  /\ UNCHANGED <<store, foreign, outsiders>>

\* save_as: into a store that holds no model.
SaveAs(p) ==
  /\ Command
  /\ p # win.db /\ win.saving = None
  /\ store[p].model = Empty
  /\ store' = [store EXCEPT ![p] = [model |-> Shown(win), hw |-> @.hw + 1]]
  /\ win' = Forgiven([ModelMut(win) EXCEPT !.db = p, !.token = store[p].hw + 1, !.loadedAt = store[p].hw + 1,
                                           !.unsaved = NoChanges, !.dirty = FALSE])
  /\ UNCHANGED <<foreign, faults, outsiders>>

\* switch_model: refused while there are changes no save wrote.
SwitchModel(p) ==
  /\ Command
  /\ win.saving = None
  /\ win.db # None => win.unsaved = NoChanges
  /\ win' = Opened(p)
  /\ UNCHANGED <<store, foreign, faults, outsiders>>

-----------------------------------------------------------------------------
OneEdit == {<<[at |-> c, value |-> v]>> : c \in Cell, v \in Value \cup {None}}
Paste == {[i \in 1 .. Cardinality(Cell) |-> [at |-> order[i], value |-> v]] :
            order \in SetToSeqs(Cell), v \in Value \cup {None}}

Threads == Loads \/ Copies \/ Builds \/ Saves
Frame == PollLoad \/ PollHeld \/ PollBuild \/ PollSaves \/ Probe

Next ==
  \/ Threads \/ Frame
  \/ \E p \in Path, c \in Cell, v \in Value \cup {None} : OutsideSave(p, c, v)
  \/ \E edits \in OneEdit \cup Paste : EditCells(edits)
  \/ \E edits \in OneEdit \cup Paste, engineLives \in BOOLEAN : EditRefused(edits, engineLives)
  \/ \E f \in Formula : SetFormula(f)
  \/ \E v \in Value : Import(v)
  \/ DeleteMeasure \/ Undo \/ Redo \/ Recalculate \/ SaveModel \/ RevertToSaved
  \/ \E p \in Path : SaveAs(p)
  \/ \E p \in Path : SwitchModel(p)

Spec == Init /\ [][Next]_vars

-----------------------------------------------------------------------------
(* Properties. *)

TypeOK ==
  /\ store \in [Path -> [model : Models, hw : Nat]] /\ foreign \in [Path -> Nat]
  /\ win \in Window
  /\ commands \in Nat /\ faults \in Nat /\ outsiders \in Nat

\* "cell edits wait for the new engine": with no build in flight, what the grid shows
\* is computed from the cells and formulas it shows, held edits and edits during
\* builds, refused edits, undo and reloads included; or there is no engine.
SnapshotCurrent ==
  win.building = None =>
    /\ win.snapshot = win.engine
    /\ win.engine # None => win.engine = Shown(win)

\* Of the model the window last loaded or saved, what the window shows differently.
Unwritten(w, m) ==
  [cells |-> {c \in Cell : Shown(w).cells[c] # m.cells[c]}, structure |-> Shown(w).form # m.form]

\* "it clears only when the store has every edit": while the store is as the window
\* last loaded or saved it, every cell it holds differently from the window is in the
\* running save or kept for the next, and the window says that it is dirty.
NothingForgotten ==
  (win.db # None /\ win.loading = None) =>
    LET s == win.saving
        noted == IF s = None \/ s.done = "ok" THEN win.unsaved ELSE Add(win.unsaved, s.changes)
        token == IF s = None THEN win.token ELSE s.token
        m == store[win.db]
        d == Unwritten(win, m.model) IN
    (token \in {None, m.hw}) =>
      /\ d.cells \subseteq noted.cells
      /\ d.structure => noted.structure
      /\ d # NoChanges => win.dirty

\* "so a save refuses to clobber another process's writes": a save of the window never
\* follows another program's that the window has not loaded.
NoClobber ==
  [][\A p \in Path : (store'[p] # store[p] /\ foreign'[p] = foreign[p] /\ win.db = p) =>
        foreign[p] <= win.loadedAt]_vars

\* What a step makes of a model.
Back(m, s) ==
  CASE s.kind = "cells" -> [m EXCEPT !.cells = Put(@, s.edits)]
    [] s.kind = "form" -> [m EXCEPT !.form = s.form]
    [] s.kind = "model" -> s.model

\* What the steps of an undo stack restore, the last first.
Restored(shown, steps) ==
  LET n == Len(steps)
      f[i \in 0 .. n] == IF i = 0 THEN shown ELSE Back(f[i - 1], steps[n - i + 1]) IN
  [i \in 1 .. n |-> f[n - i + 1]]

\* Each undo step, in its turn, brings back what the window showed before the change
\* it was recorded for, and each redo step what it showed before its undo.
UndoExact ==
  /\ Restored(Shown(win), win.undo) = win.past
  /\ Restored(Shown(win), win.redo) = win.future

\* "changes made meanwhile go in the next": a change is left unsaved with no save
\* running only when a save failed or another program saved the model.
NeverStranded ==
  (win.db # None /\ win.loading = None /\ win.saving = None /\ win.unsaved # NoChanges) =>
    win.failed \/ win.token # store[win.db].hw

\* "What the old engine computed for a measure the model no longer computes would show
\* under a new measure that reuses its id": it never does.
ShownIsOwn ==
  (win.snapshot # None /\ win.model.form # None) =>
    MeasureOf[win.snapshot.form] = MeasureOf[win.model.form]
=============================================================================
