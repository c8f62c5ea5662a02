----------------------------- MODULE Authority -----------------------------
(***************************************************************************)
(* The authority over one model (service/src/authority.rs): cell edits     *)
(* with retries, structural changes, undo and redo per session, and the    *)
(* log of changes that clients follow with changes_since.                  *)
(*                                                                         *)
(* A server calls it one request at a time, but other programs write the   *)
(* store between any two of its reads and saves: a request is served in    *)
(* steps, each up to the next access to the store.                         *)
(*                                                                         *)
(* Data abstraction.  A measure has one cell; the structure is the set of  *)
(* measures.  A batch of edits is a sequence of pairs, so that a cell may  *)
(* come twice.  What a request's plan or check reads beyond that (names,   *)
(* formulas, policies) may refuse it at any point the code can.            *)
(***************************************************************************)
EXTENDS Integers, SequencesExt, FiniteSets

CONSTANTS
  Measure,     \* measures, each with one cell
  Value,       \* what a cell may hold
  Batches,     \* the batches of edits sent: sequences of <<measure, value>>
  Session,     \* undo is per session
  Visible,     \* the measures the following client may see
  UndoDepth,   \* UNDO_DEPTH
  LogDepth,    \* LOG_DEPTH
  MaxTries,    \* retries of an edit (3 in the code)
  MaxTx,       \* bound: versions of the store
  MayFail      \* may the store fail?

None == 0
ASSUME ValueAssumption == None \notin Value
ASSUME BatchesAssumption == \A b \in Batches : b # <<>> /\ b \in Seq(Measure \X (Value \cup {None}))
ASSUME VisibleAssumption == Visible \subseteq Measure
ASSUME DepthAssumption == /\ {UndoDepth, LogDepth} \subseteq Nat \ {0}
                          /\ {MaxTries, MaxTx} \subseteq Nat
                          /\ MayFail \in BOOLEAN

VARIABLES
  store,    \* the store: its high-water and its content
  model,    \* Authority.model
  tx,       \* Authority.tx, the version of the model
  log,      \* Authority.log
  undo,     \* each session's undo stack
  redo,     \* and its redo stack
  req,      \* the request being served
  reply,    \* how the last one was answered
  client    \* a client that follows the changes

vars == <<store, model, tx, log, undo, redo, req, reply, client>>

-----------------------------------------------------------------------------
NoCells == [m \in Measure |-> None]
NoRequest == [kind |-> "none"]

\* Requests of session s, as they come in; an edit counts its tries.
Requests(s) ==
  {[kind |-> "edit", session |-> s, batch |-> b, tries |-> 0] : b \in Batches}
    \cup {[kind |-> k, session |-> s, measure |-> m] : k \in {"define", "delete"}, m \in Measure}
    \cup {[kind |-> k, session |-> s] : k \in {"undo", "redo"}}

Init ==
  /\ store = [tx |-> 1, shape |-> {}, cells |-> NoCells]
  /\ model = [shape |-> {}, cells |-> NoCells]
  /\ tx = 1
  /\ log = <<[version |-> 1, whole |-> FALSE, cells |-> <<>>]>>
  /\ undo = [s \in Session |-> <<>>]
  /\ redo = [s \in Session |-> <<>>]
  /\ req = NoRequest
  /\ reply = "none"
  /\ client = [seen |-> 1, stale |-> FALSE, shape |-> {}, cells |-> NoCells]

\* The measures a batch names.
Named(batch) == {batch[i][1] : i \in DOMAIN batch}

\* set_cells: each edit in turn, so that the last one to a cell stays; and what
\* each replaced.
EditsOf(batch, m) == {i \in DOMAIN batch : batch[i][1] = m}
After(cells, batch) ==
  [m \in Measure |-> IF EditsOf(batch, m) = {} THEN cells[m]
                     ELSE batch[Max(EditsOf(batch, m))][2]]
Before(cells, batch) ==
  [i \in DOMAIN batch |-> <<batch[i][1], After(cells, SubSeq(batch, 1, i - 1))[batch[i][1]]>>]

\* push_log, the oldest entries dropped.
Logged(l, entry) ==
  IF Len(l) < LogDepth THEN Append(l, entry) ELSE Append(Tail(l), entry)
Whole(v) == [version |-> v, whole |-> TRUE, cells |-> <<>>]

\* refresh: nothing when the store did not move, else a reload, logged as one.
Refresh ==
  IF store.tx = tx
  THEN UNCHANGED <<model, tx, log>>
  ELSE /\ model' = [shape |-> store.shape, cells |-> store.cells]
       /\ tx' = store.tx
       /\ log' = Logged(log, Whole(store.tx))

Answer(a) == req' = NoRequest /\ reply' = a

ConflictsNever == FALSE

\* save: another writer moved the store since this model was read.
Conflicts == store.tx # tx

\* record: a new step on the session's undo stack, at most UNDO_DEPTH of them.
Record(s, step) ==
  /\ undo' = [undo EXCEPT ![s] = IF Len(@) < UndoDepth THEN Append(@, step)
                                 ELSE Append(Tail(@), step)]
  /\ redo' = [redo EXCEPT ![s] = <<>>]

-----------------------------------------------------------------------------
(* apply_cells. *)

\* The cells are set, saved by name, and logged; or, when the engine cannot take
\* them, it is rebuilt and the clients reload.
ApplyCells(batch) ==
  LET cells == After(model.cells, batch)
  IN /\ ~Conflicts
     /\ model' = [model EXCEPT !.cells = cells]
     /\ store' = [store EXCEPT !.tx = @ + 1,
                               !.cells = [m \in Measure |-> IF m \in Named(batch) THEN cells[m]
                                                            ELSE @[m]]]
     /\ tx' = store.tx + 1
     /\ log' \in {Logged(log, [version |-> store.tx + 1, whole |-> FALSE, cells |-> batch]),
                  Logged(log, Whole(store.tx + 1))}

NotPutBack(batch) == After(model.cells, batch)

\* The save is refused: the cells that were set are set back.
PutBack(batch) == After(After(model.cells, batch), Before(model.cells, batch))

RefuseCells(batch, a) ==
  /\ \/ Conflicts /\ a = "conflict"
     \/ MayFail /\ a = "error"
  /\ model' = [model EXCEPT !.cells = PutBack(batch)]
  /\ UNCHANGED <<store, tx, log>>

\* What an undone or redone step needs to know, and (for the properties only)
\* the model before the change and after it.
CellStep(batch) ==
  [kind |-> "cells", before |-> Before(model.cells, batch), after |-> batch,
   was |-> model, left |-> [model EXCEPT !.cells = After(@, batch)]]

-----------------------------------------------------------------------------
(* adopt. *)

DropsForgotten(shape) == NoCells

\* The cells a structure has no room for.
Drops(shape) == [m \in Measure |-> IF m \in shape THEN None ELSE model.cells[m]]

\* The model with that structure: the cells it has room for, and those to
\* restore where none is set.
Adopted(shape, restore) ==
  [shape |-> shape,
   cells |-> [m \in Measure |-> IF m \notin shape THEN None
                                ELSE IF model.cells[m] # None THEN model.cells[m]
                                ELSE restore[m]]]

\* It is saved: the structure, and the cells that differ.
Adopt(shape, restore) ==
  LET new == Adopted(shape, restore)
  IN /\ ~Conflicts
     /\ model' = new
     /\ store' = [tx |-> store.tx + 1, shape |-> shape,
                  cells |-> [m \in Measure |-> IF m \notin shape THEN None
                                               ELSE IF new.cells[m] # model.cells[m]
                                               THEN new.cells[m] ELSE store.cells[m]]]
     /\ tx' = store.tx + 1
     /\ log' = Logged(log, Whole(store.tx + 1))

\* The step that takes this change back.
ShapeStep(shape, restore) ==
  [kind |-> "shape", shape |-> model.shape, cells |-> Drops(shape),
   was |-> model, left |-> Adopted(shape, restore)]

-----------------------------------------------------------------------------
(* Requests. *)

\* serve: a request comes in, and the model is refreshed first.
Serve(r) ==
  /\ req = NoRequest
  /\ store.tx < MaxTx
  /\ Refresh
  /\ req' = r
  /\ UNCHANGED <<store, undo, redo, reply, client>>

\* The policy or a check turns the request down before it changes anything.
Refuse ==
  /\ req.kind \in {"edit", "define", "delete"}
  /\ Answer("refused")
  /\ UNCHANGED <<store, model, tx, log, undo, redo, client>>

\* edit: every cell must be there.
Edit ==
  /\ req.kind = "edit"
  /\ Named(req.batch) \subseteq model.shape
  /\ \/ /\ ApplyCells(req.batch)
        /\ Record(req.session, CellStep(req.batch))
        /\ Answer("ok")
     \/ /\ RefuseCells(req.batch, "error")
        /\ Answer("error")
        /\ UNCHANGED <<undo, redo>>
     \/ /\ req.tries = MaxTries
        /\ RefuseCells(req.batch, "conflict")
        /\ Answer("conflict")
        /\ UNCHANGED <<undo, redo>>
  /\ UNCHANGED client

\* Another writer came first: reload, check again, retry.
Retry ==
  /\ req.kind = "edit"
  /\ Named(req.batch) \subseteq model.shape
  /\ Conflicts
  /\ req.tries < MaxTries
  /\ Refresh
  /\ req' = [req EXCEPT !.tries = @ + 1]
  /\ UNCHANGED <<store, undo, redo, reply, client>>

\* change_structure: the measure is added or deleted, and nothing is retried.
ChangeStructure ==
  LET shape == IF req.kind = "define" THEN model.shape \cup {req.measure}
               ELSE model.shape \ {req.measure}
  IN /\ req.kind \in {"define", "delete"}
     /\ shape # model.shape
     /\ \/ /\ Adopt(shape, NoCells)
           /\ Record(req.session, ShapeStep(shape, NoCells))
           /\ Answer("ok")
        \/ /\ \/ Conflicts /\ Answer("conflict")
              \/ MayFail /\ Answer("error")
           /\ UNCHANGED <<store, model, tx, log, undo, redo>>
     /\ UNCHANGED client

\* The stack of an undo or a redo, and the stack its inverse goes to.
From == IF req.kind = "undo" THEN undo[req.session] ELSE redo[req.session]
Push(step) ==
  IF req.kind = "undo"
  THEN /\ undo' = [undo EXCEPT ![req.session] = Front(@)]
       /\ redo' = [redo EXCEPT ![req.session] = Append(@, step)]
  ELSE /\ redo' = [redo EXCEPT ![req.session] = Front(@)]
       /\ undo' = [undo EXCEPT ![req.session] = Append(@, step)]
Pop ==
  IF req.kind = "undo"
  THEN undo' = [undo EXCEPT ![req.session] = Front(@)] /\ UNCHANGED redo
  ELSE redo' = [redo EXCEPT ![req.session] = Front(@)] /\ UNCHANGED undo

\* The edits that take a cell step back, or make it again.
Rewrites(step) == IF req.kind = "undo" THEN step.before ELSE step.after

\* A step is taken back: its inverse goes to the other stack.
UndoStep ==
  /\ req.kind \in {"undo", "redo"}
  /\ From # <<>>
  /\ LET step == Last(From)
     IN \/ /\ step.kind = "cells"
           /\ Named(step.after) \subseteq model.shape
           /\ ApplyCells(Rewrites(step))
           /\ Push(step)
        \/ /\ step.kind = "shape"
           /\ Adopt(step.shape, step.cells)
           /\ Push(ShapeStep(step.shape, step.cells))
  /\ Answer("ok")
  /\ UNCHANGED client

\* It is refused (a check, a conflict, a failure): it was popped before.
UndoRefused ==
  /\ req.kind \in {"undo", "redo"}
  /\ From # <<>>
  /\ LET step == Last(From)
     IN \/ /\ step.kind = "cells"
           /\ Named(step.after) \subseteq model.shape
           /\ \E a \in {"conflict", "error"} : RefuseCells(Rewrites(step), a) /\ Answer(a)
        \/ /\ \/ Answer("refused")
              \/ step.kind = "shape" /\ Conflicts /\ Answer("conflict")
              \/ step.kind = "shape" /\ MayFail /\ Answer("error")
           /\ UNCHANGED <<store, model, tx, log>>
  /\ Pop
  /\ UNCHANGED client

NothingToUndo ==
  /\ req.kind \in {"undo", "redo"}
  /\ From = <<>>
  /\ Answer("refused")
  /\ UNCHANGED <<store, model, tx, log, undo, redo, client>>

-----------------------------------------------------------------------------
(* The client, and other programs. *)

\* Where changes_since starts: just after the entry of version v.
StartLate(v) == 2 + CHOOSE i \in DOMAIN log : log[i].version = v /\ \A j \in 1 .. i - 1 : log[j].version # v
Start(v) == 1 + CHOOSE i \in DOMAIN log : log[i].version = v /\ \A j \in 1 .. i - 1 : log[j].version # v

\* changes_since: a reload when the log no longer has the version, or the structure
\* changed since; else a map of the visible cells, to which each entry adds its own.
Reloads(v) ==
  \/ \A i \in DOMAIN log : log[i].version # v
  \/ \E i \in Start(v) .. Len(log) : log[i].whole
Naming(v, m) == {i \in Start(v) .. Len(log) : m \in Named(log[i].cells)}
Sent(cells, v) ==
  [m \in Measure |-> IF m \notin Visible \/ Naming(v, m) = {} THEN cells[m]
                     ELSE After(cells, log[Max(Naming(v, m))].cells)[m]]

\* The stream looks, and the client applies what it is sent.
Look ==
  /\ req = NoRequest
  /\ client' = IF client.seen = tx THEN client
               ELSE IF Reloads(client.seen)
               THEN [client EXCEPT !.seen = tx, !.stale = TRUE]
               ELSE [client EXCEPT !.seen = tx, !.cells = Sent(@, client.seen)]
  /\ UNCHANGED <<store, model, tx, log, undo, redo, req, reply>>

\* Told to reload, it asks for the structure and its window.
Fetch ==
  /\ req = NoRequest
  /\ client.stale
  /\ Refresh
  /\ client' = [client EXCEPT !.stale = FALSE,
                  !.shape = model'.shape \cap Visible,
                  !.cells = [m \in Measure |-> IF m \in Visible THEN model'.cells[m] ELSE None]]
  /\ UNCHANGED <<store, undo, redo, req, reply>>

\* Another program saves one cell, or one more or one less measure.
OtherWrite(m) ==
  /\ store.tx < MaxTx
  /\ \/ /\ m \in store.shape
        /\ \E v \in Value \ {store.cells[m]} :
             store' = [store EXCEPT !.tx = @ + 1, !.cells[m] = v]
     \/ /\ m \in store.shape
        /\ store' = [tx |-> store.tx + 1, shape |-> store.shape \ {m},
                     cells |-> [store.cells EXCEPT ![m] = None]]
     \/ /\ m \notin store.shape
        /\ store' = [store EXCEPT !.tx = @ + 1, !.shape = @ \cup {m}]
  /\ UNCHANGED <<model, tx, log, undo, redo, req, reply, client>>

-----------------------------------------------------------------------------
Next ==
  \/ \E s \in Session : \E r \in Requests(s) : Serve(r)
  \/ Refuse
  \/ Edit
  \/ Retry
  \/ ChangeStructure
  \/ UndoStep
  \/ UndoRefused
  \/ NothingToUndo
  \/ Look
  \/ Fetch
  \/ \E m \in Measure : OtherWrite(m)

Spec == Init /\ [][Next]_vars

-----------------------------------------------------------------------------
(* Properties. *)

Contents == [shape : SUBSET Measure, cells : [Measure -> Value \cup {None}]]
Edits == Seq(Measure \X (Value \cup {None}))
Versions == 1 .. MaxTx + 1

Served == {NoRequest}
            \cup [kind : {"edit"}, session : Session, batch : Batches, tries : 0 .. MaxTries]
            \cup [kind : {"define", "delete"}, session : Session, measure : Measure]
            \cup [kind : {"undo", "redo"}, session : Session]
Steps == [kind : {"cells"}, before : Edits, after : Edits, was : Contents, left : Contents]
           \cup [kind : {"shape"}, shape : SUBSET Measure, cells : [Measure -> Value \cup {None}],
                 was : Contents, left : Contents]

\* The variables have their types; the log and the stacks stay within their depths,
\* and a request is served before the bound on the versions.
TypeOK ==
  /\ store \in [tx : Versions, shape : SUBSET Measure, cells : [Measure -> Value \cup {None}]]
  /\ model \in Contents
  /\ tx \in Versions
  /\ log \in Seq([version : Versions, whole : BOOLEAN, cells : Edits])
  /\ Len(log) \in 1 .. LogDepth
  /\ {undo, redo} \subseteq [Session -> Seq(Steps)]
  /\ \A s \in Session : Len(undo[s]) + Len(redo[s]) <= UndoDepth
  /\ req \in Served
  /\ req # NoRequest => store.tx <= MaxTx
  /\ reply \in {"none", "ok", "refused", "conflict", "error"}
  /\ client \in [seen : Versions, stale : BOOLEAN, shape : SUBSET Visible,
                 cells : [Measure -> Value \cup {None}]]

\* "Apply `req`'s edits together, or none" (edit): between requests, the model at
\* the store's version is what the store holds, whatever was refused before.
ModelIsStored ==
  req = NoRequest /\ tx = store.tx
    => model = [shape |-> store.shape, cells |-> store.cells]

\* changes_since sends "the visible changed cells, or a reload": a client that has
\* applied every event holds what it may see of the model, also after the log
\* forgot entries, writes were refused and steps were undone.
ClientFollows ==
  req = NoRequest /\ ~client.stale /\ client.seen = tx
    => /\ client.shape = model.shape \cap Visible
       /\ \A m \in Visible : client.cells[m] = model.cells[m]

\* Every write is a load-check-save (module docs): a save changes what its request
\* names, and takes nothing back that another program saved before it.
OnlyWhatIsAsked ==
  [][/\ req.kind = "edit" /\ store' # store /\ tx' = store'.tx =>
          /\ store'.shape = store.shape
          /\ \A m \in Measure \ Named(req.batch) : store'.cells[m] = store.cells[m]
     /\ req.kind \in {"define", "delete"} /\ store' # store /\ tx' = store'.tx =>
          /\ store'.shape = IF req.kind = "define" THEN store.shape \cup {req.measure}
                            ELSE store.shape \ {req.measure}
          /\ \A m \in Measure \ {req.measure} : store'.cells[m] = store.cells[m]
    ]_vars

\* "Undo (or redo) `session`'s last step. A structure step restores the structure
\* ...; a cell step writes the cells back as they were": where the model is as the
\* change left it, undo makes it what it was before, and redo makes the change again.
\* Only a cell that an undone deletion filled where a new measure had none stays.
UndoInverse ==
  [][req.kind \in {"undo", "redo"} /\ From # <<>> /\ req' = NoRequest /\ reply' = "ok" =>
       LET step == Last(From)
       IN /\ req.kind = "undo" /\ step.kind = "cells" /\ model = step.left => model' = step.was
          /\ req.kind = "redo" /\ step.kind = "cells" /\ model = step.was => model' = step.left
          /\ step.kind = "shape" /\ model = step.left =>
               /\ model'.shape = step.was.shape
               /\ \A m \in Measure : \/ model'.cells[m] = step.was.cells[m]
                                     \/ /\ step.was.cells[m] = None
                                        /\ model'.cells[m] = step.left.cells[m]]_vars

\* "another writer changed the model ...; reload and try again" (Refusal): an undo
\* refused with a conflict can be tried again, so its step is still there.
ConflictKeepsStep ==
  [][req.kind = "undo" /\ From # <<>> /\ req' = NoRequest /\ reply' = "conflict" => undo' = undo]_vars

\* "Cell edits never conflict (only structure does)" (edit).
CellsNeverConflict ==
  [][req # NoRequest /\ req' = NoRequest /\ reply' = "conflict" =>
       \/ req.kind \in {"define", "delete"}
       \/ req.kind \in {"undo", "redo"} /\ From # <<>> /\ Last(From).kind = "shape"]_vars
=============================================================================
