--------------------------- MODULE EngineSession ---------------------------
(***************************************************************************)
(* The live engine (engine/src/session.rs): Engine, its worker thread and  *)
(* a caller that keeps a view of the derived measures.                     *)
(*                                                                         *)
(* Differential dataflow and timely are external: a component of the graph *)
(* that is advanced shows its measures' plans evaluated over the contents  *)
(* of its input sessions, and one that is not keeps what it showed.  What  *)
(* a plan computes is the constant Plan.  A worker round is a sequence of  *)
(* steps (Round, Solve or Skip, Iterate, Publish, Answer), so that a       *)
(* FIXPOINT's iterations are steps of the behaviour.                       *)
(***************************************************************************)
EXTENDS Integers, Sequences, FiniteSets, FiniteSetsExt

CONSTANTS
  Input,        \* input measures of the model
  Order,        \* the compiled plans' measures, in build order
  Reads,        \* Reads[m]: the measures the plan of m reads (plan_reads)
  Plan(_, _),   \* Plan(m, env): the cells of m, from those of the measures it reads
  Fixes,        \* the FIXPOINTs (split_fixpoints), in build order
  Coord, Num,   \* coordinates; numbers a cell may hold
  None,         \* no cell, no log, not solved yet
  Batch,        \* batches of edits a caller may send
  Seed,         \* input cells the model may start with
  MaxRounds     \* bound: commands sent

Cells == [Coord -> Num \cup {None}]
Empty == [k \in Coord |-> None]

Fix == 1 .. Len(Fixes)
Session == Input \cup UNION {{Fixes[f].r, Fixes[f].id} : f \in Fix}
Internal == UNION {{Fixes[f].id, Fixes[f].r, Fixes[f].init, Fixes[f].body} : f \in Fix}
Hidden == UNION {{Fixes[f].init, Fixes[f].body} : f \in Fix}
FixIds == {Fixes[f].id : f \in Fix}

\* A body the host evaluates is no dataflow of its own.
Planned == {Order[i] : i \in 1 .. Len(Order)}
Flow == {m \in Planned : ~\E f \in Fix : Fixes[f].body = m /\ Fixes[f].host}
Shown == Flow \cup FixIds
Measure == Session \cup Flow

\* A body that reads a measure with no collection takes the dataflow path.
Host(f) == Fixes[f].host /\ Fixes[f].reads \subseteq Session \cup Flow

\* What split_fixpoints leaves: every FIXPOINT has a measure and a session of its own, and
\* plans for its first iterate and its step; plans compute cells.
ASSUME StructureAssumption ==
  /\ Len(Order) \in Nat /\ Len(Fixes) \in Nat /\ MaxRounds \in Nat
  /\ Planned \cap Session = {}
  /\ \A f \in Fix :
       /\ Fixes[f].id \notin Input /\ Fixes[f].r \notin Input
       /\ Fixes[f].init \in Flow /\ Fixes[f].body \in Planned
       /\ Fixes[f].maxIter \in Nat
       /\ \A h \in Fix :
            /\ Fixes[f].id # Fixes[h].r
            /\ f # h => Fixes[f].id # Fixes[h].id /\ Fixes[f].r # Fixes[h].r
  /\ \A m \in Planned : \A env \in [Reads[m] -> Cells] : Plan(m, env) \in Cells
  /\ Seed \subseteq [Input -> Cells]
  /\ \A edits \in Batch : Len(edits) \in Nat /\ \A i \in 1 .. Len(edits) :
       edits[i].coord \in Coord /\ edits[i].value \in Num \cup {None}

\* derived_build_order, and split_fixpoints in place: a measure comes once, after the plans
\* it reads; what reads a FIXPOINT comes after its parts, the first iterate's and then the
\* step's; a FIXPOINT's iterate is read by its step alone.
Earlier(i) == {Order[j] : j \in 1 .. i - 1}
ASSUME BuildOrderAssumption ==
  \A i \in 1 .. Len(Order) :
    /\ Order[i] \notin Earlier(i) /\ Reads[Order[i]] \cap Planned \subseteq Earlier(i)
    /\ \A f \in Fix :
         /\ Fixes[f].id \in Reads[Order[i]] => Fixes[f].body \in Earlier(i)
         /\ Fixes[f].r \in Reads[Order[i]] => Order[i] = Fixes[f].body
         /\ Order[i] = Fixes[f].body =>
              /\ Reads[Order[i]] \subseteq Fixes[f].reads \cup {Fixes[f].r}
              /\ Fixes[f].init \in Earlier(i)
              /\ \A h \in 1 .. f - 1 : Fixes[h].body \in Earlier(i)

\* No cells and no log are None.
ASSUME NoneAssumption ==
  None \notin Cells /\ \A S \in SUBSET (Shown \X Coord) : None \notin [S -> Num \cup {None}]

VARIABLES
  cmds,      \* the command channel
  pc,        \* where the worker is
  cmd,       \* the command it serves
  sess,      \* the cells fed to each session
  flowed,    \* of these, what the dataflow has been advanced over
  snapshot,  \* the running snapshot
  dirty,     \* the measures changed since the round began
  log,       \* each changed cell's value before the round, when it is recorded
  fix,       \* the FIXPOINT being solved
  x, left,   \* its iterate, and the iterations it has left
  attempt,   \* "warm" or "cold"
  first,     \* the first iterate each FIXPOINT was last solved from
  result,    \* its published result
  conv,      \* whether that converged
  replies,   \* the reply each outstanding Pending will give, or Waiting
  view,      \* the caller's view
  viewOk,    \* FALSE from a dropped Pending to the next snapshot
  sent       \* commands sent so far

worker == <<pc, cmd, sess, flowed, snapshot, dirty, log, fix, x, left, attempt, first, result, conv>>
solver == <<x, left, attempt>>
caller == <<cmds, view, viewOk, sent>>
vars == <<worker, cmds, replies, view, viewOk, sent>>

Waiting == [kind |-> "waiting"]
Dropped == [kind |-> "dropped"]
NoCmd == [kind |-> "none"]

-----------------------------------------------------------------------------
(* Components: the measures connected by reads, as a partition. *)

PlanReads == UNION {{{m, r} : r \in Reads[m]} : m \in Flow}
FixParts == UNION {{{Fixes[f].id, m} : m \in {Fixes[f].r, Fixes[f].init, Fixes[f].body} \cup Fixes[f].reads}
                     : f \in Fix}
LinksUnread == FixParts
Links == PlanReads \cup FixParts

\* The least set of measures that holds m and, of each link, both ends or neither.
Joined(S) == \A l \in Links : l \cap S = {} \/ l \subseteq S
Component(m) ==
  LET all == Measure \cup UNION Links
  IN {n \in all : \A S \in SUBSET all : m \in S /\ Joined(S) => n \in S}

Components == {Component(m) : m \in Measure}

\* The measures of the components that hold a session of fed.
Advanced(fed) == UNION {B \in Components : B \cap fed # {}}

\* What a plan is given: a measure with no collection is empty.
Sees(m, v) == [r \in Reads[m] |-> IF r \in DOMAIN v THEN v[r] ELSE Empty]

\* The plans, evaluated in build order over session contents s.
Evaluate(s) ==
  LET upTo[i \in 0 .. Len(Order)] ==
        [m \in Measure |->
           IF i = 0 THEN IF m \in Session THEN s[m] ELSE Empty
           ELSE IF m = Order[i] /\ m \in Flow THEN Plan(m, Sees(m, upTo[i - 1]))
           ELSE upTo[i - 1][m]]
  IN upTo[Len(Order)]

\* note: what changed from s to t in the measures ms, at its value in s.
Differ(s, t, ms) == {c \in ms \X Coord : s[c[1]][c[2]] # t[c[1]][c[2]]}

\* Mutant: the last value is kept, not the first.
NoteLast(b, s, t, ms) ==
  IF b = None THEN b
  ELSE [c \in DOMAIN b \cup Differ(s, t, ms) |-> IF c \in Differ(s, t, ms) THEN s[c[1]][c[2]] ELSE b[c]]
Note(b, s, t, ms) ==
  IF b = None THEN b
  ELSE [c \in DOMAIN b \cup Differ(s, t, ms) |-> IF c \in DOMAIN b THEN b[c] ELSE s[c[1]][c[2]]]

Moved(s, t, ms) == {m \in ms : s[m] # t[m]}

\* run_to and settle: advance the components of the sessions fed, to the contents s,
\* and apply the deltas their outputs send, consolidated.
RunTo(s, fed, d, b, shown) ==
  LET adv == Advanced(fed)
      to == [m \in Session |-> IF m \in adv THEN s[m] ELSE flowed[m]]
      out == Evaluate(to)
      next == [m \in Shown |-> IF m \in Flow \cap adv THEN out[m] ELSE shown[m]]
      moved == Flow \cap adv
  IN /\ sess' = s
     /\ flowed' = to
     /\ snapshot' = next
     /\ dirty' = d \cup Moved(shown, next, moved)
     /\ log' = Note(b, shown, next, moved)

-----------------------------------------------------------------------------
(* The worker. *)

\* The seed at time 0, the whole dataflow advanced over it; every FIXPOINT is solved cold.
Init ==
  /\ cmds = <<>> /\ replies = <<>> /\ sent = 0
  /\ \E in \in Seed : sess = [m \in Session |-> IF m \in Input THEN in[m] ELSE Empty]
  /\ flowed = sess
  /\ LET seeded == Evaluate(sess)
     IN snapshot = [m \in Shown |-> IF m \in Flow THEN seeded[m] ELSE Empty]
  /\ dirty = {m \in Flow : snapshot[m] # Empty}
  /\ log = None
  /\ pc = "solve" /\ fix = 1 /\ cmd = NoCmd
  /\ x = Empty /\ left = 0 /\ attempt = "cold"
  /\ first = [f \in Fix |-> None]
  /\ result = [f \in Fix |-> Empty]
  /\ conv = [f \in Fix |-> FALSE]
  /\ view = [m \in Shown \ Hidden |-> Empty] /\ viewOk = FALSE

Visible(s) == [m \in Shown \ Hidden |-> s[m]]

\* The edits of a batch that set a cell; a FIXPOINT's parts are not edited.
Setting(edits, m, k) ==
  {i \in 1 .. Len(edits) : m \notin Internal /\ edits[i].measure = m /\ edits[i].coord = k}

\* The session contents after them, in order.
FedBy(edits) ==
  [m \in Session |-> [k \in Coord |->
     IF Setting(edits, m, k) = {} THEN sess[m][k] ELSE edits[Max(Setting(edits, m, k))].value]]

Touched(edits) == {edits[i].measure : i \in 1 .. Len(edits)} \cap (Session \ Internal)

\* A round begins: the edits are fed and the components they reach advanced.
Round ==
  /\ pc = "idle" /\ cmds # <<>> /\ Head(cmds).kind = "edit"
  /\ cmd' = Head(cmds) /\ cmds' = Tail(cmds)
  /\ LET fed == Touched(cmd'.edits)
     IN RunTo(FedBy(cmd'.edits), fed, fed,
              IF cmd'.reply = "changes" THEN <<>> ELSE None, snapshot)
  /\ pc' = "solve" /\ fix' = 1
  /\ UNCHANGED <<solver, first, result, conv, replies, view, viewOk, sent>>

Warm == cmd.kind = "edit"
InitOf(f) == snapshot[Fixes[f].init]
BodyOf(f) == IF Fixes[f].body \in Flow THEN snapshot[Fixes[f].body] ELSE Empty

\* Nothing the step reads has changed since the last solve.
SameBlind(f) == TRUE
Same(f) == IF Host(f) THEN Fixes[f].reads \cap dirty = {} ELSE BodyOf(f) = result[f]

Skippable(f) == Warm /\ first[f] = InitOf(f) /\ Same(f)

Skip ==
  /\ pc = "solve" /\ fix \in Fix /\ Skippable(fix)
  /\ fix' = fix + 1
  /\ UNCHANGED <<pc, cmd, sess, flowed, snapshot, dirty, log, solver, first, result, conv,
                 caller, replies>>

\* Where a warm start begins: the last result, on the cells the first iterate has.
WarmStart(f) == [k \in Coord |-> IF InitOf(f)[k] # None /\ result[f][k] # None
                                 THEN result[f][k] ELSE InitOf(f)[k]]

Solve ==
  /\ pc = "solve" /\ fix \in Fix /\ ~Skippable(fix)
  /\ attempt' = IF Warm /\ conv[fix] THEN "warm" ELSE "cold"
  /\ x' = IF attempt' = "warm" THEN WarmStart(fix) ELSE InitOf(fix)
  /\ left' = Fixes[fix].maxIter
  /\ pc' = "iterate"
  /\ UNCHANGED <<cmd, sess, flowed, snapshot, dirty, log, fix, first, result, conv, caller, replies>>

Abs(n) == IF n < 0 THEN -n ELSE n

\* distance: a cell only one side has is an infinite change.
Close(a, b, tolerance) ==
  /\ \A k \in Coord : a[k] = None <=> b[k] = None
  /\ MapThenSumSet(LAMBDA k : IF a[k] = None THEN 0 ELSE Abs(a[k] - b[k]), Coord) <= tolerance

\* The host's step: the body's plan over the inputs and the snapshot, at the iterate.
HostStep(f, it) ==
  Plan(Fixes[f].body, [m \in Reads[Fixes[f].body] |->
                         CASE m = Fixes[f].r -> it
                           [] m # Fixes[f].r /\ m \in Input -> sess[m]
                           [] m # Fixes[f].r /\ m \in Shown \ Input -> snapshot[m]
                           [] OTHER -> Empty])

Remaining == left > 0

\* A step of the solve: in memory, or a dataflow round over the iterate's session.
Iterate ==
  /\ pc = "iterate" /\ Remaining
  /\ IF Host(fix)
     THEN /\ x' = HostStep(fix, x)
          /\ UNCHANGED <<sess, flowed, snapshot, dirty, log>>
     ELSE /\ RunTo([sess EXCEPT ![Fixes[fix].r] = x], {Fixes[fix].r}, dirty, log, snapshot)
          /\ x' = IF Fixes[fix].body \in Flow THEN snapshot'[Fixes[fix].body] ELSE Empty
  /\ IF Close(x, x', Fixes[fix].tolerance)
     THEN pc' = "publish" /\ UNCHANGED left
     ELSE pc' = "iterate" /\ left' = left - 1
  /\ UNCHANGED <<cmd, fix, attempt, first, result, conv, caller, replies>>

GiveUpAgain ==
  /\ pc = "iterate" /\ left = 0 /\ attempt = "warm"
  /\ x' = InitOf(fix) /\ left' = Fixes[fix].maxIter
  /\ UNCHANGED <<pc, attempt>>

\* Mutant: what a warm start left is published.
GiveUpWarm ==
  /\ pc = "iterate" /\ left = 0 /\ attempt = "warm"
  /\ pc' = "publish"
  /\ UNCHANGED <<x, left, attempt>>

\* A warm start that does not converge starts over from the first iterate.
GiveUp ==
  /\ pc = "iterate" /\ left = 0 /\ attempt = "warm"
  /\ attempt' = "cold" /\ x' = InitOf(fix) /\ left' = Fixes[fix].maxIter
  /\ UNCHANGED pc

CutOff == pc = "iterate" /\ left = 0 /\ attempt = "cold" /\ pc' = "publish" /\ UNCHANGED solver

OutOfRounds ==
  /\ GiveUp \/ CutOff
  /\ UNCHANGED <<cmd, sess, flowed, snapshot, dirty, log, fix, first, result, conv, caller, replies>>

NotePublishedNot(shown, id) == log
NotePublished(shown, id) == Note(log, snapshot, shown, {id})

\* The result on the measure's own session, which those that read it see as an input.
Publish ==
  /\ pc = "publish"
  /\ LET id == Fixes[fix].id
         shown == [snapshot EXCEPT ![id] = x]
     IN RunTo([sess EXCEPT ![id] = x], {id}, dirty \cup Moved(snapshot, shown, {id}),
              NotePublished(shown, id), shown)
  /\ result' = [result EXCEPT ![fix] = x]
  /\ conv' = [conv EXCEPT ![fix] = left > 0]
  /\ first' = [first EXCEPT ![fix] = InitOf(fix)]
  /\ fix' = fix + 1 /\ pc' = "solve"
  /\ UNCHANGED <<cmd, solver, caller, replies>>

ChangesAll(s, b) == {[cell |-> c, old |-> b[c], new |-> s[c[1]][c[2]]] : c \in {c \in DOMAIN b : c[1] \notin Hidden}}

\* The cells of the log whose value is another one now, but the engine's own.
Changes(s, b) == {ch \in {[cell |-> c, old |-> b[c], new |-> s[c[1]][c[2]]] :
                            c \in {c \in DOMAIN b : c[1] \notin Hidden}} : ch.old # ch.new}

Unanswered == {i \in 1 .. Len(replies) : replies[i] \in {Waiting, Dropped}}

\* The oldest reply still awaited is answered; a dropped Pending receives nothing.
Deliver(r) ==
  LET i == Min(Unanswered)
  IN replies' = IF replies[i] = Waiting THEN [replies EXCEPT ![i] = r]
                ELSE SubSeq(replies, 1, i - 1) \o SubSeq(replies, i + 1, Len(replies))

SnapshotReply == [kind |-> "snapshot", cells |-> Visible(snapshot)]

\* Every FIXPOINT is solved: the reply goes out, and the next command is waited for.
Answer ==
  /\ pc = "solve" /\ fix \notin Fix
  /\ pc' = "idle" /\ cmd' = NoCmd
  /\ CASE cmd.kind = "none" -> UNCHANGED <<replies, log>>
       [] cmd.kind = "edit" /\ cmd.reply = "snapshot" -> Deliver(SnapshotReply) /\ UNCHANGED log
       [] cmd.kind = "edit" /\ cmd.reply = "changes" ->
            /\ Deliver([kind |-> "changes", cells |-> Changes(snapshot, log)])
            /\ log' = None
  /\ UNCHANGED <<sess, flowed, snapshot, dirty, fix, solver, first, result, conv, caller>>

\* Cmd::Snapshot, and Cmd::Shutdown, which ends the thread.
Serve ==
  /\ pc = "idle" /\ cmds # <<>> /\ Head(cmds).kind # "edit"
  /\ cmds' = Tail(cmds)
  /\ IF Head(cmds).kind = "snapshot" THEN Deliver(SnapshotReply) /\ UNCHANGED pc
     ELSE pc' = "gone" /\ UNCHANGED replies
  /\ UNCHANGED <<cmd, sess, flowed, snapshot, dirty, log, fix, solver, first, result, conv,
                 view, viewOk, sent>>

-----------------------------------------------------------------------------
(* The caller.  Engine::new returns once the worker is ready; a call that waits for its     *)
(* reply is made with no Pending outstanding, as every caller in the repository makes it.  *)

Ready == sent > 0 \/ pc = "idle"
NoPending == \A i \in 1 .. Len(replies) : replies[i] = Dropped
Closed == pc = "gone" \/ \E i \in 1 .. Len(cmds) : cmds[i].kind = "shutdown"

Send(c) ==
  /\ Ready /\ ~Closed /\ sent < MaxRounds
  /\ cmds' = Append(cmds, c)
  /\ replies' = Append(replies, Waiting)
  /\ sent' = sent + 1
  /\ UNCHANGED worker

\* submit, and apply_delta (submit and then wait).
Submit(edits) ==
  /\ viewOk
  /\ Send([kind |-> "edit", edits |-> edits, reply |-> "changes"])
  /\ UNCHANGED <<view, viewOk>>

\* apply, and Engine::new's empty round.
Apply(edits) ==
  /\ NoPending
  /\ sent = 0 => edits = <<>>
  /\ Send([kind |-> "edit", edits |-> edits, reply |-> "snapshot"])
  /\ viewOk' = FALSE /\ UNCHANGED view

\* snapshot.
AskSnapshot ==
  /\ NoPending /\ sent > 0
  /\ Send([kind |-> "snapshot"])
  /\ viewOk' = FALSE /\ UNCHANGED view

\* A view with each changed cell set to its new value.
Applied(v, cells) ==
  [m \in Shown \ Hidden |-> [k \in Coord |->
     IF \E ch \in cells : ch.cell = <<m, k>> THEN (CHOOSE ch \in cells : ch.cell = <<m, k>>).new
     ELSE v[m][k]]]

\* try_reply or reply: the view is set from a snapshot, or each changed cell's new in it.
Take ==
  /\ replies # <<>> /\ Head(replies).kind \in {"changes", "snapshot"}
  /\ LET r == Head(replies) IN
     IF r.kind = "snapshot" THEN view' = r.cells /\ viewOk' = TRUE
     ELSE view' = Applied(view, r.cells) /\ UNCHANGED viewOk
  /\ replies' = Tail(replies)
  /\ UNCHANGED <<worker, cmds, sent>>

\* A Pending is dropped: the round runs all the same, and the caller must rebuild its view.
DropPending ==
  /\ viewOk /\ replies # <<>>
  /\ viewOk' = FALSE
  /\ replies' = [i \in 1 .. Cardinality(Unanswered) |-> Dropped]
  /\ UNCHANGED <<worker, cmds, view, sent>>

\* Drop for Engine: shutdown behind whatever is queued, then join.
DropEngine ==
  /\ Ready /\ ~Closed
  /\ NoPending \/ viewOk
  /\ cmds' = Append(cmds, [kind |-> "shutdown"])
  /\ UNCHANGED <<worker, replies, view, viewOk, sent>>

WorkerStep == Round \/ Skip \/ Solve \/ Iterate \/ OutOfRounds \/ Publish \/ Answer \/ Serve

Done == pc = "gone" /\ replies = <<>> /\ UNCHANGED vars

Next ==
  \/ Round \/ Skip \/ Solve \/ Iterate \/ OutOfRounds \/ Publish \/ Answer \/ Serve
  \/ \E edits \in Batch : Submit(edits) \/ Apply(edits)
  \/ AskSnapshot \/ Take \/ DropPending \/ DropEngine \/ Done

Spec == Init /\ [][Next]_vars

\* The worker's thread runs while it has something to do.
FairSpec == Spec /\ WF_vars(WorkerStep)

-----------------------------------------------------------------------------
(* Properties. *)

Views == [Shown \ Hidden -> Cells]
Logs == UNION {[S -> Num \cup {None}] : S \in SUBSET (Shown \X Coord)}
Command == [kind : {"edit"}, edits : Batch, reply : {"changes", "snapshot"}]
           \cup [kind : {"snapshot", "shutdown"}]
Change == [cell : (Shown \ Hidden) \X Coord, old : Num \cup {None}, new : Num \cup {None}]
Reply == {Waiting, Dropped} \cup [kind : {"snapshot"}, cells : Views]
         \cup [kind : {"changes"}, cells : SUBSET Change]

TypeOK ==
  /\ pc \in {"solve", "iterate", "publish", "idle", "gone"}
  /\ cmds \in Seq(Command) /\ replies \in Seq(Reply)
  /\ cmd = NoCmd \/ (cmd \in Command /\ cmd.kind = "edit")
  /\ sess \in [Session -> Cells] /\ flowed \in [Session -> Cells]
  /\ snapshot \in [Shown -> Cells] /\ view \in Views /\ viewOk \in BOOLEAN
  /\ dirty \subseteq Measure /\ log \in Logs \cup {None}
  /\ fix \in 1 .. Len(Fixes) + 1 /\ left \in Nat /\ x \in Cells /\ attempt \in {"warm", "cold"}
  /\ (pc \in {"iterate", "publish"} => fix \in Fix)
  /\ first \in [Fix -> Cells \cup {None}] /\ result \in [Fix -> Cells] /\ conv \in [Fix -> BOOLEAN]
  /\ sent \in 0 .. MaxRounds

\* Between rounds the running snapshot, kept by deltas of the components each round fed, is
\* what evaluating every plan anew over all the cells fed gives (the claim of the module's
\* header: edits become deltas, without a rebuild), and a FIXPOINT reads as its result.
SnapshotCurrent ==
  pc \in {"idle", "gone"} =>
    /\ LET now == Evaluate(sess) IN \A m \in Flow : snapshot[m] = now[m]
    /\ \A f \in Fix : snapshot[Fixes[f].id] = result[f] /\ sess[Fixes[f].id] = result[f]

\* Between rounds a FIXPOINT that converged is a step, of its body as it is now, from an
\* iterate within the tolerance: skipping or warm starting a solve never leaves a result
\* that belongs to what its body used to read.
ConvergedIsCurrent ==
  pc \in {"idle", "gone"} =>
    \A f \in Fix : conv[f] =>
      \E it \in Cells : HostStep(f, it) = result[f] /\ Close(it, result[f], Fixes[f].tolerance)

\* What maxIter steps from the first iterate give, as things are now.
Cold(f) ==
  LET it[n \in 0 .. Fixes[f].maxIter] == IF n = 0 THEN InitOf(f) ELSE HostStep(f, it[n - 1])
  IN it[Fixes[f].maxIter]

\* "a result cut off at max_iter is always a full recompute's" (solve_fixpoints), for every
\* FIXPOINT.
CutOffIsCold == pc \in {"idle", "gone"} => \A f \in Fix : ~conv[f] => result[f] = Cold(f)

\* The same of the FIXPOINTs whose body the host evaluates.
HostCutOffIsCold ==
  pc \in {"idle", "gone"} => \A f \in Fix : ~conv[f] /\ Host(f) => result[f] = Cold(f)

\* A caller that keeps its own view by setting each changed cell's new value has the engine's
\* snapshot whenever it has taken every reply (the contract of Changes).
ViewFollows ==
  viewOk /\ replies = <<>> /\ pc \in {"idle", "gone"} => view = Visible(snapshot)

\* The reply a caller takes next names exactly cells that change, each with the value the
\* caller's view has for it.
ChangesAreExact ==
  viewOk /\ replies # <<>> /\ Head(replies).kind = "changes" =>
    \A ch \in Head(replies).cells :
      ch.old # ch.new /\ ch.old = view[ch.cell[1]][ch.cell[2]]

\* Every call is answered: no solve runs for ever, and a shutdown waits behind the rounds
\* submitted before it.
AllAnswered ==
  (\E i \in 1 .. Len(replies) : replies[i] = Waiting)
    ~> (\A i \in 1 .. Len(replies) : replies[i] # Waiting)
=============================================================================
