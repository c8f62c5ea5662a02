-------------------------- MODULE GuiWindowProofs ---------------------------
(***************************************************************************)
(* Proofs about GuiWindow for every set of stores, cells, values and       *)
(* formulas and every limit and bound.                                     *)
(***************************************************************************)
EXTENDS GuiWindow, TLAPS, FiniteSetTheorems

-----------------------------------------------------------------------------
(* The inductive invariant. *)

\* A window with a model of a store.
Holding(w) == w.db # None /\ w.loading = None

\* The token, wherever it is.
Token(w) == IF w.saving = None THEN w.token ELSE w.saving.token

\* A build of edits: what its engine will be of.
Promised(b) == [b.of EXCEPT !.cells = Put(@, b.edits)]

\* The engine is of what the window shows; so will be that of a build in flight,
\* unless another follows it.
BuildInv(w) ==
  /\ w.building = None => w.snapshot = w.engine /\ (w.engine = None \/ w.engine = Shown(w))
  /\ w.building # None => w.building.stale \/ Promised(w.building) = Shown(w)

\* What the window shows differently from m is among the changes ch and x.
Within(w, m, ch, x) ==
  /\ \A c \in Cell : Shown(w).cells[c] # m.cells[c] => c \in ch.cells \/ c \in x.cells
  /\ Shown(w).form # m.form => ch.structure \/ x.structure

\* What is not in the store while nobody else saved it is unsaved or in the running
\* save; but for x, which is being done.
SaveInv(w, st, x) ==
  Holding(w) =>
    /\ w.saving = None /\ w.token = st.hw => Within(w, st.model, w.unsaved, x)
    /\ w.saving # None =>
         /\ Within(w, w.saving.model, w.unsaved, x)
         /\ w.saving.token = st.hw =>
              Within(w, st.model, IF w.saving.done = "ok" THEN w.unsaved
                                  ELSE Add(w.unsaved, w.saving.changes), x)
    /\ w.saving # None \/ w.unsaved # NoChanges => w.dirty

\* There is a token until a save is lost with it; it never gets past what another
\* program saved without the window's loading it.
TokenInv(w, hw, f) ==
  /\ Holding(w) =>
       /\ Token(w) = None => w.saving = None /\ w.lost
       /\ Token(w) # None => Token(w) <= hw /\ (f > w.loadedAt => f > Token(w))
       /\ w.saving # None => w.token = None /\ ~w.lost /\ w.outside = None
  /\ ~Holding(w) => w.saving = None

\* What is unsaved is wanted by the running save, or a save failed, or the store is
\* no longer as it was.
StrandInv(w, hw) ==
  Holding(w) =>
    /\ w.lost => w.failed
    /\ w.outside # None => w.failed \/ w.token # hw
    /\ w.unsaved # NoChanges =>
         IF w.saving = None THEN w.failed \/ w.token # hw ELSE w.wanted

\* A window whose model loads is as it was opened.
LoadInv(w, st) ==
  w.loading # None =>
    /\ w.db # None /\ w.outside = None /\ ~w.lost
    /\ w.loading.done = "ok" =>
         /\ w.loading.got.hw <= st.hw
         /\ w.loading.got.hw = st.hw => w.loading.got.model = st.model

\* Only a failing save thread loses the token.
LostInv(w) == w.lost \/ (w.saving # None /\ w.saving.done = "lost") => "saver" \in Env

\* Each step of a stack brings back what was shown at its change, from what was shown
\* at the next one's.
Chain(shown, steps, past) ==
  /\ Len(steps) = Len(past) /\ Len(steps) <= UndoDepth
  /\ \A i \in DOMAIN steps :
       Back(IF i = Len(steps) THEN shown ELSE past[i + 1], steps[i]) = past[i]
HistoryInv(w) == Chain(Shown(w), w.undo, w.past) /\ Chain(Shown(w), w.redo, w.future)

ForeignInv == \A p \in Path : foreign[p] <= store[p].hw

\* The window, of the store st that f is of.
WinInv(w, st, f) ==
  /\ BuildInv(w) /\ LostInv(w) /\ SaveInv(w, st, NoChanges)
  /\ TokenInv(w, st.hw, f) /\ StrandInv(w, st.hw) /\ LoadInv(w, st)

Stored == [model : Models, hw : Nat]
StoreOf(w) == IF w.db = None THEN [model |-> Empty, hw |-> 0] ELSE store[w.db]
ForeignOf(w) == IF w.db = None THEN 0 ELSE foreign[w.db]

IInv ==
  /\ TypeOK /\ ForeignInv
  /\ WinInv(win, StoreOf(win), ForeignOf(win))
  /\ HistoryInv(win)

-----------------------------------------------------------------------------
(* Edits. *)

Cells == [Cell -> Value \cup {None}]
Put1(cells, e) == [cells EXCEPT ![e.at] = e.value]

\* The highest of a bounded set of positions.
LEMMA MaxOf ==
  ASSUME NEW n \in Nat, NEW S \in SUBSET (0 .. n), S # {}
  PROVE  Max(S) \in S /\ \A y \in S : y <= Max(S)
<1> DEFINE R == {ss \in Nat \X Nat : ss[1] < ss[2]}
           T == {k \in 0 .. n : n - k \in S}
<1>1. OpToRel(<, Nat) = R
  BY DEF OpToRel
<1>2. T \in SUBSET Nat /\ \A y \in S : y \in 0 .. n /\ n - y \in T
  OBVIOUS
<1>3. \A k \in T : k \in 0 .. n /\ n - k \in S
  OBVIOUS
<1>4. \A k, l \in Nat : k < l => <<k, l>> \in R
  OBVIOUS
<1> HIDE DEF R, T
<1>5. IsWellFoundedOn(R, Nat)
  BY <1>1, NatLessThanWellFounded, Zenon
<1>6. T # {}
  BY <1>2
<1>7. PICK x \in T : \A y \in T : ~(<<y, x>> \in R)
  BY <1>2, <1>5, <1>6, WFMin
<1>8. \A y \in S : y <= n - x
  <2> TAKE y \in S
  <2>1. y \in 0 .. n /\ n - y \in T /\ n - y \in Nat /\ x \in Nat
    BY <1>2, <1>3
  <2>2. ~(n - y < x)
    BY <1>4, <1>7, <2>1
  <2> QED
    BY <2>1, <2>2
<1>9. n - x \in S
  BY <1>3
<1> QED
  BY <1>2, <1>8, <1>9 DEF Max

\* The least of a set of numbers.
LEMMA Least ==
  ASSUME NEW S \in SUBSET Nat, S # {}
  PROVE  \E x \in S : \A y \in S : x <= y
<1> DEFINE R == {ss \in Nat \X Nat : ss[1] < ss[2]}
<1>1. OpToRel(<, Nat) = R
  BY DEF OpToRel
<1>2. \A k, l \in Nat : k < l => <<k, l>> \in R
  OBVIOUS
<1> HIDE DEF R
<1>3. IsWellFoundedOn(R, Nat)
  BY <1>1, NatLessThanWellFounded, Zenon
<1>4. PICK x \in S : \A y \in S : ~(<<y, x>> \in R)
  BY <1>3, WFMin
<1>5. \A y \in S : x <= y
  <2> TAKE y \in S
  <2>1. x \in Nat /\ y \in Nat
    OBVIOUS
  <2>2. ~(y < x)
    BY <1>2, <1>4, <2>1
  <2> QED
    BY <2>1, <2>2
<1> QED
  BY <1>5

\* A cell holds what its last edit, the one at k, says.
LEMMA PutLast ==
  ASSUME NEW cs \in Cells, NEW es \in Seq(Edit), NEW c \in Cell,
         NEW k \in DOMAIN es, es[k].at = c, \A i \in DOMAIN es : i > k => es[i].at # c
  PROVE  Put(cs, es)[c] = es[k].value
<1> DEFINE S == {i \in DOMAIN es : es[i].at = c}
<1>1. Len(es) \in Nat /\ DOMAIN es = 1 .. Len(es)
  OBVIOUS
<1>2. S \in SUBSET (0 .. Len(es)) /\ k \in S /\ \A i \in S : i <= k
  BY <1>1
<1>3. Put(cs, es)[c] = IF S = {} THEN cs[c] ELSE es[Max(S)].value
  BY DEF Put
<1> HIDE DEF S
<1>4. Max(S) \in S /\ k <= Max(S)
  BY <1>1, <1>2, MaxOf
<1>5. Max(S) = k
  BY <1>1, <1>2, <1>4
<1> QED
  BY <1>2, <1>3, <1>5

\* One that is not edited keeps what it held.
LEMMA PutNone ==
  ASSUME NEW cs \in Cells, NEW es \in Seq(Edit), NEW c \in Cell,
         \A i \in DOMAIN es : es[i].at # c
  PROVE  Put(cs, es)[c] = cs[c]
BY DEF Put

\* So there are two cases.
LEMMA PutCases ==
  ASSUME NEW es \in Seq(Edit), NEW c \in Cell
  PROVE  \/ \A i \in DOMAIN es : es[i].at # c
         \/ \E k \in DOMAIN es : es[k].at = c /\ \A i \in DOMAIN es : i > k => es[i].at # c
<1> DEFINE S == {i \in DOMAIN es : es[i].at = c}
<1>1. Len(es) \in Nat /\ DOMAIN es = 1 .. Len(es)
  OBVIOUS
<1>2. S \in SUBSET (0 .. Len(es)) /\ \A i \in S : i \in DOMAIN es /\ es[i].at = c
  BY <1>1
<1>3. \A i \in DOMAIN es : es[i].at = c => i \in S
  OBVIOUS
<1> HIDE DEF S
<1>4. S # {} => Max(S) \in S /\ \A i \in S : i <= Max(S)
  BY <1>1, <1>2, MaxOf
<1>5. CASE S # {}
  <2>1. PICK k \in S : \A i \in S : i <= k
    BY <1>4, <1>5
  <2> QED
    BY <1>1, <1>2, <1>3, <2>1
<1>6. CASE S = {}
  BY <1>3, <1>6
<1> QED
  BY <1>5, <1>6

LEMMA PutType ==
  ASSUME NEW cs \in Cells, NEW es \in Seq(Edit)
  PROVE  Put(cs, es) \in Cells
<1>1. ASSUME NEW c \in Cell PROVE Put(cs, es)[c] \in Value \cup {None}
  <2>1. CASE \A i \in DOMAIN es : es[i].at # c
    BY <2>1, PutNone DEF Cells
  <2>2. CASE \E k \in DOMAIN es : es[k].at = c /\ \A i \in DOMAIN es : i > k => es[i].at # c
    <3>1. PICK k \in DOMAIN es : es[k].at = c /\ \A i \in DOMAIN es : i > k => es[i].at # c
      BY <2>2
    <3>2. es[k].value \in Value \cup {None}
      <4>1. es[k] \in Edit
        OBVIOUS
      <4> QED
        BY <4>1 DEF Edit
    <3>3. Put(cs, es)[c] = es[k].value
      BY <3>1, PutLast
    <3> QED
      BY <3>2, <3>3
  <2> QED
    BY <2>1, <2>2, PutCases
<1> QED
  BY <1>1 DEF Put, Cells

LEMMA Put1Type ==
  ASSUME NEW cs \in Cells, NEW e \in Edit
  PROVE  /\ Put1(cs, e) \in Cells
         /\ \A c \in Cell : Put1(cs, e)[c] = IF c = e.at THEN e.value ELSE cs[c]
BY DEF Put1, Cells, Edit

\* Cells are known by what each of them holds.
LEMMA SameCells ==
  ASSUME NEW a \in Cells, NEW b \in Cells, \A c \in Cell : a[c] = b[c]
  PROVE  a = b
BY DEF Cells

LEMMA PutEmpty ==
  ASSUME NEW cs \in Cells
  PROVE  Put(cs, <<>>) = cs
<1>0. <<>> \in Seq(Edit)
  OBVIOUS
<1>1. PICK es \in Seq(Edit) : es = <<>>
  BY <1>0
<1>2. DOMAIN es = {}
  BY <1>1
<1>3. \A c \in Cell : Put(cs, es)[c] = cs[c]
  BY <1>2, PutNone
<1>4. Put(cs, es) \in Cells
  BY PutType
<1> QED
  BY <1>1, <1>3, <1>4, SameCells

LEMMA PutAppend ==
  ASSUME NEW cs \in Cells, NEW es \in Seq(Edit), NEW e \in Edit
  PROVE  Put(cs, Append(es, e)) = Put1(Put(cs, es), e)
<1>0. Append(es, e) \in Seq(Edit)
  OBVIOUS
<1>1. PICK fs \in Seq(Edit) : fs = Append(es, e)
  BY <1>0
<1>2. PICK n \in Nat : n = Len(es)
  OBVIOUS
<1>3. /\ DOMAIN es = 1 .. n /\ DOMAIN fs = 1 .. n + 1 /\ fs[n + 1] = e
      /\ \A i \in 1 .. n : fs[i] = es[i]
  BY <1>1, <1>2
<1>4. ASSUME NEW c \in Cell PROVE Put(cs, fs)[c] = IF c = e.at THEN e.value ELSE Put(cs, es)[c]
  <2>1. CASE c = e.at
    <3>1. n + 1 \in DOMAIN fs /\ fs[n + 1].at = c /\ \A i \in DOMAIN fs : i > n + 1 => fs[i].at # c
      BY <1>3, <2>1
    <3>2. Put(cs, fs)[c] = fs[n + 1].value
      BY <3>1, PutLast
    <3> QED
      BY <1>3, <2>1, <3>2
  <2>2. CASE c # e.at /\ \A i \in DOMAIN es : es[i].at # c
    <3>1. \A i \in DOMAIN fs : fs[i].at # c
      <4> TAKE i \in DOMAIN fs
      <4>1. i \in 1 .. n \/ i = n + 1
        BY <1>3
      <4> QED
        BY <1>3, <2>2, <4>1
    <3> QED
      BY <2>2, <3>1, PutNone
  <2>3. CASE c # e.at /\ \E k \in DOMAIN es : es[k].at = c /\ \A i \in DOMAIN es : i > k => es[i].at # c
    <3>1. PICK k \in DOMAIN es : es[k].at = c /\ \A i \in DOMAIN es : i > k => es[i].at # c
      BY <2>3
    <3>2. k \in DOMAIN fs /\ fs[k] = es[k] /\ \A i \in DOMAIN fs : i > k => fs[i].at # c
      <4>1. \A i \in DOMAIN fs : i \in 1 .. n \/ i = n + 1
        BY <1>3
      <4> QED
        BY <1>3, <2>3, <3>1, <4>1
    <3>3. Put(cs, fs)[c] = fs[k].value /\ Put(cs, es)[c] = es[k].value
      BY <3>1, <3>2, PutLast
    <3> QED
      BY <2>3, <3>2, <3>3
  <2> QED
    BY <2>1, <2>2, <2>3, PutCases
<1>5. PICK ds \in Cells : ds = Put(cs, es)
  BY PutType
<1>6. /\ Put1(ds, e) \in Cells
      /\ \A c \in Cell : Put1(ds, e)[c] = IF c = e.at THEN e.value ELSE ds[c]
  BY Put1Type
<1>7. Put(cs, fs) \in Cells
  BY PutType
<1>8. Put(cs, fs) = Put1(ds, e)
  BY <1>4, <1>5, <1>6, <1>7, SameCells
<1> QED
  BY <1>1, <1>5, <1>8

\* An edit made before others.
LEMMA PutFirst ==
  ASSUME NEW cs \in Cells, NEW es \in Seq(Edit), NEW e \in Edit
  PROVE  Put(cs, <<e>> \o es) = Put(Put1(cs, e), es)
<1>0. <<e>> \o es \in Seq(Edit)
  OBVIOUS
<1>1. PICK fs \in Seq(Edit) : fs = <<e>> \o es
  BY <1>0
<1>2. PICK n \in Nat : n = Len(es)
  OBVIOUS
<1>3. /\ DOMAIN es = 1 .. n /\ DOMAIN fs = 1 .. n + 1 /\ fs[1] = e
      /\ \A i \in 1 .. n : fs[i + 1] = es[i]
  BY <1>1, <1>2
<1>4. PICK ds \in Cells : ds = Put1(cs, e)
  BY Put1Type
<1>5. \A c \in Cell : ds[c] = IF c = e.at THEN e.value ELSE cs[c]
  BY <1>4, Put1Type
<1>6. \A i \in DOMAIN fs : i = 1 \/ (i - 1 \in DOMAIN es /\ fs[i] = es[i - 1])
  <2> TAKE i \in DOMAIN fs
  <2>1. CASE i # 1
    <3>1. i - 1 \in 1 .. n /\ (i - 1) + 1 = i
      BY <1>3, <2>1
    <3> QED
      BY <1>3, <3>1
  <2> QED
    BY <2>1
<1>7. ASSUME NEW c \in Cell PROVE Put(cs, fs)[c] = Put(ds, es)[c]
  <2>1. CASE \E k \in DOMAIN es : es[k].at = c /\ \A i \in DOMAIN es : i > k => es[i].at # c
    <3>1. PICK k \in DOMAIN es : es[k].at = c /\ \A i \in DOMAIN es : i > k => es[i].at # c
      BY <2>1
    <3>2. k \in Nat \ {0} /\ k + 1 \in DOMAIN fs /\ fs[k + 1] = es[k]
      BY <1>3
    <3>3. \A i \in DOMAIN fs : i > k + 1 => fs[i].at # c
      <4> TAKE i \in DOMAIN fs
      <4>1. CASE i > k + 1
        <5>1. i # 1 /\ i - 1 > k
          BY <1>3, <3>2, <4>1
        <5> QED
          BY <1>6, <3>1, <5>1
      <4> QED
        BY <4>1
    <3>4. Put(cs, fs)[c] = fs[k + 1].value
      BY <3>1, <3>2, <3>3, PutLast
    <3>5. Put(ds, es)[c] = es[k].value
      BY <3>1, PutLast
    <3> QED
      BY <3>2, <3>4, <3>5
  <2>2. CASE \A i \in DOMAIN es : es[i].at # c
    <3>1. Put(ds, es)[c] = ds[c]
      BY <2>2, PutNone
    <3>2. CASE c = e.at
      <4>1. 1 \in DOMAIN fs /\ fs[1].at = c /\ \A i \in DOMAIN fs : i > 1 => fs[i].at # c
        BY <1>3, <1>6, <2>2, <3>2
      <4>2. Put(cs, fs)[c] = fs[1].value
        BY <4>1, PutLast
      <4> QED
        BY <1>3, <1>5, <3>1, <3>2, <4>2
    <3>3. CASE c # e.at
      <4>1. \A i \in DOMAIN fs : fs[i].at # c
        BY <1>3, <1>6, <2>2, <3>3
      <4> QED
        BY <1>5, <3>1, <3>3, <4>1, PutNone
    <3> QED
      BY <3>2, <3>3
  <2> QED
    BY <2>1, <2>2, PutCases
<1>8. Put(cs, fs) \in Cells /\ Put(ds, es) \in Cells
  BY PutType
<1>9. Put(cs, fs) = Put(ds, es)
  BY <1>7, <1>8, SameCells
<1> QED
  BY <1>1, <1>4, <1>9

-----------------------------------------------------------------------------
(* Windows. *)

\* What saving and loading look at, wherever the model is shared.
Ledger(w, u) ==
  /\ u.db = w.db /\ u.loading = w.loading /\ u.token = w.token /\ u.unsaved = w.unsaved
  /\ u.wanted = w.wanted /\ u.failed = w.failed /\ u.lost = w.lost /\ u.outside = w.outside
  /\ u.dirty = w.dirty /\ u.loadedAt = w.loadedAt
  /\ u.saving = None <=> w.saving = None
  /\ w.saving # None =>
       /\ u.saving.model = w.saving.model /\ u.saving.changes = w.saving.changes
       /\ u.saving.token = w.saving.token /\ u.saving.whole = w.saving.whole
       /\ u.saving.done = w.saving.done

\* The engine and its build, likewise.
Engines(w, u) ==
  /\ u.engine = w.engine /\ u.snapshot = w.snapshot
  /\ u.building = None <=> w.building = None
  /\ w.building # None =>
       /\ u.building.of = w.building.of /\ u.building.edits = w.building.edits
       /\ u.building.stale = w.building.stale /\ u.building.done = w.building.done

Stacks(w, u) == u.undo = w.undo /\ u.redo = w.redo /\ u.past = w.past /\ u.future = w.future

LEMMA LetGoBuild ==
  ASSUME NEW x \in Build \cup {None}
  PROVE  /\ LetGo(x) \in Build \cup {None}
         /\ LetGo(x) = None <=> x = None
         /\ ~Sharing(LetGo(x))
         /\ x # None => /\ LetGo(x).of = x.of /\ LetGo(x).edits = x.edits
                        /\ LetGo(x).stale = x.stale /\ LetGo(x).done = x.done
<1>1. CASE x = None
  BY <1>1 DEF LetGo, Sharing
<1>2. CASE x # None
  <2>1. x \in Build
    BY <1>2
  <2>2. PICK y \in Build : y = [x EXCEPT !.shares = FALSE]
    BY <2>1 DEF Build
  <2>3. y.of = x.of /\ y.edits = x.edits /\ y.stale = x.stale /\ y.done = x.done /\ y.shares = FALSE
    BY <2>1, <2>2 DEF Build
  <2>4. LetGo(x) = y /\ y # None
    BY <1>2, <2>2, NoneAssumption DEF LetGo
  <2> QED
    BY <1>2, <2>3, <2>4 DEF Sharing
<1> QED
  BY <1>1, <1>2

LEMMA LetGoSave ==
  ASSUME NEW x \in Save \cup {None}
  PROVE  /\ LetGo(x) \in Save \cup {None}
         /\ LetGo(x) = None <=> x = None
         /\ ~Sharing(LetGo(x))
         /\ x # None => /\ LetGo(x).model = x.model /\ LetGo(x).changes = x.changes
                        /\ LetGo(x).token = x.token /\ LetGo(x).whole = x.whole
                        /\ LetGo(x).done = x.done
<1>1. CASE x = None
  BY <1>1 DEF LetGo, Sharing
<1>2. CASE x # None
  <2>1. x \in Save
    BY <1>2
  <2>2. PICK y \in Save : y = [x EXCEPT !.shares = FALSE]
    BY <2>1 DEF Save
  <2>3. /\ y.model = x.model /\ y.changes = x.changes /\ y.token = x.token
        /\ y.whole = x.whole /\ y.done = x.done /\ y.shares = FALSE
    BY <2>1, <2>2 DEF Save
  <2>4. LetGo(x) = y /\ y # None
    BY <1>2, <2>2, NoneAssumption DEF LetGo
  <2> QED
    BY <1>2, <2>3, <2>4 DEF Sharing
<1> QED
  BY <1>1, <1>2

\* Two models with the same cells and form are the same.
LEMMA SameModel ==
  ASSUME NEW a \in Models, NEW b \in Models, a.cells = b.cells, a.form = b.form
  PROVE  a = b
BY DEF Models

LEMMA ModelOf ==
  ASSUME NEW m \in Models
  PROVE  m.cells \in Cells /\ m.form \in Formula \cup {None}
BY DEF Models, Cells

LEMMA WithCells ==
  ASSUME NEW m \in Models, NEW cs \in Cells
  PROVE  /\ [m EXCEPT !.cells = cs] \in Models
         /\ [m EXCEPT !.cells = cs].cells = cs
         /\ [m EXCEPT !.cells = cs].form = m.form
BY DEF Models, Cells

LEMMA WithForm ==
  ASSUME NEW m \in Models, NEW f \in Formula \cup {None}
  PROVE  /\ [m EXCEPT !.form = f] \in Models
         /\ [m EXCEPT !.form = f].cells = m.cells
         /\ [m EXCEPT !.form = f].form = f
BY DEF Models, Cells

LEMMA WithEdit ==
  ASSUME NEW m \in Models, NEW e \in Edit
  PROVE  /\ [m EXCEPT !.cells[e.at] = e.value] \in Models
         /\ [m EXCEPT !.cells[e.at] = e.value].cells = Put1(m.cells, e)
         /\ [m EXCEPT !.cells[e.at] = e.value].form = m.form
<1>1. PICK cs \in Cells : cs = Put1(m.cells, e)
  BY ModelOf, Put1Type
<1>2. [m EXCEPT !.cells[e.at] = e.value] = [m EXCEPT !.cells = cs]
  BY <1>1 DEF Put1
<1> QED
  BY <1>1, <1>2, WithCells

LEMMA EditOf ==
  ASSUME NEW c \in Cell, NEW v \in Value \cup {None}
  PROVE  /\ [at |-> c, value |-> v] \in Edit
         /\ [at |-> c, value |-> v].at = c /\ [at |-> c, value |-> v].value = v
BY DEF Edit

\* What a window shows, whether its held edits are in the model or not.
LEMMA ShownOf ==
  ASSUME NEW w \in Window
  PROVE  /\ Shown(w) \in Models
         /\ Shown(w).cells = Put(w.model.cells, w.held)
         /\ Shown(w).form = w.model.form
         /\ w.held = <<>> => Shown(w) = w.model
<1>1. w.model \in Models /\ w.held \in Seq(Edit)
  BY DEF Window
<1>2. w.model.cells \in Cells
  BY <1>1, ModelOf
<1>3. CASE w.held = <<>>
  BY <1>1, <1>2, <1>3, PutEmpty DEF Shown
<1>4. CASE w.held # <<>>
  <2>1. PICK cs \in Cells : cs = Put(w.model.cells, w.held)
    BY <1>1, <1>2, PutType
  <2>2. Shown(w) = [w.model EXCEPT !.cells = cs]
    BY <1>4, <2>1 DEF Shown
  <2> QED
    BY <1>1, <1>4, <2>1, <2>2, WithCells
<1> QED
  BY <1>3, <1>4

\* The model and the held edits are all that is shown.
LEMMA ShownSame ==
  ASSUME NEW w \in Window, NEW u \in Window, u.model = w.model, u.held = w.held
  PROVE  Shown(u) = Shown(w)
BY DEF Shown

LEMMA UnsharedOf ==
  ASSUME NEW w \in Window
  PROVE  /\ Unshared(w) \in Window
         /\ Unshared(w).model = w.model /\ Unshared(w).held = w.held
         /\ ~Shared(Unshared(w))
         /\ Shown(Unshared(w)) = Shown(w)
         /\ Ledger(w, Unshared(w)) /\ Engines(w, Unshared(w)) /\ Stacks(w, Unshared(w))
<1>0. w.building \in Build \cup {None} /\ w.saving \in Save \cup {None}
  BY DEF Window
<1>1. PICK b \in Build \cup {None} : b = LetGo(w.building)
  BY <1>0, LetGoBuild
<1>2. PICK s \in Save \cup {None} : s = LetGo(w.saving)
  BY <1>0, LetGoSave
<1>3. PICK u \in Window : u = [w EXCEPT !.building = b, !.saving = s]
  <2>1. [w EXCEPT !.building = b, !.saving = s] \in Window
    BY DEF Window
  <2> QED
    BY <2>1
<1>4. Unshared(w) = u
  BY <1>1, <1>2, <1>3 DEF Unshared
<1>5. u.building = b /\ u.saving = s /\ u.model = w.model /\ u.held = w.held /\ Stacks(w, u)
  BY <1>3 DEF Window, Stacks
<1>6. Engines(w, u)
  <2>1. u.engine = w.engine /\ u.snapshot = w.snapshot
    BY <1>3 DEF Window
  <2> QED
    BY <1>0, <1>1, <1>5, <2>1, LetGoBuild DEF Engines
<1>7. Ledger(w, u)
  <2>1. /\ u.db = w.db /\ u.loading = w.loading /\ u.token = w.token /\ u.unsaved = w.unsaved
        /\ u.wanted = w.wanted /\ u.failed = w.failed /\ u.lost = w.lost /\ u.outside = w.outside
        /\ u.dirty = w.dirty /\ u.loadedAt = w.loadedAt
    BY <1>3 DEF Window
  <2> QED
    BY <1>0, <1>2, <1>5, <2>1, LetGoSave DEF Ledger
<1>8. ~Shared(u)
  BY <1>0, <1>1, <1>2, <1>5, LetGoBuild, LetGoSave DEF Shared
<1>9. Shown(u) = Shown(w)
  BY <1>5, ShownSame
<1> QED
  BY <1>4, <1>5, <1>6, <1>7, <1>8, <1>9

\* The relations compose.
LEMMA LedgerTrans ==
  ASSUME NEW a, NEW b, NEW c, Ledger(a, b), Ledger(b, c)
  PROVE  Ledger(a, c)
BY DEF Ledger

LEMMA EnginesTrans ==
  ASSUME NEW a, NEW b, NEW c, Engines(a, b), Engines(b, c)
  PROVE  Engines(a, c)
BY DEF Engines

LEMMA StacksTrans ==
  ASSUME NEW a, NEW b, NEW c, Stacks(a, b), Stacks(b, c)
  PROVE  Stacks(a, c)
BY DEF Stacks

\* model_mut: the model is what the window shows.
LEMMA ModelMutOf ==
  ASSUME NEW w \in Window
  PROVE  /\ ModelMut(w) \in Window
         /\ ModelMut(w).model = Shown(w) /\ ModelMut(w).held = <<>>
         /\ Shown(ModelMut(w)) = Shown(w)
         /\ Ledger(w, ModelMut(w)) /\ Engines(w, ModelMut(w)) /\ Stacks(w, ModelMut(w))
<1>1. PICK v \in Window : v = Unshared(w)
  BY UnsharedOf
<1>2. Ledger(w, v) /\ Engines(w, v) /\ Stacks(w, v)
  BY <1>1, UnsharedOf
<1>3. PICK m \in Models : m = Shown(w)
  BY ShownOf
<1>4. <<>> \in Seq(Edit)
  OBVIOUS
<1>5. PICK h \in Seq(Edit) : h = <<>>
  BY <1>4
<1>6. PICK u : u = [v EXCEPT !.model = m, !.held = h]
  OBVIOUS
<1>7. ModelMut(w) = u
  BY <1>1, <1>3, <1>5, <1>6 DEF ModelMut
<1>8. /\ u \in Window /\ u.model = m /\ u.held = h
      /\ Ledger(v, u) /\ Engines(v, u) /\ Stacks(v, u)
  <2>1. u \in Window
    BY <1>6 DEF Window
  <2> QED
    BY <1>6, <2>1 DEF Window, Ledger, Engines, Stacks
<1>9. Shown(u) = m
  BY <1>5, <1>8, ShownOf
<1>10. Ledger(w, u) /\ Engines(w, u) /\ Stacks(w, u)
  BY <1>2, <1>8, LedgerTrans, EnginesTrans, StacksTrans
<1> QED
  BY <1>3, <1>5, <1>7, <1>8, <1>9, <1>10

LEMMA Reflexive ==
  ASSUME NEW w
  PROVE  Ledger(w, w) /\ Engines(w, w) /\ Stacks(w, w)
BY DEF Ledger, Engines, Stacks

\* write_held writes the held edits, if it may.
LEMMA WriteHeldOf ==
  ASSUME NEW w \in Window
  PROVE  /\ WriteHeld(w) \in Window
         /\ WriteHeld(w).building = w.building /\ WriteHeld(w).saving = w.saving
         /\ Shown(WriteHeld(w)) = Shown(w)
         /\ ~Shared(w) => WriteHeld(w).held = <<>>
         /\ Ledger(w, WriteHeld(w)) /\ Engines(w, WriteHeld(w)) /\ Stacks(w, WriteHeld(w))
<1>1. CASE Shared(w)
  BY <1>1, Reflexive DEF WriteHeld
<1>2. CASE ~Shared(w)
  <2>3. PICK m \in Models : m = Shown(w)
    BY ShownOf
  <2>4. <<>> \in Seq(Edit)
    OBVIOUS
  <2>5. PICK h \in Seq(Edit) : h = <<>>
    BY <2>4
  <2>6. PICK u : u = [w EXCEPT !.model = m, !.held = h]
    OBVIOUS
  <2>7. WriteHeld(w) = u
    BY <1>2, <2>3, <2>5, <2>6 DEF WriteHeld
  <2>8. /\ u \in Window /\ u.model = m /\ u.held = h
        /\ u.building = w.building /\ u.saving = w.saving
        /\ Ledger(w, u) /\ Engines(w, u) /\ Stacks(w, u)
    <3>1. u \in Window
      BY <2>6 DEF Window
    <3> QED
      BY <2>6, <3>1 DEF Window, Ledger, Engines, Stacks
  <2>9. Shown(u) = m
    BY <2>5, <2>8, ShownOf
  <2> QED
    BY <2>3, <2>5, <2>7, <2>8, <2>9
<1> QED
  BY <1>1, <1>2

\* u shows what w does after the edit e.
Edited(w, u, e) ==
  Shown(u).cells = Put1(Shown(w).cells, e) /\ Shown(u).form = Shown(w).form

\* write_input: the edit is shown, held or not.
LEMMA WriteInputOf ==
  ASSUME NEW w \in Window, NEW e \in Edit
  PROVE  /\ WriteInput(w, e.at, e.value) \in Window
         /\ Edited(w, WriteInput(w, e.at, e.value), e)
         /\ Ledger(w, WriteInput(w, e.at, e.value))
         /\ Engines(w, WriteInput(w, e.at, e.value))
         /\ Stacks(w, WriteInput(w, e.at, e.value))
<1>1. PICK v \in Window : v = WriteHeld(w)
  BY WriteHeldOf
<1>2. /\ Ledger(w, v) /\ Engines(w, v) /\ Stacks(w, v) /\ Shown(v) = Shown(w)
      /\ v.building = w.building /\ v.saving = w.saving
      /\ ~Shared(w) => v.held = <<>>
  BY <1>1, WriteHeldOf
<1>3. Shared(v) <=> Shared(w)
  BY <1>2 DEF Shared
<1>4. v.model \in Models /\ v.held \in Seq(Edit)
  BY DEF Window
<1>5. [at |-> e.at, value |-> e.value] = e
  BY DEF Edit
<1>6. CASE Shared(v)
  <2>1. Append(v.held, e) \in Seq(Edit)
    BY <1>4
  <2>2. PICK h \in Seq(Edit) : h = Append(v.held, e)
    BY <2>1
  <2>3. PICK m \in Models : m = v.model
    BY <1>4
  <2>4. PICK u : u = [v EXCEPT !.model = m, !.held = h]
    OBVIOUS
  <2>5. WriteInput(w, e.at, e.value) = u
    <3>1. u = [v EXCEPT !.held = h]
      BY <2>3, <2>4 DEF Window
    <3> QED
      BY <1>1, <1>5, <1>6, <2>2, <3>1 DEF WriteInput
  <2>6. /\ u \in Window /\ u.model = m /\ u.held = h
        /\ Ledger(v, u) /\ Engines(v, u) /\ Stacks(v, u)
    <3>1. u \in Window
      BY <2>4 DEF Window
    <3> QED
      BY <2>4, <3>1 DEF Window, Ledger, Engines, Stacks
  <2>7. Shown(u).cells = Put(m.cells, h) /\ Shown(u).form = m.form
    BY <2>6, ShownOf
  <2>8. Shown(v).cells = Put(m.cells, v.held) /\ Shown(v).form = m.form /\ m.cells \in Cells
    BY <2>3, ShownOf, ModelOf
  <2>9. Put(m.cells, h) = Put1(Put(m.cells, v.held), e)
    BY <1>4, <2>2, <2>8, PutAppend
  <2>10. Edited(w, u, e)
    BY <1>2, <2>7, <2>8, <2>9 DEF Edited
  <2>11. Ledger(w, u) /\ Engines(w, u) /\ Stacks(w, u)
    BY <1>2, <2>6, LedgerTrans, EnginesTrans, StacksTrans
  <2> QED
    BY <2>5, <2>6, <2>10, <2>11
<1>7. CASE ~Shared(v)
  <2>1. v.held = <<>>
    BY <1>2, <1>3, <1>7
  <2>2. PICK h \in Seq(Edit) : h = v.held
    BY <1>4
  <2>3. PICK m \in Models : m = [v.model EXCEPT !.cells[e.at] = e.value]
    BY <1>4, WithEdit
  <2>4. PICK u : u = [v EXCEPT !.model = m, !.held = h]
    OBVIOUS
  <2>5. WriteInput(w, e.at, e.value) = u
    <3>1. u = [v EXCEPT !.model = m]
      BY <2>2, <2>4 DEF Window
    <3>2. [v EXCEPT !.model.cells[e.at] = e.value] = [v EXCEPT !.model = m]
      BY <2>3 DEF Window
    <3> QED
      BY <1>1, <1>7, <3>1, <3>2 DEF WriteInput
  <2>6. /\ u \in Window /\ u.model = m /\ u.held = h
        /\ Ledger(v, u) /\ Engines(v, u) /\ Stacks(v, u)
    <3>1. u \in Window
      BY <2>4 DEF Window
    <3> QED
      BY <2>4, <3>1 DEF Window, Ledger, Engines, Stacks
  <2>7. Shown(u) = m /\ Shown(v) = v.model
    BY <2>1, <2>2, <2>6, ShownOf
  <2>8. m.cells = Put1(v.model.cells, e) /\ m.form = v.model.form
    BY <1>4, <2>3, WithEdit
  <2>10. Edited(w, u, e)
    BY <1>2, <2>7, <2>8 DEF Edited
  <2>11. Ledger(w, u) /\ Engines(w, u) /\ Stacks(w, u)
    BY <1>2, <2>6, LedgerTrans, EnginesTrans, StacksTrans
  <2> QED
    BY <2>5, <2>6, <2>10, <2>11
<1> QED
  BY <1>6, <1>7

-----------------------------------------------------------------------------
(* Builds. *)

LEMMA PromisedOf ==
  ASSUME NEW b \in Build
  PROVE  /\ Promised(b) \in Models
         /\ Promised(b).cells = Put(b.of.cells, b.edits)
         /\ Promised(b).form = b.of.form
<1>1. b.of \in Models /\ b.edits \in Seq(Edit)
  BY DEF Build
<1>2. PICK cs \in Cells : cs = Put(b.of.cells, b.edits)
  BY <1>1, ModelOf, PutType
<1>3. Promised(b) = [b.of EXCEPT !.cells = cs]
  BY <1>2 DEF Promised
<1> QED
  BY <1>1, <1>2, <1>3, WithCells

LEMMA SamePromise ==
  ASSUME NEW a \in Build, NEW b \in Build, a.of = b.of, a.edits = b.edits
  PROVE  Promised(a) = Promised(b)
BY DEF Promised

\* Sharing the model or not is nothing to what is built.
LEMMA BuildKept ==
  ASSUME NEW w \in Window, NEW u \in Window, BuildInv(w), Engines(w, u), Shown(u) = Shown(w)
  PROVE  BuildInv(u)
<1>1. CASE w.building = None
  BY <1>1 DEF BuildInv, Engines
<1>2. CASE w.building # None
  <2>1. w.building \in Build /\ u.building \in Build
    BY <1>2 DEF Window, Engines
  <2>2. Promised(u.building) = Promised(w.building)
    BY <1>2, <2>1, SamePromise DEF Engines
  <2> QED
    BY <1>2, <2>2 DEF BuildInv, Engines
<1> QED
  BY <1>1, <1>2

\* spawn_build: the engine will be of what is shown.
LEMMA SpawnBuildOf ==
  ASSUME NEW w \in Window
  PROVE  /\ SpawnBuild(w) \in Window /\ Shown(SpawnBuild(w)) = Shown(w)
         /\ Ledger(w, SpawnBuild(w)) /\ Stacks(w, SpawnBuild(w))
         /\ SpawnBuild(w).building # None
         /\ BuildInv(SpawnBuild(w))
<1>1. PICK v \in Window : v = IF w.held = <<>> THEN w ELSE ModelMut(w)
  BY ModelMutOf
<1>2. Ledger(w, v) /\ Stacks(w, v) /\ Shown(v) = Shown(w) /\ v.held = <<>>
  BY <1>1, ModelMutOf, Reflexive
<1>3. PICK m \in Models : m = v.model
  BY DEF Window
<1>4. <<>> \in Seq(Edit)
  OBVIOUS
<1>5. PICK b \in Build : b = [of |-> m, shares |-> TRUE, edits |-> <<>>, stale |-> FALSE, done |-> None]
  <2>1. [of |-> m, shares |-> TRUE, edits |-> <<>>, stale |-> FALSE, done |-> None] \in Build
    BY <1>4 DEF Build
  <2> QED
    BY <2>1
<1>6. PICK x \in Models \cup {None} : x = IF v.model.form = None THEN None ELSE v.snapshot
  <2>1. v.snapshot \in Models \cup {None}
    BY DEF Window
  <2> QED
    BY <2>1
<1>7. PICK u : u = [v EXCEPT !.engine = None, !.snapshot = x, !.building = b]
  OBVIOUS
<1>8. SpawnBuild(w) = u
  BY <1>1, <1>3, <1>5, <1>6, <1>7 DEF SpawnBuild
<1>9. u \in Window
  BY <1>7 DEF Window
<1>10. Ledger(v, u) /\ Stacks(v, u) /\ u.model = v.model /\ u.held = v.held /\ u.building = b
  BY <1>7, <1>9 DEF Window, Ledger, Stacks
<1>11. Shown(u) = Shown(v) /\ Shown(v) = m
  BY <1>2, <1>3, <1>9, <1>10, ShownSame, ShownOf
<1>12. Promised(b) = m
  <2>1. b.of = m /\ b.edits = <<>> /\ m.cells \in Cells
    BY <1>5, ModelOf
  <2>2. Promised(b).cells = m.cells /\ Promised(b).form = m.form /\ Promised(b) \in Models
    BY <2>1, PromisedOf, PutEmpty
  <2> QED
    BY <2>2, SameModel
<1>13. b # None
  BY NoneAssumption
<1>14. BuildInv(u)
  BY <1>10, <1>11, <1>12, <1>13 DEF BuildInv
<1>15. Ledger(w, u) /\ Stacks(w, u)
  BY <1>2, <1>10, LedgerTrans, StacksTrans
<1> QED
  BY <1>2, <1>8, <1>9, <1>10, <1>11, <1>13, <1>14, <1>15

\* rebuild_engine: and so it will after any change of the model.
LEMMA RebuildOf ==
  ASSUME NEW w \in Window
  PROVE  /\ RebuildEngine(w) \in Window /\ Shown(RebuildEngine(w)) = Shown(w)
         /\ Ledger(w, RebuildEngine(w)) /\ Stacks(w, RebuildEngine(w))
         /\ BuildInv(RebuildEngine(w))
<1>1. CASE w.building = None
  BY <1>1, SpawnBuildOf DEF RebuildEngine
<1>2. CASE w.building # None
  <2>1. w.building \in Build
    BY <1>2 DEF Window
  <2>2. <<>> \in Seq(Edit)
    OBVIOUS
  <2>3. PICK b \in Build : b = [w.building EXCEPT !.stale = TRUE, !.edits = <<>>]
    <3>1. [w.building EXCEPT !.stale = TRUE, !.edits = <<>>] \in Build
      BY <2>1, <2>2 DEF Build
    <3> QED
      BY <3>1
  <2>4. b.stale = TRUE /\ b # None
    BY <2>1, <2>3, NoneAssumption DEF Build
  <2>5. PICK u : u = [w EXCEPT !.building = b]
    OBVIOUS
  <2>6. RebuildEngine(w) = u
    <3>1. [w EXCEPT !.building.stale = TRUE, !.building.edits = <<>>] = [w EXCEPT !.building = b]
      BY <2>1, <2>3 DEF Window, Build
    <3> QED
      BY <1>2, <2>5, <3>1 DEF RebuildEngine
  <2>7. u \in Window
    BY <2>5 DEF Window
  <2>8. Ledger(w, u) /\ Stacks(w, u) /\ u.model = w.model /\ u.held = w.held /\ u.building = b
    BY <2>5, <2>7 DEF Window, Ledger, Stacks
  <2>9. Shown(u) = Shown(w)
    BY <2>7, <2>8, ShownSame
  <2>10. BuildInv(u)
    BY <2>4, <2>8 DEF BuildInv
  <2> QED
    BY <2>6, <2>7, <2>8, <2>9, <2>10
<1> QED
  BY <1>1, <1>2

\* push_engine: an edit that is shown goes to the engine, or to the build.
LEMMA PushEngineOf ==
  ASSUME NEW w \in Window, NEW v \in Window, NEW e \in Edit,
         BuildInv(w), Engines(w, v), Edited(w, v, e)
  PROVE  /\ PushEngine(v, e.at, e.value) \in Window
         /\ Shown(PushEngine(v, e.at, e.value)) = Shown(v)
         /\ Ledger(v, PushEngine(v, e.at, e.value)) /\ Stacks(v, PushEngine(v, e.at, e.value))
         /\ BuildInv(PushEngine(v, e.at, e.value))
<1>1. [at |-> e.at, value |-> e.value] = e
  BY DEF Edit
<1>2. Shown(v) \in Models /\ Shown(w) \in Models
  BY ShownOf
<1>3. CASE v.building # None /\ ~v.building.stale
  <2>1. v.building \in Build /\ w.building \in Build /\ w.building # None /\ ~w.building.stale
    BY <1>3 DEF Window, Engines
  <2>2. v.building.edits \in Seq(Edit) /\ v.building.of \in Models /\ v.building.of.cells \in Cells
    BY <2>1, ModelOf DEF Build
  <2>3. Append(v.building.edits, e) \in Seq(Edit)
    BY <2>2
  <2>4. PICK es \in Seq(Edit) : es = Append(v.building.edits, e)
    BY <2>3
  <2>5. PICK b \in Build : b = [v.building EXCEPT !.edits = es]
    <3>1. [v.building EXCEPT !.edits = es] \in Build
      BY <2>1 DEF Build
    <3> QED
      BY <3>1
  <2>6. b.of = v.building.of /\ b.edits = es /\ b.stale = v.building.stale /\ b # None
    BY <2>1, <2>5, NoneAssumption DEF Build
  <2>7. PICK u : u = [v EXCEPT !.building = b]
    OBVIOUS
  <2>8. PushEngine(v, e.at, e.value) = u
    <3>1. [v EXCEPT !.building.edits = Append(@, e)] = [v EXCEPT !.building = b]
      BY <2>1, <2>4, <2>5 DEF Window, Build
    <3> QED
      BY <1>1, <1>3, <2>7, <3>1 DEF PushEngine
  <2>9. u \in Window
    BY <2>7 DEF Window
  <2>10. Ledger(v, u) /\ Stacks(v, u) /\ u.model = v.model /\ u.held = v.held /\ u.building = b
    BY <2>7, <2>9 DEF Window, Ledger, Stacks
  <2>11. Shown(u) = Shown(v)
    BY <2>9, <2>10, ShownSame
  <2>12. Promised(v.building) = Shown(w)
    BY <2>1, SamePromise DEF BuildInv, Engines
  <2>13. Promised(b).cells = Put1(Shown(w).cells, e) /\ Promised(b).form = Shown(w).form
    BY <2>1, <2>2, <2>4, <2>6, <2>12, PromisedOf, PutAppend
  <2>14. Promised(b) = Shown(v)
    BY <1>2, <2>13, PromisedOf, SameModel DEF Edited
  <2>15. BuildInv(u)
    BY <2>6, <2>10, <2>11, <2>14 DEF BuildInv
  <2> QED
    BY <2>8, <2>9, <2>10, <2>11, <2>15
<1>4. CASE v.building # None /\ v.building.stale
  <2>1. PushEngine(v, e.at, e.value) = v
    BY <1>4 DEF PushEngine
  <2> QED
    BY <1>4, <2>1, Reflexive DEF BuildInv
<1>5. CASE v.building = None /\ v.engine = None
  <2>1. PushEngine(v, e.at, e.value) = v
    BY <1>5 DEF PushEngine
  <2> QED
    BY <1>5, <2>1, Reflexive DEF BuildInv, Engines
<1>6. CASE v.building = None /\ v.engine # None
  <2>1. v.engine \in Models /\ v.engine = Shown(w)
    BY <1>6 DEF Window, BuildInv, Engines
  <2>2. PICK m \in Models : m = [v.engine EXCEPT !.cells[e.at] = e.value]
    BY <2>1, WithEdit
  <2>3. m.cells = Put1(Shown(w).cells, e) /\ m.form = Shown(w).form
    BY <2>1, <2>2, WithEdit
  <2>4. m = Shown(v)
    BY <1>2, <2>3, SameModel DEF Edited
  <2>5. PICK u : u = [v EXCEPT !.engine = m, !.snapshot = m]
    OBVIOUS
  <2>6. PushEngine(v, e.at, e.value) = u
    BY <1>6, <2>2, <2>5 DEF PushEngine
  <2>7. u \in Window
    BY <2>5 DEF Window
  <2>8. /\ Ledger(v, u) /\ Stacks(v, u) /\ u.model = v.model /\ u.held = v.held
        /\ u.engine = m /\ u.snapshot = m /\ u.building = None
    BY <1>6, <2>5, <2>7 DEF Window, Ledger, Stacks
  <2>9. Shown(u) = Shown(v)
    BY <2>7, <2>8, ShownSame
  <2>10. BuildInv(u)
    BY <2>4, <2>8, <2>9 DEF BuildInv
  <2> QED
    BY <2>6, <2>7, <2>8, <2>9, <2>10
<1> QED
  BY <1>3, <1>4, <1>5, <1>6

\* land: the new engine is of what is shown, or another build follows.
LEMMA LandOf ==
  ASSUME NEW w \in Window, BuildInv(w), w.building # None
  PROVE  /\ Land(w) \in Window /\ Shown(Land(w)) = Shown(w)
         /\ Ledger(w, Land(w)) /\ Stacks(w, Land(w))
         /\ BuildInv(Land(w))
<1>1. PICK b \in Build : b = w.building
  BY DEF Window
<1>2. PICK v : v = [w EXCEPT !.building = None]
  OBVIOUS
<1>3. v \in Window
  BY <1>2 DEF Window
<1>4. Ledger(w, v) /\ Stacks(w, v) /\ v.model = w.model /\ v.held = w.held /\ v.building = None
  BY <1>2, <1>3 DEF Window, Ledger, Stacks
<1>5. PICK u \in Window : u = WriteHeld(v)
  BY <1>3, WriteHeldOf
<1>6. Ledger(v, u) /\ Stacks(v, u) /\ Shown(u) = Shown(v) /\ u.building = None
  BY <1>3, <1>4, <1>5, WriteHeldOf
<1>7. Shown(u) = Shown(w) /\ Ledger(w, u) /\ Stacks(w, u)
  BY <1>3, <1>4, <1>6, ShownSame, LedgerTrans, StacksTrans
<1>8. CASE b.stale
  <2>1. Land(w) = SpawnBuild(u)
    BY <1>1, <1>2, <1>5, <1>8 DEF Land
  <2>2. PICK x \in Window : x = SpawnBuild(u)
    BY SpawnBuildOf
  <2>3. Shown(x) = Shown(u) /\ Ledger(u, x) /\ Stacks(u, x) /\ BuildInv(x)
    BY <2>2, SpawnBuildOf
  <2> QED
    BY <1>7, <2>1, <2>2, <2>3, LedgerTrans, StacksTrans
<1>9. CASE ~b.stale
  <2>1. PICK m \in Models : m = Promised(b)
    BY PromisedOf
  <2>2. m = Shown(u)
    BY <1>1, <1>7, <1>9, <2>1 DEF BuildInv
  <2>3. PICK g \in Models \cup {None} : g = IF b.done = "failed" \/ b.of.form = None THEN None ELSE m
    OBVIOUS
  <2>4. PICK x : x = [u EXCEPT !.engine = g, !.snapshot = g]
    OBVIOUS
  <2>5. Land(w) = x
    BY <1>1, <1>2, <1>5, <1>9, <2>1, <2>3, <2>4 DEF Land, Promised
  <2>6. x \in Window
    BY <2>4 DEF Window
  <2>7. /\ Ledger(u, x) /\ Stacks(u, x) /\ x.model = u.model /\ x.held = u.held
        /\ x.engine = g /\ x.snapshot = g /\ x.building = None
    BY <1>6, <2>4, <2>6 DEF Window, Ledger, Stacks
  <2>8. Shown(x) = Shown(u)
    BY <2>6, <2>7, ShownSame
  <2>9. BuildInv(x)
    BY <2>2, <2>3, <2>7, <2>8 DEF BuildInv
  <2> QED
    BY <1>7, <2>5, <2>6, <2>7, <2>8, <2>9, LedgerTrans, StacksTrans
<1> QED
  BY <1>8, <1>9

-----------------------------------------------------------------------------
(* Saves. *)

\* None is no answer of a thread.
LEMMA NoAnswer ==
  None # "ok" /\ None # "conflict" /\ None # "failed" /\ None # "lost"
BY NoneAssumption

LEMMA AddOf ==
  ASSUME NEW a \in Changes, NEW b \in Changes
  PROVE  /\ Add(a, b) \in Changes
         /\ \A c : c \in Add(a, b).cells <=> c \in a.cells \/ c \in b.cells
         /\ Add(a, b).structure <=> a.structure \/ b.structure
BY DEF Add, Changes

LEMMA NoChangesType ==
  NoChanges \in Changes /\ NoChanges.cells = {} /\ NoChanges.structure = FALSE
BY DEF NoChanges, Changes

\* What is among some changes is among more of them, and it matters not which of the
\* two holds them.
LEMMA WithinMore ==
  ASSUME NEW w, NEW u, Shown(u) = Shown(w), NEW m,
         NEW a \in Changes, NEW b \in Changes, NEW x \in Changes, NEW y \in Changes,
         a.cells \cup x.cells \subseteq b.cells \cup y.cells,
         a.structure \/ x.structure => b.structure \/ y.structure,
         Within(w, m, a, x)
  PROVE  Within(u, m, b, y)
BY DEF Within

\* A window's invariants follow its ledger.
LEMMA LedgerKeeps ==
  ASSUME NEW w \in Window, NEW u \in Window, Ledger(w, u), NEW st, NEW f
  PROVE  /\ TokenInv(w, st.hw, f) => TokenInv(u, st.hw, f)
         /\ StrandInv(w, st.hw) => StrandInv(u, st.hw)
         /\ LoadInv(w, st) => LoadInv(u, st)
         /\ LostInv(w) => LostInv(u)
         /\ Holding(w) <=> Holding(u)
<1>1. Holding(w) <=> Holding(u)
  BY DEF Ledger, Holding
<1>2. Token(w) = Token(u)
  BY DEF Ledger, Token
<1>3. TokenInv(w, st.hw, f) => TokenInv(u, st.hw, f)
  BY <1>1, <1>2 DEF Ledger, TokenInv
<1>4. StrandInv(w, st.hw) => StrandInv(u, st.hw)
  BY <1>1 DEF Ledger, StrandInv
<1>5. LoadInv(w, st) => LoadInv(u, st)
  BY DEF Ledger, LoadInv
<1>6. LostInv(w) => LostInv(u)
  BY DEF Ledger, LostInv
<1> QED
  BY <1>1, <1>3, <1>4, <1>5, <1>6

LEMMA WithinSame ==
  ASSUME NEW w, NEW u, Shown(u) = Shown(w), NEW m, NEW ch, NEW x, Within(w, m, ch, x)
  PROVE  Within(u, m, ch, x)
BY DEF Within

LEMMA SaveKept ==
  ASSUME NEW w \in Window, NEW u \in Window, Ledger(w, u), Shown(u) = Shown(w),
         NEW st, NEW x, SaveInv(w, st, x)
  PROVE  SaveInv(u, st, x)
<1>1. ASSUME NEW m, NEW ch PROVE Within(w, m, ch, x) <=> Within(u, m, ch, x)
  BY WithinSame
<1>2. Holding(w) <=> Holding(u)
  BY DEF Ledger, Holding
<1>3. CASE w.saving = None
  BY <1>1, <1>2, <1>3 DEF Ledger, SaveInv
<1>4. CASE w.saving # None
  BY <1>1, <1>2, <1>4 DEF Ledger, SaveInv
<1> QED
  BY <1>3, <1>4

\* Apart from what a save changes.
Idle(w, u) ==
  /\ u.db = w.db /\ u.loading = w.loading /\ u.failed = w.failed /\ u.lost = w.lost
  /\ u.outside = w.outside /\ u.loadedAt = w.loadedAt

\* send_save: all that is shown and all that is unsaved, with the token.
LEMMA SendSaveIs ==
  ASSUME NEW w \in Window
  PROVE  /\ SendSave(w) \in Window /\ Shown(SendSave(w)) = Shown(w)
         /\ Engines(w, SendSave(w)) /\ Stacks(w, SendSave(w)) /\ Idle(w, SendSave(w))
         /\ SendSave(w).wanted = w.wanted /\ SendSave(w).dirty = w.dirty
         /\ SendSave(w).unsaved = NoChanges /\ SendSave(w).token = None
         /\ SendSave(w).saving \in Save /\ SendSave(w).saving # None
         /\ SendSave(w).saving.model = Shown(w) /\ SendSave(w).saving.changes = w.unsaved
         /\ SendSave(w).saving.token = w.token /\ SendSave(w).saving.done = None
<1>1. PICK whole \in BOOLEAN : whole = (Cardinality(w.unsaved.cells) > SeekLimit \/ w.token = None)
  OBVIOUS
<1>2. PICK v \in Window : v = IF whole THEN ModelMut(w) ELSE w
  BY ModelMutOf
<1>3. Ledger(w, v) /\ Engines(w, v) /\ Stacks(w, v) /\ Shown(v) = Shown(w)
  BY <1>2, ModelMutOf, Reflexive
<1>4. PICK m \in Models : m = Shown(v)
  BY ShownOf
<1>5. w.unsaved \in Changes /\ w.token \in Nat \cup {None}
  BY DEF Window
<1>6. PICK s \in Save : s = [model |-> m, changes |-> w.unsaved, token |-> w.token,
                             whole |-> whole, shares |-> whole, done |-> None]
  <2>1. [model |-> m, changes |-> w.unsaved, token |-> w.token,
         whole |-> whole, shares |-> whole, done |-> None] \in Save
    BY <1>5 DEF Save
  <2> QED
    BY <2>1
<1>7. s # None /\ s.model = m /\ s.changes = w.unsaved /\ s.token = w.token /\ s.done = None
  BY <1>6, NoneAssumption
<1>8. PICK u : u = [v EXCEPT !.saving = s, !.unsaved = NoChanges, !.token = None]
  OBVIOUS
<1>9. SendSave(w) = u
  BY <1>1, <1>2, <1>4, <1>6, <1>8 DEF SendSave
<1>10. u \in Window
  BY <1>8, NoChangesType DEF Window
<1>11. /\ Stacks(v, u) /\ Engines(v, u) /\ Idle(v, u) /\ u.model = v.model /\ u.held = v.held
       /\ u.saving = s /\ u.unsaved = NoChanges /\ u.token = None
       /\ u.wanted = v.wanted /\ u.dirty = v.dirty
  BY <1>8, <1>10 DEF Window, Stacks, Engines, Idle
<1>12. Shown(u) = Shown(v)
  BY <1>10, <1>11, ShownSame
<1>13. Engines(w, u) /\ Stacks(w, u) /\ Idle(w, u) /\ u.wanted = w.wanted /\ u.dirty = w.dirty
  BY <1>3, <1>11, EnginesTrans, StacksTrans DEF Ledger, Idle
<1> QED
  BY <1>3, <1>4, <1>7, <1>9, <1>10, <1>11, <1>12, <1>13

\* A save that is sent keeps everything.
LEMMA SendSaveOf ==
  ASSUME NEW w \in Window, NEW st \in Stored, NEW f \in Nat,
         Holding(w), w.saving = None, w.dirty, ~w.lost, w.outside = None,
         SaveInv(w, st, NoChanges), TokenInv(w, st.hw, f), LostInv(w)
  PROVE  /\ SaveInv(SendSave(w), st, NoChanges) /\ TokenInv(SendSave(w), st.hw, f)
         /\ StrandInv(SendSave(w), st.hw) /\ LostInv(SendSave(w))
<1>1. PICK u \in Window : u = SendSave(w)
  BY SendSaveIs
<1>2. /\ Shown(u) = Shown(w) /\ Idle(w, u) /\ u.dirty = w.dirty
      /\ u.unsaved = NoChanges /\ u.token = None
      /\ u.saving # None /\ u.saving.model = Shown(w) /\ u.saving.changes = w.unsaved
      /\ u.saving.token = w.token /\ u.saving.done = None
  BY <1>1, SendSaveIs
<1>3. Holding(u) /\ w.token # None /\ w.unsaved \in Changes
  BY <1>2 DEF Idle, Holding, TokenInv, Token, Window
<1>4. SaveInv(u, st, NoChanges)
  <2>1. Within(u, u.saving.model, u.unsaved, NoChanges)
    BY <1>2 DEF Within
  <2>2. ASSUME w.token = st.hw
        PROVE  Within(u, st.model, Add(u.unsaved, u.saving.changes), NoChanges)
    <3>1. Within(w, st.model, w.unsaved, NoChanges)
      BY <2>2 DEF SaveInv
    <3>2. PICK b \in Changes : b = Add(NoChanges, w.unsaved)
      BY <1>3, AddOf, NoChangesType
    <3>3. w.unsaved.cells \subseteq b.cells /\ (w.unsaved.structure => b.structure)
      BY <1>3, <3>2, AddOf, NoChangesType
    <3>4. Within(u, st.model, b, NoChanges)
      BY <1>2, <1>3, <3>1, <3>3, NoChangesType, WithinMore
    <3> QED
      BY <1>2, <3>2, <3>4
  <2>3. "ok" # None
    BY NoAnswer
  <2> QED
    BY <1>2, <2>1, <2>2, <2>3 DEF SaveInv
<1>5. TokenInv(u, st.hw, f)
  BY <1>2, <1>3 DEF TokenInv, Token, Idle
<1>6. StrandInv(u, st.hw)
  BY <1>2 DEF StrandInv, Idle
<1>7. LostInv(u)
  BY <1>2, NoAnswer DEF LostInv, Idle
<1> QED
  BY <1>1, <1>4, <1>5, <1>6, <1>7

\* The changes being made become unsaved ones.
LEMMA NotedOf ==
  ASSUME NEW w \in Window, NEW v \in Window, NEW st, NEW x \in Changes,
         Shown(v) = Shown(w), v.unsaved = Add(w.unsaved, x), v.saving = w.saving,
         v.token = w.token, v.dirty, SaveInv(w, st, x), Holding(w)
  PROVE  SaveInv(v, st, NoChanges)
<1>1. w.unsaved \in Changes
  BY DEF Window
<1>2. PICK b \in Changes : b = Add(w.unsaved, x)
  BY <1>1, AddOf
<1>3. w.unsaved.cells \cup x.cells \subseteq b.cells /\ (w.unsaved.structure \/ x.structure => b.structure)
  BY <1>1, <1>2, AddOf
<1>4. ASSUME NEW m, Within(w, m, w.unsaved, x) PROVE Within(v, m, b, NoChanges)
  BY <1>1, <1>3, <1>4, NoChangesType, WithinMore
<1>5. CASE w.saving = None
  BY <1>2, <1>4, <1>5 DEF SaveInv
<1>6. CASE w.saving # None
  <2>1. PICK ch \in Changes : ch = w.saving.changes
    BY <1>6 DEF Window, Save
  <2>2. PICK a \in Changes : a = Add(w.unsaved, ch)
    BY <1>1, AddOf
  <2>3. PICK d \in Changes : d = Add(b, ch)
    BY AddOf
  <2>4. a.cells \cup x.cells \subseteq d.cells /\ (a.structure \/ x.structure => d.structure)
    BY <1>1, <1>2, <2>2, <2>3, AddOf
  <2>5. ASSUME NEW m, Within(w, m, a, x) PROVE Within(v, m, d, NoChanges)
    BY <2>4, <2>5, NoChangesType, WithinMore
  <2> QED
    BY <1>2, <1>4, <1>6, <2>1, <2>2, <2>3, <2>5 DEF SaveInv
<1> QED
  BY <1>5, <1>6

LEMMA MarkedType ==
  ASSUME NEW w \in Window, NEW b \in Changes
  PROVE  [w EXCEPT !.unsaved = b, !.dirty = TRUE] \in Window
BY DEF Window

LEMMA WantedType ==
  ASSUME NEW w \in Window
  PROVE  [w EXCEPT !.wanted = TRUE] \in Window
BY DEF Window

\* save_changes: what is being done is saved, or will be.
LEMMA SaveChangesOf ==
  ASSUME NEW w \in Window, NEW x \in Changes, NEW st \in Stored, NEW f \in Nat,
         w.loading = None,
         SaveInv(w, st, x), TokenInv(w, st.hw, f), StrandInv(w, st.hw), LostInv(w)
  PROVE  /\ SaveChanges(w, x) \in Window /\ Shown(SaveChanges(w, x)) = Shown(w)
         /\ Engines(w, SaveChanges(w, x)) /\ Stacks(w, SaveChanges(w, x))
         /\ SaveChanges(w, x).db = w.db /\ SaveChanges(w, x).loading = None
         /\ SaveInv(SaveChanges(w, x), st, NoChanges) /\ TokenInv(SaveChanges(w, x), st.hw, f)
         /\ StrandInv(SaveChanges(w, x), st.hw) /\ LostInv(SaveChanges(w, x))
<1>1. CASE w.db = None
  <2>1. SaveChanges(w, x) = w
    BY <1>1 DEF SaveChanges
  <2>2. SaveInv(w, st, NoChanges)
    BY <1>1 DEF SaveInv, Holding
  <2> QED
    BY <2>1, <2>2, Reflexive
<1>2. CASE w.db # None
  <2>1. w.unsaved \in Changes /\ Holding(w)
    BY <1>2 DEF Window, Holding
  <2>2. PICK b \in Changes : b = Add(w.unsaved, x)
    BY <2>1, AddOf
  <2>3. PICK v : v = [w EXCEPT !.unsaved = b, !.dirty = TRUE]
    OBVIOUS
  <2>4. v \in Window
    BY <2>3, MarkedType
  <2>5. /\ Engines(w, v) /\ Stacks(w, v) /\ Idle(w, v) /\ v.model = w.model /\ v.held = w.held
        /\ v.unsaved = b /\ v.saving = w.saving /\ v.token = w.token /\ v.dirty
        /\ v.wanted = w.wanted
    BY <2>3, <2>4 DEF Window, Engines, Stacks, Idle
  <2>6. Shown(v) = Shown(w)
    BY <2>4, <2>5, ShownSame
  <2>7. SaveInv(v, st, NoChanges)
    BY <2>1, <2>2, <2>4, <2>5, <2>6, NotedOf
  <2>8. Holding(v) /\ TokenInv(v, st.hw, f)
    BY <2>1, <2>5 DEF TokenInv, Token, Holding, Idle
  <2>9. LostInv(v)
    BY <2>5 DEF LostInv, Idle
  <2>10. v.lost => v.failed
    BY <2>1, <2>5 DEF StrandInv, Idle
  <2>11. v.outside # None => v.failed \/ v.token # st.hw
    BY <2>1, <2>5 DEF StrandInv, Idle
  <2>12. CASE ~Writable(v)
    <3>1. SaveChanges(w, x) = v
      BY <1>2, <2>2, <2>3, <2>12 DEF SaveChanges
    <3>2. v.loading = None /\ (v.lost \/ v.outside # None)
      BY <2>8, <2>12 DEF Writable, Holding
    <3>3. v.saving = None
      BY <2>8, <3>2 DEF TokenInv
    <3>4. StrandInv(v, st.hw)
      BY <2>10, <2>11, <3>2, <3>3 DEF StrandInv
    <3> QED
      BY <2>4, <2>5, <2>6, <2>7, <2>8, <2>9, <3>1, <3>4 DEF Idle
  <2>13. CASE Writable(v) /\ v.saving # None
    <3>1. PICK u : u = [v EXCEPT !.wanted = TRUE]
      OBVIOUS
    <3>2. SaveChanges(w, x) = u
      BY <1>2, <2>2, <2>3, <2>13, <3>1 DEF SaveChanges
    <3>3. u \in Window
      BY <2>4, <3>1, WantedType
    <3>4. /\ Engines(v, u) /\ Stacks(v, u) /\ Idle(v, u) /\ u.model = v.model /\ u.held = v.held
          /\ u.unsaved = b /\ u.saving = v.saving /\ u.token = v.token /\ u.dirty = v.dirty
          /\ u.wanted = TRUE
      BY <2>4, <2>5, <3>1, <3>3 DEF Window, Engines, Stacks, Idle
    <3>5. Shown(u) = Shown(v)
      BY <2>4, <3>3, <3>4, ShownSame
    <3>6. SaveInv(u, st, NoChanges)
      <4>1. ASSUME NEW m, NEW ch, Within(v, m, ch, NoChanges) PROVE Within(u, m, ch, NoChanges)
        BY <3>5, <4>1, WithinSame
      <4> QED
        BY <2>5, <2>7, <2>8, <2>13, <3>4, <4>1 DEF SaveInv
    <3>7. TokenInv(u, st.hw, f)
      BY <2>8, <3>4 DEF TokenInv, Token, Holding, Idle
    <3>8. StrandInv(u, st.hw)
      BY <2>10, <2>11, <2>13, <3>4 DEF StrandInv, Idle
    <3>9. LostInv(u)
      BY <2>9, <3>4 DEF LostInv, Idle
    <3> QED
      BY <2>5, <2>6, <3>2, <3>3, <3>4, <3>5, <3>6, <3>7, <3>8, <3>9, EnginesTrans, StacksTrans DEF Idle
  <2>14. CASE Writable(v) /\ v.saving = None
    <3>1. SaveChanges(w, x) = SendSave(v)
      BY <1>2, <2>2, <2>3, <2>14 DEF SaveChanges
    <3>2. PICK u \in Window : u = SendSave(v)
      BY <2>4, SendSaveIs
    <3>3. Shown(u) = Shown(v) /\ Engines(v, u) /\ Stacks(v, u) /\ Idle(v, u)
      BY <2>4, <3>2, SendSaveIs
    <3>4. ~v.lost /\ v.outside = None
      BY <2>14 DEF Writable
    <3>5. /\ SaveInv(u, st, NoChanges) /\ TokenInv(u, st.hw, f)
          /\ StrandInv(u, st.hw) /\ LostInv(u)
      BY <2>4, <2>5, <2>7, <2>8, <2>9, <2>14, <3>2, <3>4, SendSaveOf
    <3> QED
      BY <2>5, <2>6, <3>1, <3>2, <3>3, <3>5, EnginesTrans, StacksTrans DEF Idle
  <2> QED
    BY <2>12, <2>13, <2>14
<1> QED
  BY <1>1, <1>2

\* What land_save takes from a save that ended.
Adopted(w, hw) == [Adopt([w EXCEPT !.saving = None], w.saving, hw) EXCEPT !.wanted = FALSE]

Taken(w, v) ==
  /\ v \in Window /\ Shown(v) = Shown(w) /\ Engines(w, v) /\ Stacks(w, v)
  /\ v.db = w.db /\ v.loading = w.loading /\ v.loadedAt = w.loadedAt
  /\ v.dirty = w.dirty /\ v.saving = None /\ v.wanted = FALSE
  /\ w.saving.done = "ok" =>
       /\ v.token = w.saving.token /\ v.unsaved = w.unsaved
       /\ v.lost = w.lost /\ v.outside = w.outside
  /\ w.saving.done = "lost" =>
       /\ v.token = w.token /\ v.unsaved = w.unsaved
       /\ v.lost /\ v.failed /\ v.outside = w.outside
  /\ w.saving.done \notin {"ok", "lost"} =>
       /\ v.token = w.saving.token /\ v.unsaved = Add(w.unsaved, w.saving.changes)
       /\ v.lost = w.lost /\ v.failed

LEMMA AdoptIs ==
  ASSUME NEW w \in Window, NEW hw \in Nat, w.saving # None, w.saving.done # None
  PROVE  Taken(w, Adopted(w, hw))
<1>0. PICK v : v = Adopted(w, hw)
  OBVIOUS
<1>1. PICK s \in Save : s = w.saving
  BY DEF Window
<1>2. PICK t \in Window : t = [w EXCEPT !.saving = None]
  <2>1. [w EXCEPT !.saving = None] \in Window
    BY DEF Window
  <2> QED
    BY <2>1
<1>3. t.saving = None /\ Engines(w, t) /\ Stacks(w, t) /\ t.model = w.model /\ t.held = w.held
      /\ t.db = w.db /\ t.loading = w.loading /\ t.loadedAt = w.loadedAt /\ t.dirty = w.dirty
      /\ t.token = w.token /\ t.unsaved = w.unsaved /\ t.lost = w.lost /\ t.outside = w.outside
  BY <1>2 DEF Window, Engines, Stacks
<1>4. s.token \in Nat \cup {None} /\ s.changes \in Changes /\ t.unsaved \in Changes
  BY DEF Save, Window
<1>5. v = [Adopt(t, s, hw) EXCEPT !.wanted = FALSE]
  BY <1>0, <1>1, <1>2 DEF Adopted
<1>6. ASSUME s.done = "ok" PROVE Taken(w, v)
  <2>1. v = [[t EXCEPT !.token = s.token, !.failed = FALSE] EXCEPT !.wanted = FALSE]
    BY <1>5, <1>6 DEF Adopt
  <2>2. v = [t EXCEPT !.token = s.token, !.failed = FALSE, !.wanted = FALSE]
    BY <2>1
  <2>3. v \in Window
    BY <1>4, <2>2 DEF Window
  <2>6. Engines(t, v) /\ Stacks(t, v) /\ v.model = t.model /\ v.held = t.held
    BY <2>2, <2>3 DEF Window, Engines, Stacks
  <2>7. Engines(w, v) /\ Stacks(w, v)
    BY <1>3, <2>6, EnginesTrans, StacksTrans
  <2>4. /\ v.db = w.db /\ v.loading = w.loading /\ v.loadedAt = w.loadedAt
        /\ v.dirty = w.dirty /\ v.saving = None /\ v.wanted = FALSE
        /\ v.token = s.token /\ v.unsaved = w.unsaved /\ v.lost = w.lost /\ v.outside = w.outside
    <3>1. v.db = w.db /\ v.loading = w.loading /\ v.loadedAt = w.loadedAt /\ v.saving = None
      <4>1. v.db = t.db /\ v.loading = t.loading
        BY <2>2, <2>3 DEF Window
      <4>2. v.loadedAt = t.loadedAt /\ v.saving = t.saving
        BY <2>2, <2>3 DEF Window
      <4> QED
        BY <1>3, <4>1, <4>2
    <3>2. v.dirty = w.dirty /\ v.wanted = FALSE
      BY <1>3, <2>2, <2>3 DEF Window
    <3>3. v.token = s.token /\ v.unsaved = w.unsaved
      BY <1>3, <2>2, <2>3 DEF Window
    <3>4. v.lost = w.lost /\ v.outside = w.outside
      BY <1>3, <2>2, <2>3 DEF Window
    <3> QED
      BY <3>1, <3>2, <3>3, <3>4
  <2>5. Shown(v) = Shown(w)
    BY <1>3, <2>3, <2>6, ShownSame
  <2> QED
    BY <1>1, <1>6, <2>3, <2>4, <2>5, <2>7 DEF Taken
<1>7. ASSUME s.done = "lost" PROVE Taken(w, v)
  <2>1. v = [[t EXCEPT !.lost = TRUE, !.failed = TRUE] EXCEPT !.wanted = FALSE]
    BY <1>5, <1>7 DEF Adopt
  <2>2. v = [t EXCEPT !.lost = TRUE, !.failed = TRUE, !.wanted = FALSE]
    BY <2>1
  <2>3. v \in Window
    BY <1>4, <2>2 DEF Window
  <2>6. Engines(t, v) /\ Stacks(t, v) /\ v.model = t.model /\ v.held = t.held
    BY <2>2, <2>3 DEF Window, Engines, Stacks
  <2>7. Engines(w, v) /\ Stacks(w, v)
    BY <1>3, <2>6, EnginesTrans, StacksTrans
  <2>4. /\ v.db = w.db /\ v.loading = w.loading /\ v.loadedAt = w.loadedAt
        /\ v.dirty = w.dirty /\ v.saving = None /\ v.wanted = FALSE
        /\ v.token = w.token /\ v.unsaved = w.unsaved /\ v.outside = w.outside /\ v.lost /\ v.failed
    <3>1. v.db = w.db /\ v.loading = w.loading /\ v.loadedAt = w.loadedAt /\ v.saving = None
      <4>1. v.db = t.db /\ v.loading = t.loading
        BY <2>2, <2>3 DEF Window
      <4>2. v.loadedAt = t.loadedAt /\ v.saving = t.saving
        BY <2>2, <2>3 DEF Window
      <4> QED
        BY <1>3, <4>1, <4>2
    <3>2. v.dirty = w.dirty /\ v.wanted = FALSE
      BY <1>3, <2>2, <2>3 DEF Window
    <3>3. v.token = w.token /\ v.unsaved = w.unsaved /\ v.outside = w.outside
      BY <1>3, <2>2, <2>3 DEF Window
    <3>4. v.lost /\ v.failed
      BY <1>3, <2>2, <2>3 DEF Window
    <3> QED
      BY <3>1, <3>2, <3>3, <3>4
  <2>5. Shown(v) = Shown(w)
    BY <1>3, <2>3, <2>6, ShownSame
  <2> QED
    BY <1>1, <1>7, <2>3, <2>4, <2>5, <2>7 DEF Taken
<1>8. ASSUME s.done \notin {"ok", "lost"} PROVE Taken(w, v)
  <2>1. PICK o \in Nat \cup {None} : o = IF s.done = "conflict" THEN hw ELSE t.outside
    <3>1. t.outside \in Nat \cup {None}
      BY DEF Window
    <3> QED
      BY <3>1
  <2>2. PICK b \in Changes : b = Add(t.unsaved, s.changes)
    BY <1>4, AddOf
  <2>3. v = [t EXCEPT !.token = s.token, !.failed = TRUE, !.unsaved = b, !.outside = o, !.wanted = FALSE]
    <3>1. Adopt(t, s, hw) = [t EXCEPT !.token = s.token, !.failed = TRUE, !.unsaved = b, !.outside = o]
      BY <1>8, <2>1, <2>2 DEF Adopt
    <3> QED
      BY <1>5, <3>1
  <2>4. v \in Window
    BY <1>4, <2>3 DEF Window
  <2>7. Engines(t, v) /\ Stacks(t, v) /\ v.model = t.model /\ v.held = t.held
    BY <2>3, <2>4 DEF Window, Engines, Stacks
  <2>8. Engines(w, v) /\ Stacks(w, v)
    BY <1>3, <2>7, EnginesTrans, StacksTrans
  <2>5. /\ v.db = w.db /\ v.loading = w.loading /\ v.loadedAt = w.loadedAt
        /\ v.dirty = w.dirty /\ v.saving = None /\ v.wanted = FALSE
        /\ v.token = s.token /\ v.unsaved = b /\ v.lost = w.lost /\ v.failed
    <3>1. v.db = w.db /\ v.loading = w.loading /\ v.loadedAt = w.loadedAt /\ v.saving = None
      <4>1. v.db = t.db /\ v.loading = t.loading
        BY <2>3, <2>4 DEF Window
      <4>2. v.loadedAt = t.loadedAt /\ v.saving = t.saving
        BY <2>3, <2>4 DEF Window
      <4> QED
        BY <1>3, <4>1, <4>2
    <3>2. v.dirty = w.dirty /\ v.wanted = FALSE
      BY <1>3, <2>3, <2>4 DEF Window
    <3>3. v.token = s.token /\ v.unsaved = b
      BY <1>3, <2>3, <2>4 DEF Window
    <3>4. v.lost = w.lost /\ v.failed
      BY <1>3, <2>3, <2>4 DEF Window
    <3> QED
      BY <3>1, <3>2, <3>3, <3>4
  <2>6. Shown(v) = Shown(w)
    BY <1>3, <2>4, <2>7, ShownSame
  <2> QED
    BY <1>1, <1>3, <1>8, <2>2, <2>4, <2>5, <2>6, <2>8 DEF Taken
<1> QED
  BY <1>0, <1>6, <1>7, <1>8

\* An ended save leaves what it did not write unsaved.
LEMMA AdoptOf ==
  ASSUME NEW w \in Window, NEW st \in Stored, NEW f \in Nat, w.saving # None, w.saving.done # None,
         SaveInv(w, st, NoChanges), TokenInv(w, st.hw, f), StrandInv(w, st.hw), LostInv(w),
         NEW v \in Window, v = Adopted(w, st.hw)
  PROVE  /\ Holding(w) /\ Holding(v) /\ v.saving = None /\ w.dirty /\ v.dirty
         /\ SaveInv(v, st, NoChanges) /\ TokenInv(v, st.hw, f) /\ LostInv(v)
         /\ v.lost => v.failed
         /\ v.outside # None => v.failed
         /\ v.unsaved # NoChanges => v.failed \/ (w.wanted /\ Writable(v))
<1>1. st.hw \in Nat /\ st.hw # None
  BY NoneAssumption DEF Stored
<1>2. Holding(w) /\ w.saving \in Save
  BY DEF TokenInv, Window
<1>3. Taken(w, v)
  BY <1>1, AdoptIs
<1>4. Holding(v)
  BY <1>2, <1>3 DEF Holding, Taken
<1>5. w.token = None /\ ~w.lost /\ w.outside = None
  BY <1>2 DEF TokenInv
<1>6. /\ w.saving.token # None /\ w.saving.token <= st.hw
      /\ f > w.loadedAt => f > w.saving.token
  BY <1>2 DEF TokenInv, Token
<1>7. w.dirty /\ v.dirty
  BY <1>2, <1>3 DEF SaveInv, Taken
<1>8. TokenInv(v, st.hw, f)
  <2>1. CASE w.saving.done = "lost"
    BY <1>3, <1>4, <1>5, <2>1 DEF TokenInv, Token, Taken
  <2>2. CASE w.saving.done # "lost"
    BY <1>3, <1>4, <1>6, <2>2 DEF TokenInv, Token, Taken
  <2> QED
    BY <2>1, <2>2
<1>9. LostInv(v)
  BY <1>3 DEF LostInv, Taken
<1>10. SaveInv(v, st, NoChanges)
  <2>1. ASSUME NEW ch, Within(w, st.model, ch, NoChanges) PROVE Within(v, st.model, ch, NoChanges)
    BY <1>3, <2>1, WithinSame DEF Taken
  <2>2. CASE w.saving.done = "lost"
    BY <1>1, <1>3, <1>5, <1>7, <2>2 DEF SaveInv, Taken
  <2>3. CASE w.saving.done = "ok"
    BY <1>2, <1>3, <1>7, <2>1, <2>3 DEF SaveInv, Taken
  <2>4. CASE w.saving.done \notin {"ok", "lost"}
    BY <1>2, <1>3, <1>7, <2>1, <2>4 DEF SaveInv, Taken
  <2> QED
    BY <2>2, <2>3, <2>4
<1>11. v.lost => v.failed
  BY <1>3, <1>5 DEF Taken
<1>12. v.outside # None => v.failed
  BY <1>3, <1>5 DEF Taken
<1>13. v.unsaved # NoChanges => v.failed \/ (w.wanted /\ Writable(v))
  BY <1>2, <1>3, <1>4, <1>5 DEF StrandInv, Writable, Holding, Taken
<1> QED
  BY <1>2, <1>3, <1>4, <1>7, <1>8, <1>9, <1>10, <1>11, <1>12, <1>13 DEF Taken

LEMMA DirtyIs ==
  ASSUME NEW w \in Window, NEW d \in BOOLEAN
  PROVE  [w EXCEPT !.dirty = d] \in Window
BY DEF Window

LEMMA DirtySame ==
  ASSUME NEW w \in Window, w.dirty
  PROVE  [w EXCEPT !.dirty = TRUE] = w
<1>1. w.dirty = TRUE
  BY DEF Window
<1> QED
  BY <1>1 DEF Window

\* land_save: and what was wanted is sent.
LEMMA LandSaveOf ==
  ASSUME NEW w \in Window, NEW st \in Stored, NEW f \in Nat, w.saving # None, w.saving.done # None,
         SaveInv(w, st, NoChanges), TokenInv(w, st.hw, f), StrandInv(w, st.hw), LostInv(w)
  PROVE  /\ LandSave(w, st.hw) \in Window /\ Shown(LandSave(w, st.hw)) = Shown(w)
         /\ Engines(w, LandSave(w, st.hw)) /\ Stacks(w, LandSave(w, st.hw))
         /\ LandSave(w, st.hw).db = w.db /\ LandSave(w, st.hw).loading = w.loading
         /\ SaveInv(LandSave(w, st.hw), st, NoChanges) /\ TokenInv(LandSave(w, st.hw), st.hw, f)
         /\ StrandInv(LandSave(w, st.hw), st.hw) /\ LostInv(LandSave(w, st.hw))
<1>1. st.hw \in Nat
  BY DEF Stored
<1>2. PICK v : v = Adopted(w, st.hw)
  OBVIOUS
<1>3. /\ v \in Window /\ Shown(v) = Shown(w) /\ Engines(w, v) /\ Stacks(w, v)
      /\ v.db = w.db /\ v.loading = w.loading
  BY <1>1, <1>2, AdoptIs DEF Taken
<1>4. /\ Holding(w) /\ Holding(v) /\ v.saving = None /\ w.dirty /\ v.dirty
      /\ SaveInv(v, st, NoChanges) /\ TokenInv(v, st.hw, f) /\ LostInv(v)
      /\ v.lost => v.failed
      /\ v.outside # None => v.failed
      /\ v.unsaved # NoChanges => v.failed \/ (w.wanted /\ Writable(v))
  BY <1>2, <1>3, AdoptOf
<1>5. CASE w.wanted /\ Writable(v)
  <2>1. PICK u \in Window : u = SendSave(v)
    BY <1>3, SendSaveIs
  <2>2. Shown(u) = Shown(v) /\ Engines(v, u) /\ Stacks(v, u) /\ Idle(v, u) /\ u.dirty
    BY <1>3, <1>4, <2>1, SendSaveIs
  <2>3. LandSave(w, st.hw) = u
    BY <1>2, <1>5, <2>1, <2>2, DirtySame DEF LandSave, Adopted
  <2>4. SaveInv(u, st, NoChanges) /\ TokenInv(u, st.hw, f) /\ StrandInv(u, st.hw) /\ LostInv(u)
    BY <1>3, <1>4, <1>5, <2>1, SendSaveOf DEF Writable
  <2> QED
    BY <1>3, <2>2, <2>3, <2>4, EnginesTrans, StacksTrans DEF Idle
<1>6. CASE ~(w.wanted /\ Writable(v))
  <2>1. PICK d \in BOOLEAN : d = (v.unsaved # NoChanges)
    OBVIOUS
  <2>2. PICK u : u = [v EXCEPT !.dirty = d]
    OBVIOUS
  <2>3. LandSave(w, st.hw) = u
    BY <1>2, <1>6, <2>1, <2>2 DEF LandSave, Adopted
  <2>4. u \in Window
    BY <1>3, <2>2, DirtyIs
  <2>5. /\ Engines(v, u) /\ Stacks(v, u) /\ Idle(v, u) /\ u.model = v.model /\ u.held = v.held
        /\ u.saving = v.saving /\ u.token = v.token /\ u.unsaved = v.unsaved
    BY <1>3, <2>2, <2>4 DEF Window, Engines, Stacks, Idle
  <2>6. u.dirty = d
    BY <1>3, <2>2, <2>4 DEF Window
  <2>7. Shown(u) = Shown(v)
    BY <1>3, <2>4, <2>5, ShownSame
  <2>8. SaveInv(u, st, NoChanges)
    <3>1. ASSUME NEW ch, Within(v, st.model, ch, NoChanges) PROVE Within(u, st.model, ch, NoChanges)
      BY <2>7, <3>1, WithinSame
    <3> QED
      BY <1>4, <2>1, <2>5, <2>6, <3>1 DEF SaveInv
  <2>9. TokenInv(u, st.hw, f)
    BY <1>4, <2>5 DEF TokenInv, Token, Holding, Idle
  <2>10. StrandInv(u, st.hw)
    BY <1>4, <1>6, <2>5 DEF StrandInv, Idle
  <2>11. LostInv(u)
    BY <1>4, <2>5 DEF LostInv, Idle
  <2> QED
    BY <1>3, <2>3, <2>4, <2>5, <2>7, <2>8, <2>9, <2>10, <2>11, EnginesTrans, StacksTrans DEF Idle
<1> QED
  BY <1>5, <1>6

-----------------------------------------------------------------------------
(* Commands. *)

LEMMA WinKept ==
  ASSUME NEW w \in Window, NEW u \in Window, NEW st, NEW f, WinInv(w, st, f),
         Ledger(w, u), Shown(u) = Shown(w), BuildInv(u)
  PROVE  WinInv(u, st, f)
<1>1. SaveInv(u, st, NoChanges)
  BY SaveKept DEF WinInv
<1> QED
  BY <1>1, LedgerKeeps DEF WinInv

\* All that x does not name is shown as before.
Differs(w, u, x) ==
  /\ \A c \in Cell : Shown(u).cells[c] # Shown(w).cells[c] => c \in x.cells
  /\ Shown(u).form # Shown(w).form => x.structure

LEMMA ChangedOf ==
  ASSUME NEW w \in Window, NEW u \in Window, NEW st, NEW x \in Changes,
         Ledger(w, u), SaveInv(w, st, NoChanges), Differs(w, u, x)
  PROVE  SaveInv(u, st, x)
<1>1. ASSUME NEW m, NEW ch, Within(w, m, ch, NoChanges) PROVE Within(u, m, ch, x)
  BY <1>1, NoChangesType DEF Within, Differs
<1>2. Holding(w) <=> Holding(u)
  BY DEF Ledger, Holding
<1>3. CASE w.saving = None
  BY <1>1, <1>2, <1>3 DEF Ledger, SaveInv
<1>4. CASE w.saving # None
  BY <1>1, <1>2, <1>4 DEF Ledger, SaveInv
<1> QED
  BY <1>3, <1>4

\* A command on w has led to u.
Done(w, u, st, f) ==
  u \in Window /\ WinInv(u, st, f) /\ Stacks(w, u) /\ u.db = w.db /\ u.loading = None

LEMMA DoneTrans ==
  ASSUME NEW a, NEW b, NEW c, NEW st, NEW f, Done(a, b, st, f), Done(b, c, st, f)
  PROVE  Done(a, c, st, f)
BY StacksTrans DEF Done

\* A change x of what is shown, in the engine or not, and its save.
LEMMA SavedOf ==
  ASSUME NEW w \in Window, NEW t \in Window, NEW x \in Changes, NEW st \in Stored, NEW f \in Nat,
         w.loading = None, WinInv(w, st, f), Ledger(w, t), Stacks(w, t), Differs(w, t, x)
  PROVE  /\ SaveChanges(t, x) \in Window /\ Shown(SaveChanges(t, x)) = Shown(t)
         /\ Stacks(w, SaveChanges(t, x))
         /\ SaveChanges(t, x).db = w.db /\ SaveChanges(t, x).loading = None
         /\ Engines(t, SaveChanges(t, x))
         /\ BuildInv(SaveChanges(t, x)) => WinInv(SaveChanges(t, x), st, f)
<1>1. SaveInv(t, st, x)
  BY ChangedOf DEF WinInv
<1>2. TokenInv(t, st.hw, f) /\ StrandInv(t, st.hw) /\ LostInv(t)
  BY LedgerKeeps DEF WinInv
<1>3. t.loading = None /\ t.db = w.db
  BY DEF Ledger
<1>4. PICK u : u = SaveChanges(t, x)
  OBVIOUS
<1>5. /\ u \in Window /\ Shown(u) = Shown(t) /\ Engines(t, u) /\ Stacks(t, u)
      /\ u.db = t.db /\ u.loading = None
      /\ SaveInv(u, st, NoChanges) /\ TokenInv(u, st.hw, f)
      /\ StrandInv(u, st.hw) /\ LostInv(u)
  BY <1>1, <1>2, <1>3, <1>4, SaveChangesOf
<1>6. LoadInv(u, st)
  BY <1>5 DEF LoadInv
<1> QED
  BY <1>3, <1>4, <1>5, <1>6, StacksTrans DEF WinInv

LEMMA PutCellOf ==
  ASSUME NEW w \in Window, NEW e \in Edit, NEW st \in Stored, NEW f \in Nat,
         w.loading = None, WinInv(w, st, f)
  PROVE  /\ Done(w, PutCell(w, e.at, e.value), st, f)
         /\ Edited(w, PutCell(w, e.at, e.value), e)
<1>1. PICK v \in Window : v = WriteInput(w, e.at, e.value)
  BY WriteInputOf
<1>2. Edited(w, v, e) /\ Ledger(w, v) /\ Engines(w, v) /\ Stacks(w, v)
  BY <1>1, WriteInputOf
<1>3. PICK t \in Window : t = PushEngine(v, e.at, e.value)
  BY <1>2, PushEngineOf DEF WinInv
<1>4. Shown(t) = Shown(v) /\ Ledger(v, t) /\ Stacks(v, t) /\ BuildInv(t)
  BY <1>2, <1>3, PushEngineOf DEF WinInv
<1>5. Ledger(w, t) /\ Stacks(w, t) /\ Edited(w, t, e)
  BY <1>2, <1>4, LedgerTrans, StacksTrans DEF Edited
<1>6. PICK x \in Changes : x = [cells |-> {e.at}, structure |-> FALSE]
  <2>1. [cells |-> {e.at}, structure |-> FALSE] \in Changes
    BY DEF Changes, Edit
  <2> QED
    BY <2>1
<1>7. Differs(w, t, x)
  <2>1. Shown(w).cells \in Cells
    BY ShownOf, ModelOf
  <2>2. \A c \in Cell : c # e.at => Shown(t).cells[c] = Shown(w).cells[c]
    BY <1>5, <2>1, Put1Type DEF Edited
  <2>3. Shown(t).form = Shown(w).form
    BY <1>5 DEF Edited
  <2> QED
    BY <1>6, <2>2, <2>3 DEF Differs
<1>8. PICK u : u = SaveChanges(t, x)
  OBVIOUS
<1>9. /\ u \in Window /\ Shown(u) = Shown(t) /\ Stacks(w, u) /\ u.db = w.db /\ u.loading = None
      /\ Engines(t, u) /\ (BuildInv(u) => WinInv(u, st, f))
  BY <1>5, <1>7, <1>8, SavedOf
<1>10. BuildInv(u)
  BY <1>4, <1>9, BuildKept
<1>11. PutCell(w, e.at, e.value) = u
  BY <1>1, <1>3, <1>6, <1>8 DEF PutCell
<1> QED
  BY <1>5, <1>9, <1>10, <1>11 DEF Done, Edited

\* A model or a form of it, put in place of the one shown, before or after its build.
LEMMA PlacedOf ==
  ASSUME NEW w \in Window, NEW m \in Models
  PROVE  /\ [ModelMut(w) EXCEPT !.model = m] \in Window
         /\ Shown([ModelMut(w) EXCEPT !.model = m]) = m
         /\ Ledger(w, [ModelMut(w) EXCEPT !.model = m])
         /\ Stacks(w, [ModelMut(w) EXCEPT !.model = m])
<1>1. PICK v \in Window : v = ModelMut(w)
  BY ModelMutOf
<1>2. Ledger(w, v) /\ Stacks(w, v) /\ v.held = <<>>
  BY <1>1, ModelMutOf
<1>3. PICK u : u = [v EXCEPT !.model = m]
  OBVIOUS
<1>4. u \in Window
  BY <1>3 DEF Window
<1>5. Ledger(v, u) /\ Stacks(v, u) /\ u.model = m /\ u.held = v.held
  BY <1>3, <1>4 DEF Window, Ledger, Stacks
<1>6. Shown(u) = m
  BY <1>2, <1>4, <1>5, ShownOf
<1> QED
  BY <1>1, <1>2, <1>3, <1>4, <1>5, <1>6, LedgerTrans, StacksTrans

LEMMA BetweenOf ==
  ASSUME NEW w, NEW u, NEW old, NEW new, Shown(w) = old, Shown(u) = new
  PROVE  Between(old, new) \in Changes /\ Differs(w, u, Between(old, new))
BY DEF Between, Changes, Differs

\* A new model, its save, and its engine.
LEMMA SwapOf ==
  ASSUME NEW w \in Window, NEW t \in Window, NEW x \in Changes, NEW st \in Stored, NEW f \in Nat,
         w.loading = None, WinInv(w, st, f), Ledger(w, t), Stacks(w, t), Differs(w, t, x)
  PROVE  /\ Done(w, RebuildEngine(SaveChanges(t, x)), st, f)
         /\ Shown(RebuildEngine(SaveChanges(t, x))) = Shown(t)
<1>1. SaveInv(t, st, x) /\ TokenInv(t, st.hw, f) /\ StrandInv(t, st.hw) /\ LostInv(t)
      /\ t.loading = None /\ t.db = w.db
  BY ChangedOf, LedgerKeeps DEF WinInv, Ledger
<1>2. PICK v : v = SaveChanges(t, x)
  OBVIOUS
<1>3. /\ v \in Window /\ Shown(v) = Shown(t) /\ Stacks(t, v) /\ v.db = w.db /\ v.loading = None
      /\ SaveInv(v, st, NoChanges) /\ TokenInv(v, st.hw, f) /\ StrandInv(v, st.hw) /\ LostInv(v)
  BY <1>1, <1>2, SaveChangesOf
<1>4. PICK u \in Window : u = RebuildEngine(v)
  BY <1>3, RebuildOf
<1>5. Shown(u) = Shown(v) /\ Ledger(v, u) /\ Stacks(v, u) /\ BuildInv(u)
  BY <1>3, <1>4, RebuildOf
<1>6. /\ SaveInv(u, st, NoChanges) /\ TokenInv(u, st.hw, f) /\ StrandInv(u, st.hw) /\ LostInv(u)
      /\ u.db = w.db /\ u.loading = None
  BY <1>3, <1>5, SaveKept, LedgerKeeps DEF Ledger
<1>7. WinInv(u, st, f)
  BY <1>5, <1>6 DEF WinInv, LoadInv
<1> QED
  BY <1>2, <1>3, <1>4, <1>5, <1>6, <1>7, StacksTrans DEF Done

\* swap_model.
LEMMA SwapModelOf ==
  ASSUME NEW w \in Window, NEW m \in Models, NEW st \in Stored, NEW f \in Nat,
         w.loading = None, WinInv(w, st, f)
  PROVE  Done(w, SwapModel(w, m), st, f) /\ Shown(SwapModel(w, m)) = m
<1>1. PICK t \in Window : t = [ModelMut(w) EXCEPT !.model = m]
  BY PlacedOf
<1>2. Shown(t) = m /\ Ledger(w, t) /\ Stacks(w, t)
  BY <1>1, PlacedOf
<1>3. PICK x \in Changes : x = Between(Shown(w), m) /\ Differs(w, t, x)
  BY <1>2, BetweenOf
<1>4. SwapModel(w, m) = RebuildEngine(SaveChanges(t, x))
  BY <1>1, <1>3 DEF SwapModel
<1> QED
  BY <1>2, <1>3, <1>4, SwapOf

\* swap_structure.
LEMMA SwapStructureOf ==
  ASSUME NEW w \in Window, NEW form \in Formula \cup {None}, NEW st \in Stored, NEW f \in Nat,
         w.loading = None, WinInv(w, st, f)
  PROVE  /\ Done(w, SwapStructure(w, form), st, f)
         /\ Shown(SwapStructure(w, form)) = [Shown(w) EXCEPT !.form = form]
<1>1. PICK m \in Models : m = [Shown(w) EXCEPT !.form = form]
  BY ShownOf, WithForm
<1>2. m.cells = Shown(w).cells
  BY <1>1, ShownOf, WithForm
<1>3. PICK t \in Window : t = [ModelMut(w) EXCEPT !.model = m]
  BY PlacedOf
<1>4. Shown(t) = m /\ Ledger(w, t) /\ Stacks(w, t)
  BY <1>3, PlacedOf
<1>5. PICK x \in Changes : x = [cells |-> {}, structure |-> TRUE]
  <2>1. [cells |-> {}, structure |-> TRUE] \in Changes
    BY DEF Changes
  <2> QED
    BY <2>1
<1>6. Differs(w, t, x)
  BY <1>2, <1>4, <1>5 DEF Differs
<1>7. SwapStructure(w, form) = RebuildEngine(SaveChanges(t, x))
  <2>1. PICK v \in Window : v = ModelMut(w) /\ v.model = Shown(w)
    BY ModelMutOf
  <2>2. [v EXCEPT !.model.form = form] = [v EXCEPT !.model = m]
    BY <1>1, <2>1 DEF Window
  <2> QED
    BY <1>3, <1>5, <2>1, <2>2 DEF SwapStructure
<1> QED
  BY <1>1, <1>4, <1>6, <1>7, SwapOf

\* run_csv_import rebuilds first.
Imported(w, m) ==
  SaveChanges(RebuildEngine([ModelMut(w) EXCEPT !.model = m]), Between(Shown(w), m))

LEMMA ImportOf ==
  ASSUME NEW w \in Window, NEW m \in Models, NEW st \in Stored, NEW f \in Nat,
         w.loading = None, WinInv(w, st, f)
  PROVE  Done(w, Imported(w, m), st, f) /\ Shown(Imported(w, m)) = m
<1>1. PICK t \in Window : t = [ModelMut(w) EXCEPT !.model = m]
  BY PlacedOf
<1>2. Shown(t) = m /\ Ledger(w, t) /\ Stacks(w, t)
  BY <1>1, PlacedOf
<1>3. PICK v \in Window : v = RebuildEngine(t)
  BY RebuildOf
<1>4. Shown(v) = m /\ Ledger(t, v) /\ Stacks(t, v) /\ BuildInv(v)
  BY <1>2, <1>3, RebuildOf
<1>5. Ledger(w, v) /\ Stacks(w, v)
  BY <1>2, <1>4, LedgerTrans, StacksTrans
<1>6. PICK x \in Changes : x = Between(Shown(w), m) /\ Differs(w, v, x)
  BY <1>4, BetweenOf
<1>7. PICK u : u = SaveChanges(v, x)
  OBVIOUS
<1>10. Imported(w, m) = u
  BY <1>1, <1>3, <1>6, <1>7 DEF Imported
<1>8. /\ u \in Window /\ Shown(u) = Shown(v) /\ Stacks(w, u) /\ u.db = w.db /\ u.loading = None
      /\ Engines(v, u) /\ (BuildInv(u) => WinInv(u, st, f))
  BY <1>5, <1>6, <1>7, SavedOf
<1>9. BuildInv(u)
  BY <1>4, <1>8, BuildKept
<1> QED
  BY <1>4, <1>8, <1>9, <1>10 DEF Done

LEMMA NoSnapshot ==
  ASSUME NEW w \in Window
  PROVE  [w EXCEPT !.snapshot = None] \in Window
BY DEF Window

\* put_cell, refused: all is shown as before.
LEMMA RefusedOf ==
  ASSUME NEW w \in Window, NEW e \in Edit, NEW lives \in BOOLEAN, NEW st \in Stored, NEW f \in Nat,
         w.loading = None, WinInv(w, st, f)
  PROVE  /\ Done(w, Refused(w, e.at, e.value, lives), st, f)
         /\ Shown(Refused(w, e.at, e.value, lives)) = Shown(w)
<1>1. Shown(w).cells \in Cells /\ e.at \in Cell
  BY ShownOf, ModelOf DEF Edit
<1>2. PICK p \in Edit : p.at = e.at /\ p.value = Shown(w).cells[e.at]
  <2>1. Shown(w).cells[e.at] \in Value \cup {None}
    BY <1>1 DEF Cells
  <2>2. /\ [at |-> e.at, value |-> Shown(w).cells[e.at]] \in Edit
        /\ [at |-> e.at, value |-> Shown(w).cells[e.at]].at = e.at
        /\ [at |-> e.at, value |-> Shown(w).cells[e.at]].value = Shown(w).cells[e.at]
    BY <1>1, <2>1 DEF Edit
  <2> QED
    BY <2>2
<1>3. PICK v \in Window : v = WriteInput(w, e.at, e.value)
  BY WriteInputOf
<1>4. Edited(w, v, e) /\ Ledger(w, v) /\ Engines(w, v) /\ Stacks(w, v)
  BY <1>3, WriteInputOf
<1>5. PICK t \in Window : t = WriteInput(v, p.at, p.value)
  BY WriteInputOf
<1>6. Edited(v, t, p) /\ Ledger(v, t) /\ Engines(v, t) /\ Stacks(v, t)
  BY <1>5, WriteInputOf
<1>7. Shown(t) = Shown(w)
  <2>1. Shown(v).cells \in Cells /\ Shown(v) \in Models /\ Shown(t) \in Models /\ Shown(w) \in Models
    BY ShownOf, ModelOf
  <2>2. Shown(t).cells \in Cells
    BY <2>1, ModelOf
  <2>3. \A c \in Cell : Shown(v).cells[c] = IF c = e.at THEN e.value ELSE Shown(w).cells[c]
    BY <1>1, <1>4, Put1Type DEF Edited
  <2>4. \A c \in Cell : Shown(t).cells[c] = IF c = p.at THEN p.value ELSE Shown(v).cells[c]
    BY <1>6, <2>1, Put1Type DEF Edited
  <2>5. Shown(t).cells = Shown(w).cells
    BY <1>1, <1>2, <2>2, <2>3, <2>4, SameCells
  <2> QED
    BY <1>4, <1>6, <2>1, <2>5, SameModel DEF Edited
<1>8. Ledger(w, t) /\ Engines(w, t) /\ Stacks(w, t)
  BY <1>4, <1>6, LedgerTrans, EnginesTrans, StacksTrans
<1>9. t.db = w.db /\ t.loading = None
  BY <1>8 DEF Ledger
<1>10. CASE lives
  <2>1. Refused(w, e.at, e.value, lives) = t
    BY <1>2, <1>3, <1>5, <1>10 DEF Refused, Prior
  <2>2. BuildInv(t)
    BY <1>7, <1>8, BuildKept DEF WinInv
  <2>3. WinInv(t, st, f)
    BY <1>7, <1>8, <2>2, WinKept
  <2> QED
    BY <1>7, <1>8, <1>9, <2>1, <2>3 DEF Done
<1>11. CASE ~lives
  <2>1. PICK s : s = [t EXCEPT !.snapshot = None]
    OBVIOUS
  <2>2. s \in Window
    BY <2>1, NoSnapshot
  <2>3. Ledger(t, s) /\ Stacks(t, s) /\ s.model = t.model /\ s.held = t.held
    BY <2>1, <2>2 DEF Window, Ledger, Stacks
  <2>4. PICK u \in Window : u = RebuildEngine(s)
    BY <2>2, RebuildOf
  <2>5. Shown(u) = Shown(s) /\ Ledger(s, u) /\ Stacks(s, u) /\ BuildInv(u)
    BY <2>2, <2>4, RebuildOf
  <2>6. Shown(u) = Shown(w) /\ Ledger(w, u) /\ Stacks(w, u)
    BY <1>7, <1>8, <2>2, <2>3, <2>5, ShownSame, LedgerTrans, StacksTrans
  <2>7. WinInv(u, st, f)
    BY <2>5, <2>6, WinKept
  <2>8. u.db = w.db /\ u.loading = None
    BY <2>6 DEF Ledger
  <2>9. Refused(w, e.at, e.value, lives) = u
    BY <1>2, <1>3, <1>5, <1>11, <2>1, <2>4 DEF Refused, Prior
  <2> QED
    BY <2>6, <2>7, <2>8, <2>9 DEF Done
<1> QED
  BY <1>10, <1>11

\* r is what putting the edits es in w leads to, with the edits that put them back.
PutGood(w, es, st, f, r) ==
  /\ Done(w, r.win, st, f)
  /\ Shown(r.win).cells = Put(Shown(w).cells, es) /\ Shown(r.win).form = Shown(w).form
  /\ r.inverse \in Seq(Edit) /\ Put(Shown(r.win).cells, r.inverse) = Shown(w).cells

LEMMA PutNextOf ==
  ASSUME NEW w \in Window, NEW es \in Seq(Edit), NEW e \in Edit, NEW st \in Stored, NEW f \in Nat,
         NEW r, PutGood(w, es, st, f, r)
  PROVE  PutGood(w, Append(es, e), st, f, PutNext(r, e))
<1>1. PICK v \in Window : v = r.win
  BY DEF PutGood, Done
<1>2. Done(w, v, st, f) /\ v.loading = None /\ WinInv(v, st, f)
  BY <1>1 DEF PutGood, Done
<1>3. PICK u : u = PutCell(v, e.at, e.value)
  OBVIOUS
<1>4. Done(v, u, st, f) /\ Edited(v, u, e)
  BY <1>2, <1>3, PutCellOf
<1>5. Done(w, u, st, f)
  BY <1>2, <1>4, DoneTrans
<1>6. PICK cs \in Cells : cs = Shown(w).cells
  BY ShownOf, ModelOf
<1>7. PICK ds \in Cells : ds = Shown(v).cells
  BY ShownOf, ModelOf
<1>8. PICK p \in Edit : p = [at |-> e.at, value |-> ds[e.at]]
  <2>1. ds[e.at] \in Value \cup {None} /\ e.at \in Cell
    BY DEF Cells, Edit
  <2>2. [at |-> e.at, value |-> ds[e.at]] \in Edit
    BY <2>1 DEF Edit
  <2> QED
    BY <2>2
<1>9. PICK back \in Seq(Edit) : back = r.inverse
  BY DEF PutGood
<1>10. PICK q : q = [win |-> u, inverse |-> <<p>> \o back]
  OBVIOUS
<1>11. PutNext(r, e) = q
  BY <1>1, <1>3, <1>7, <1>8, <1>9, <1>10 DEF PutNext, Prior
<1>12. q.win = u /\ q.inverse = <<p>> \o back /\ q.inverse \in Seq(Edit)
  BY <1>10
<1>13. Shown(u).cells = Put(cs, Append(es, e)) /\ Shown(u).form = Shown(w).form
  <2>1. ds = Put(cs, es) /\ Shown(v).form = Shown(w).form
    BY <1>1, <1>6, <1>7 DEF PutGood
  <2> QED
    BY <1>4, <1>7, <2>1, PutAppend DEF Edited
<1>14. Put(Shown(u).cells, <<p>> \o back) = cs
  <2>1. PICK gs \in Cells : gs = Put1(ds, e)
    BY Put1Type
  <2>2. gs = Shown(u).cells
    BY <1>4, <1>7, <2>1 DEF Edited
  <2>3. Put1(gs, p) = ds
    <3>1. \A c \in Cell : gs[c] = IF c = e.at THEN e.value ELSE ds[c]
      BY <2>1, Put1Type
    <3>2. p.at = e.at /\ p.value = ds[e.at]
      BY <1>8
    <3>3. Put1(gs, p) \in Cells /\ \A c \in Cell : Put1(gs, p)[c] = IF c = p.at THEN p.value ELSE gs[c]
      BY Put1Type
    <3>4. \A c \in Cell : Put1(gs, p)[c] = ds[c]
      BY <3>1, <3>2, <3>3
    <3> QED
      BY <3>3, <3>4, SameCells
  <2>4. Put(gs, <<p>> \o back) = Put(Put1(gs, p), back)
    BY PutFirst
  <2>5. Put(ds, back) = cs
    BY <1>1, <1>6, <1>7, <1>9 DEF PutGood
  <2> QED
    BY <2>2, <2>3, <2>4, <2>5
<1> QED
  BY <1>5, <1>6, <1>11, <1>12, <1>13, <1>14 DEF PutGood

\* g is a run of the first n edits.
PutStep(w, es, i, r) == IF i = 0 THEN [win |-> w, inverse |-> <<>>] ELSE PutNext(r, es[i])
PutRuns(w, es, n, g) == g = [i \in 0 .. n |-> PutStep(w, es, i, g[i - 1])]

LEMMA PutRunsAt ==
  ASSUME NEW w, NEW es, NEW n \in Nat, NEW g, PutRuns(w, es, n, g)
  PROVE  \A i \in 0 .. n : g[i] = PutStep(w, es, i, g[i - 1])
<1> DEFINE v == [i \in 0 .. n |-> PutStep(w, es, i, g[i - 1])]
<1>1. g = v
  BY DEF PutRuns
<1>2. \A i \in 0 .. n : v[i] = PutStep(w, es, i, g[i - 1])
  OBVIOUS
<1> HIDE DEF v
<1> QED
  BY <1>1, <1>2

LEMMA PutStepFirst ==
  ASSUME NEW w, NEW es, NEW a, NEW b
  PROVE  PutStep(w, es, 0, a) = PutStep(w, es, 0, b)
BY DEF PutStep

LEMMA PutRunsExist ==
  ASSUME NEW w, NEW es
  PROVE  \A n \in Nat : \E g : PutRuns(w, es, n, g)
<1> DEFINE Bad == {n \in Nat : ~\E g : PutRuns(w, es, n, g)}
<1> SUFFICES ASSUME Bad # {} PROVE FALSE
  OBVIOUS
<1>1. Bad \in SUBSET Nat
  OBVIOUS
<1>2. PICK n \in Bad : \A k \in Bad : n <= k
  <2> HIDE DEF Bad
  <2> QED
    BY <1>1, Least
<1>3. CASE n = 0
  <2> DEFINE h == [i \in 0 .. 0 |-> PutStep(w, es, 0, w)]
  <2>1. \A i \in 0 .. 0 : h[i] = PutStep(w, es, i, h[i - 1])
    BY PutStepFirst
  <2>2. PutRuns(w, es, 0, h)
    <3> DEFINE v == [i \in 0 .. 0 |-> PutStep(w, es, i, h[i - 1])]
    <3>1. h = v
      BY <2>1
    <3> QED
      BY <3>1 DEF PutRuns
  <2> QED
    BY <1>3, <2>2
<1>4. CASE n # 0
  <2>1. n - 1 \in Nat /\ n - 1 \notin Bad
    BY <1>2, <1>4
  <2>2. PICK g : PutRuns(w, es, n - 1, g)
    BY <2>1
  <2> DEFINE h == [i \in 0 .. n |-> IF i < n THEN g[i] ELSE PutStep(w, es, n, g[n - 1])]
  <2>3. \A i \in 0 .. n - 1 : g[i] = PutStep(w, es, i, g[i - 1])
    BY <2>1, <2>2, PutRunsAt
  <2>4. \A i \in 0 .. n : h[i] = PutStep(w, es, i, h[i - 1])
    <3> TAKE i \in 0 .. n
    <3>1. CASE i = 0
      <4>1. h[0] = g[0] /\ g[0] = PutStep(w, es, 0, g[-1])
        BY <2>1, <2>3
      <4> QED
        BY <3>1, <4>1, PutStepFirst
    <3>2. CASE i # 0 /\ i < n
      BY <2>1, <2>3, <3>2
    <3>3. CASE i = n
      BY <1>4, <2>1, <3>3
    <3> QED
      BY <2>1, <3>1, <3>2, <3>3
  <2>5. PutRuns(w, es, n, h)
    <3> DEFINE v == [i \in 0 .. n |-> PutStep(w, es, i, h[i - 1])]
    <3>1. h = v
      BY <2>4
    <3> QED
      BY <3>1 DEF PutRuns
  <2> QED
    BY <2>5
<1> QED
  BY <1>3, <1>4

\* apply_step, of cells: PutCells is the last of a run.
LEMMA PutCellsRuns ==
  ASSUME NEW w, NEW es \in Seq(Edit)
  PROVE  \E g : /\ PutCells(w, es) = g[Len(es)]
                /\ \A i \in 0 .. Len(es) : g[i] = PutStep(w, es, i, g[i - 1])
<1> DEFINE g == CHOOSE h : PutRuns(w, es, Len(es), h)
<1>0. Len(es) \in Nat
  OBVIOUS
<1>1. PutRuns(w, es, Len(es), g)
  BY <1>0, PutRunsExist
<1>2. PutCells(w, es) = g[Len(es)]
  BY DEF PutCells, PutRuns, PutStep
<1> HIDE DEF g
<1>3. \A i \in 0 .. Len(es) : g[i] = PutStep(w, es, i, g[i - 1])
  BY <1>0, <1>1, PutRunsAt
<1> QED
  BY <1>2, <1>3

LEMMA PutCellsOf ==
  ASSUME NEW w \in Window, NEW es \in Seq(Edit), NEW st \in Stored, NEW f \in Nat,
         w.loading = None, WinInv(w, st, f)
  PROVE  PutGood(w, es, st, f, PutCells(w, es))
<1>1. PICK g : /\ PutCells(w, es) = g[Len(es)]
               /\ \A i \in 0 .. Len(es) : g[i] = PutStep(w, es, i, g[i - 1])
  BY PutCellsRuns
<1>2. PICK n \in Nat : n = Len(es)
  OBVIOUS
<1> DEFINE Bad == {i \in 0 .. n : ~PutGood(w, SubSeq(es, 1, i), st, f, g[i])}
<1>3. ASSUME Bad # {} PROVE FALSE
  <2>1. Bad \in SUBSET Nat
    OBVIOUS
  <2>2. PICK i \in Bad : \A k \in Bad : i <= k
    <3> HIDE DEF Bad
    <3> QED
      BY <1>3, <2>1, Least
  <2>3. CASE i = 0
    <3>1. PICK r : r = [win |-> w, inverse |-> <<>>]
      OBVIOUS
    <3>2. g[0] = r /\ r.win = w /\ r.inverse = <<>> /\ <<>> \in Seq(Edit)
      BY <1>1, <1>2, <3>1 DEF PutStep
    <3>3. SubSeq(es, 1, 0) = <<>>
      OBVIOUS
    <3>4. Shown(w).cells \in Cells
      BY ShownOf, ModelOf
    <3>5. Put(Shown(w).cells, <<>>) = Shown(w).cells
      BY <3>4, PutEmpty
    <3>6. Done(w, w, st, f)
      BY Reflexive DEF Done
    <3>7. PutGood(w, <<>>, st, f, r)
      BY <3>2, <3>5, <3>6 DEF PutGood
    <3> QED
      BY <2>2, <2>3, <3>2, <3>3, <3>7
  <2>4. CASE i # 0
    <3>1. i \in 1 .. n /\ i - 1 \in 0 .. n /\ i - 1 \notin Bad
      BY <2>2, <2>4
    <3>2. PICK pre \in Seq(Edit) : pre = SubSeq(es, 1, i - 1)
      <4>1. SubSeq(es, 1, i - 1) \in Seq(Edit)
        BY <1>2, <3>1
      <4> QED
        BY <4>1
    <3>3. PutGood(w, pre, st, f, g[i - 1])
      BY <3>1, <3>2
    <3>4. PICK e \in Edit : e = es[i]
      BY <1>2, <3>1
    <3>5. PutGood(w, Append(pre, e), st, f, PutNext(g[i - 1], e))
      BY <3>3, PutNextOf
    <3>6. Append(pre, e) = SubSeq(es, 1, i)
      BY <1>2, <3>1, <3>2, <3>4
    <3>7. g[i] = PutNext(g[i - 1], e)
      BY <1>1, <1>2, <2>4, <3>1, <3>4 DEF PutStep
    <3> QED
      BY <2>2, <3>5, <3>6, <3>7
  <2> QED
    BY <2>3, <2>4
<1>4. PutGood(w, SubSeq(es, 1, n), st, f, g[n])
  BY <1>2, <1>3
<1>5. SubSeq(es, 1, n) = es
  BY <1>2
<1> QED
  BY <1>1, <1>2, <1>4, <1>5

\* A model after edits.
LEMMA BackCells ==
  ASSUME NEW m \in Models, NEW n \in Models, NEW es \in Seq(Edit), NEW s,
         s = [kind |-> "cells", edits |-> es],
         n.cells = Put(m.cells, es), n.form = m.form
  PROVE  Back(m, s) = n /\ s \in Step
<1>1. PICK cs \in Cells : cs = Put(m.cells, es)
  BY ModelOf, PutType
<1>2. Back(m, s) = [m EXCEPT !.cells = cs]
  BY <1>1 DEF Back
<1>3. [m EXCEPT !.cells = cs] = n
  <2>1. PICK k \in Models : k = [m EXCEPT !.cells = cs]
    BY WithCells
  <2>2. k.cells = n.cells /\ k.form = n.form
    BY <1>1, <2>1, WithCells
  <2> QED
    BY <2>1, <2>2, SameModel
<1> QED
  BY <1>2, <1>3 DEF Step

LEMMA BackForm ==
  ASSUME NEW m \in Models, NEW form \in Formula \cup {None}, NEW s,
         s = [kind |-> "form", form |-> form]
  PROVE  Back(m, s) = [m EXCEPT !.form = form] /\ s \in Step
BY DEF Back, Step

LEMMA BackModel ==
  ASSUME NEW m \in Models, NEW n \in Models, NEW s, s = [kind |-> "model", model |-> n]
  PROVE  Back(m, s) = n /\ s \in Step
BY DEF Back, Step

LEMMA FormBack ==
  ASSUME NEW m \in Models, NEW form \in Formula \cup {None}
  PROVE  [[m EXCEPT !.form = form] EXCEPT !.form = m.form] = m
BY DEF Models

\* apply_step: what the step says is shown, and its inverse brings back what was.
Applied(w, s, st, f, r) ==
  /\ Done(w, r.win, st, f)
  /\ Shown(r.win) = Back(Shown(w), s)
  /\ r.inverse \in Step /\ Back(Shown(r.win), r.inverse) = Shown(w)

LEMMA ApplyCells ==
  ASSUME NEW w \in Window, NEW s, NEW es \in Seq(Edit), NEW st \in Stored, NEW f \in Nat,
         s = [kind |-> "cells", edits |-> es], w.loading = None, WinInv(w, st, f)
  PROVE  Applied(w, s, st, f, ApplyStep(w, s))
<1>1. PICK r : r = PutCells(w, es)
  OBVIOUS
<1>2. PutGood(w, es, st, f, r)
  BY <1>1, PutCellsOf
<1>3. PICK v \in Window : v = r.win
  BY <1>2 DEF PutGood, Done
<1>4. PICK back \in Seq(Edit) : back = r.inverse
  BY <1>2 DEF PutGood
<1>5. PICK i : i = [kind |-> "cells", edits |-> back]
  OBVIOUS
<1>6. Shown(v) \in Models /\ Shown(w) \in Models
  BY ShownOf
<1>7. /\ Shown(v).cells = Put(Shown(w).cells, es) /\ Shown(v).form = Shown(w).form
      /\ Put(Shown(v).cells, back) = Shown(w).cells /\ Done(w, v, st, f)
  BY <1>2, <1>3, <1>4 DEF PutGood
<1>8. Back(Shown(w), s) = Shown(v)
  BY <1>6, <1>7, BackCells
<1>9. Back(Shown(v), i) = Shown(w) /\ i \in Step
  BY <1>5, <1>6, <1>7, BackCells
<1>10. PICK q : q = [win |-> v, inverse |-> i]
  OBVIOUS
<1>11. ApplyStep(w, s) = q
  BY <1>1, <1>3, <1>4, <1>5, <1>10 DEF ApplyStep
<1>12. q.win = v /\ q.inverse = i
  BY <1>10
<1> QED
  BY <1>7, <1>8, <1>9, <1>11, <1>12 DEF Applied

LEMMA ApplyForm ==
  ASSUME NEW w \in Window, NEW s, NEW form \in Formula \cup {None}, NEW st \in Stored, NEW f \in Nat,
         s = [kind |-> "form", form |-> form], w.loading = None, WinInv(w, st, f)
  PROVE  Applied(w, s, st, f, ApplyStep(w, s))
<1>1. PICK v : v = SwapStructure(w, form)
  OBVIOUS
<1>2. PICK m \in Models : m = Shown(w)
  BY ShownOf
<1>3. Done(w, v, st, f) /\ Shown(v) = [m EXCEPT !.form = form]
  BY <1>1, <1>2, SwapStructureOf
<1>4. m.form = w.model.form /\ m.form \in Formula \cup {None}
  BY <1>2, ShownOf, ModelOf
<1>5. PICK i : i = [kind |-> "form", form |-> m.form]
  OBVIOUS
<1>6. Back(m, s) = Shown(v)
  BY <1>3, BackForm
<1>7. Back(Shown(v), i) = m /\ i \in Step
  <2>1. PICK n \in Models : n = Shown(v)
    BY <1>3, ShownOf DEF Done
  <2>2. Back(n, i) = [n EXCEPT !.form = m.form] /\ i \in Step
    BY <1>4, <1>5, BackForm
  <2>3. [n EXCEPT !.form = m.form] = m
    BY <1>3, <2>1, FormBack
  <2> QED
    BY <2>1, <2>2, <2>3
<1>10. PICK q : q = [win |-> v, inverse |-> i]
  OBVIOUS
<1>11. ApplyStep(w, s) = q
  BY <1>1, <1>4, <1>5, <1>10 DEF ApplyStep
<1>12. q.win = v /\ q.inverse = i
  BY <1>10
<1> QED
  BY <1>2, <1>3, <1>6, <1>7, <1>11, <1>12 DEF Applied

LEMMA ApplyModel ==
  ASSUME NEW w \in Window, NEW s, NEW n \in Models, NEW st \in Stored, NEW f \in Nat,
         s = [kind |-> "model", model |-> n], w.loading = None, WinInv(w, st, f)
  PROVE  Applied(w, s, st, f, ApplyStep(w, s))
<1>1. PICK v : v = SwapModel(w, n)
  OBVIOUS
<1>2. PICK m \in Models : m = Shown(w)
  BY ShownOf
<1>3. Done(w, v, st, f) /\ Shown(v) = n
  BY <1>1, SwapModelOf
<1>5. PICK i : i = [kind |-> "model", model |-> m]
  OBVIOUS
<1>6. Back(m, s) = n /\ Back(n, i) = m /\ i \in Step
  BY <1>5, BackModel
<1>10. PICK q : q = [win |-> v, inverse |-> i]
  OBVIOUS
<1>11. ApplyStep(w, s) = q
  BY <1>1, <1>2, <1>5, <1>10 DEF ApplyStep
<1>12. q.win = v /\ q.inverse = i
  BY <1>10
<1> QED
  BY <1>2, <1>3, <1>6, <1>11, <1>12 DEF Applied

LEMMA ApplyStepOf ==
  ASSUME NEW w \in Window, NEW s \in Step, NEW st \in Stored, NEW f \in Nat,
         w.loading = None, WinInv(w, st, f)
  PROVE  Applied(w, s, st, f, ApplyStep(w, s))
<1>1. CASE s \in [kind : {"cells"}, edits : Seq(Edit)]
  <2>1. PICK es \in Seq(Edit) : s = [kind |-> "cells", edits |-> es]
    BY <1>1
  <2> QED
    BY <2>1, ApplyCells
<1>2. CASE s \in [kind : {"form"}, form : Formula \cup {None}]
  <2>1. PICK form \in Formula \cup {None} : s = [kind |-> "form", form |-> form]
    BY <1>2
  <2> QED
    BY <2>1, ApplyForm
<1>3. CASE s \in [kind : {"model"}, model : Models]
  <2>1. PICK n \in Models : s = [kind |-> "model", model |-> n]
    BY <1>3
  <2> QED
    BY <2>1, ApplyModel
<1> QED
  BY <1>1, <1>2, <1>3 DEF Step

-----------------------------------------------------------------------------
(* The stacks. *)

\* p is l with x pushed, and without the first k.
Pushed(l, p, x, k) ==
  /\ Len(p) \in 1 .. UndoDepth /\ Len(p) = Len(l) + 1 - k /\ p[Len(p)] = x
  /\ \A i \in 1 .. Len(p) - 1 : p[i] = l[i + k]

Dropped(l) == IF Len(l) >= UndoDepth THEN 1 ELSE 0

LEMMA PushBoundedOf ==
  ASSUME NEW S, NEW l \in Seq(S), NEW x \in S, Len(l) <= UndoDepth
  PROVE  PushBounded(l, x) \in Seq(S) /\ Pushed(l, PushBounded(l, x), x, Dropped(l))
<1>1. UndoDepth \in Nat \ {0}
  BY ConstantsAssumption
<1>2. CASE Len(l) >= UndoDepth
  <2>1. PushBounded(l, x) = Append(Tail(l), x)
    BY <1>2 DEF PushBounded
  <2>2. Tail(l) \in Seq(S) /\ Len(Tail(l)) = Len(l) - 1
        /\ \A i \in 1 .. Len(l) - 1 : Tail(l)[i] = l[i + 1]
    BY <1>1, <1>2
  <2>3. Append(Tail(l), x) \in Seq(S) /\ Len(Append(Tail(l), x)) = Len(l)
        /\ Append(Tail(l), x)[Len(l)] = x
        /\ \A i \in 1 .. Len(l) - 1 : Append(Tail(l), x)[i] = l[i + 1]
    BY <2>2
  <2> QED
    BY <1>1, <1>2, <2>1, <2>3 DEF Pushed, Dropped
<1>3. CASE ~(Len(l) >= UndoDepth)
  <2>1. PushBounded(l, x) = Append(l, x)
    BY <1>3 DEF PushBounded
  <2>2. Append(l, x) \in Seq(S) /\ Len(Append(l, x)) = Len(l) + 1
        /\ Append(l, x)[Len(l) + 1] = x /\ \A i \in 1 .. Len(l) : Append(l, x)[i] = l[i + 0]
    OBVIOUS
  <2> QED
    BY <1>1, <1>3, <2>1, <2>2 DEF Pushed, Dropped
<1> QED
  BY <1>2, <1>3

LEMMA ChainEmpty ==
  ASSUME NEW shown
  PROVE  Chain(shown, <<>>, <<>>)
BY ConstantsAssumption DEF Chain

\* A step that brings back what was shown, pushed with what was shown.
LEMMA ChainPush ==
  ASSUME NEW shown \in Models, NEW steps \in Seq(Step), NEW past \in Seq(Models),
         Chain(shown, steps, past), NEW s \in Step, NEW new, Back(new, s) = shown
  PROVE  /\ PushBounded(steps, s) \in Seq(Step) /\ PushBounded(past, shown) \in Seq(Models)
         /\ Chain(new, PushBounded(steps, s), PushBounded(past, shown))
<1>1. Len(past) = Len(steps) /\ Len(steps) <= UndoDepth /\ UndoDepth \in Nat \ {0}
  BY ConstantsAssumption DEF Chain
<1>2. PICK n \in Nat : n = Len(steps)
  OBVIOUS
<1>3. PICK a \in Seq(Step), b \in Seq(Models) : a = PushBounded(steps, s) /\ b = PushBounded(past, shown)
  BY <1>1, PushBoundedOf
<1>4. PICK k \in {0, 1}, l \in 1 .. UndoDepth :
        /\ l = n + 1 - k
        /\ Len(a) = l /\ a[l] = s /\ (\A i \in 1 .. l - 1 : a[i] = steps[i + k])
        /\ Len(b) = l /\ b[l] = shown /\ (\A i \in 1 .. l - 1 : b[i] = past[i + k])
  <2>1. PICK k \in {0, 1} : k = Dropped(steps)
    BY DEF Dropped
  <2>2. k = Dropped(past)
    BY <1>1, <2>1 DEF Dropped
  <2>3. Pushed(steps, a, s, k)
    BY <1>1, <1>3, <2>1, PushBoundedOf
  <2>4. Pushed(past, b, shown, k)
    BY <1>1, <1>3, <2>2, PushBoundedOf
  <2> QED
    BY <1>1, <1>2, <2>3, <2>4 DEF Pushed
<1>5. DOMAIN a = 1 .. l
  BY <1>4
<1>6. ASSUME NEW i \in 1 .. l
      PROVE  Back(IF i = l THEN new ELSE b[i + 1], a[i]) = b[i]
  <2>1. CASE i = l
    BY <1>4, <2>1
  <2>2. CASE i # l
    <3>1. i \in 1 .. l - 1 /\ i + k \in 1 .. n /\ i + k \in DOMAIN steps
      BY <1>2, <1>4, <2>2
    <3>2. Back(IF i + k = n THEN shown ELSE past[i + k + 1], steps[i + k]) = past[i + k]
      BY <1>2, <3>1 DEF Chain
    <3>3. b[i + 1] = IF i + k = n THEN shown ELSE past[i + k + 1]
      <4>1. CASE i + k = n
        <5>1. i + 1 = l
          BY <1>4, <3>1, <4>1
        <5> QED
          BY <1>4, <4>1, <5>1
      <4>2. CASE i + k # n
        <5>1. i + 1 \in 1 .. l - 1 /\ i + 1 + k = i + k + 1
          BY <1>4, <3>1, <4>2
        <5> QED
          BY <1>4, <4>2, <5>1
      <4> QED
        BY <4>1, <4>2
    <3>4. a[i] = steps[i + k] /\ b[i] = past[i + k]
      BY <1>4, <3>1
    <3> QED
      BY <2>2, <3>2, <3>3, <3>4
  <2> QED
    BY <2>1, <2>2
<1>7. l <= UndoDepth
  BY <1>1
<1> QED
  BY <1>3, <1>4, <1>5, <1>6, <1>7 DEF Chain

\* The last step brings back the last of the past; the others go on from there.
LEMMA ChainPop ==
  ASSUME NEW shown \in Models, NEW steps \in Seq(Step), NEW past \in Seq(Models),
         Chain(shown, steps, past), steps # <<>>
  PROVE  /\ Front(steps) \in Seq(Step) /\ Front(past) \in Seq(Models)
         /\ Last(steps) \in Step
         /\ Chain(Back(shown, Last(steps)), Front(steps), Front(past))
<1>1. Len(past) = Len(steps) /\ Len(steps) <= UndoDepth /\ UndoDepth \in Nat \ {0}
  BY ConstantsAssumption DEF Chain
<1>2. PICK n \in Nat : n = Len(steps) /\ n # 0
  OBVIOUS
<1>3. /\ Last(steps) = steps[n] /\ Front(steps) = SubSeq(steps, 1, n - 1)
      /\ Front(past) = SubSeq(past, 1, n - 1)
  BY <1>1, <1>2 DEF Last, Front
<1>4. PICK a \in Seq(Step), b \in Seq(Models) : a = SubSeq(steps, 1, n - 1) /\ b = SubSeq(past, 1, n - 1)
  <2>1. SubSeq(steps, 1, n - 1) \in Seq(Step) /\ SubSeq(past, 1, n - 1) \in Seq(Models)
    BY <1>1, <1>2
  <2> QED
    BY <2>1
<1>5. /\ Len(a) = n - 1 /\ Len(b) = n - 1 /\ DOMAIN a = 1 .. n - 1
      /\ \A i \in 1 .. n - 1 : a[i] = steps[i] /\ b[i] = past[i]
  BY <1>1, <1>2, <1>4
<1>6. n \in DOMAIN steps /\ steps[n] \in Step
  BY <1>2
<1>7. Back(shown, steps[n]) = past[n]
  BY <1>2, <1>6 DEF Chain
<1>8. ASSUME NEW i \in 1 .. n - 1
      PROVE  Back(IF i = n - 1 THEN past[n] ELSE b[i + 1], a[i]) = b[i]
  <2>1. i \in DOMAIN steps /\ i # n
    BY <1>2
  <2>2. Back(past[i + 1], steps[i]) = past[i]
    BY <1>2, <2>1 DEF Chain
  <2>3. (IF i = n - 1 THEN past[n] ELSE b[i + 1]) = past[i + 1]
    <3>1. CASE i = n - 1
      BY <1>2, <3>1
    <3>2. CASE i # n - 1
      <4>1. i + 1 \in 1 .. n - 1
        BY <1>2, <3>2
      <4> QED
        BY <1>5, <3>2, <4>1
    <3> QED
      BY <3>1, <3>2
  <2> QED
    BY <1>5, <2>2, <2>3
<1>9. n - 1 <= UndoDepth
  BY <1>1, <1>2
<1>10. Chain(past[n], a, b)
  BY <1>5, <1>8, <1>9 DEF Chain
<1> QED
  BY <1>3, <1>4, <1>6, <1>7, <1>10

Restacked(w, a, b, c, d) == [w EXCEPT !.undo = a, !.redo = b, !.past = c, !.future = d]

LEMMA RestackedOf ==
  ASSUME NEW w \in Window, NEW a \in Seq(Step), NEW b \in Seq(Step),
         NEW c \in Seq(Models), NEW d \in Seq(Models)
  PROVE  /\ Restacked(w, a, b, c, d) \in Window
         /\ Restacked(w, a, b, c, d).undo = a /\ Restacked(w, a, b, c, d).redo = b
         /\ Restacked(w, a, b, c, d).past = c /\ Restacked(w, a, b, c, d).future = d
         /\ Ledger(w, Restacked(w, a, b, c, d)) /\ Engines(w, Restacked(w, a, b, c, d))
         /\ Shown(Restacked(w, a, b, c, d)) = Shown(w)
<1>1. PICK u : u = [w EXCEPT !.undo = a, !.redo = b, !.past = c, !.future = d]
  OBVIOUS
<1>2. u \in Window
  BY <1>1 DEF Window
<1>3. /\ Ledger(w, u) /\ Engines(w, u) /\ u.model = w.model /\ u.held = w.held
      /\ u.undo = a /\ u.redo = b /\ u.past = c /\ u.future = d
  BY <1>1, <1>2 DEF Window, Ledger, Engines
<1>4. Shown(u) = Shown(w)
  BY <1>2, <1>3, ShownSame
<1> QED
  BY <1>1, <1>2, <1>3, <1>4 DEF Restacked

LEMMA StacksOf ==
  ASSUME NEW w \in Window
  PROVE  /\ w.undo \in Seq(Step) /\ w.redo \in Seq(Step)
         /\ w.past \in Seq(Models) /\ w.future \in Seq(Models)
BY DEF Window

\* The next state's window: as good as the last one's.
Better(w, u, st, f) ==
  u \in Window /\ WinInv(u, st, f) /\ u.db = w.db /\ HistoryInv(u)

LEMMA RestackedBetter ==
  ASSUME NEW w \in Window, NEW v, NEW st, NEW f, Done(w, v, st, f),
         NEW a \in Seq(Step), NEW b \in Seq(Step), NEW c \in Seq(Models), NEW d \in Seq(Models),
         Chain(Shown(v), a, c), Chain(Shown(v), b, d)
  PROVE  Better(w, Restacked(v, a, b, c, d), st, f)
<1>0. v \in Window /\ WinInv(v, st, f) /\ v.db = w.db
  BY DEF Done
<1>1. PICK u : u = Restacked(v, a, b, c, d)
  OBVIOUS
<1>2. /\ u \in Window /\ Ledger(v, u) /\ Engines(v, u) /\ Shown(u) = Shown(v)
      /\ u.undo = a /\ u.redo = b /\ u.past = c /\ u.future = d
  BY <1>0, <1>1, RestackedOf
<1>3. BuildInv(u)
  BY <1>0, <1>2, BuildKept DEF WinInv
<1>4. WinInv(u, st, f)
  BY <1>0, <1>2, <1>3, WinKept
<1> QED
  BY <1>0, <1>1, <1>2, <1>4 DEF Better, HistoryInv, Ledger

\* record_history.
LEMMA RecordOf ==
  ASSUME NEW w \in Window, NEW v, NEW st, NEW f, HistoryInv(w), Done(w, v, st, f),
         NEW s \in Step, Back(Shown(v), s) = Shown(w)
  PROVE  Better(w, Record(w, v, s), st, f)
<1>0. v \in Window /\ v.undo = w.undo /\ v.past = w.past
  BY DEF Done, Stacks
<1>1. PICK m \in Models : m = Shown(w)
  BY ShownOf
<1>2. /\ PushBounded(w.undo, s) \in Seq(Step) /\ PushBounded(w.past, m) \in Seq(Models)
      /\ Chain(Shown(v), PushBounded(w.undo, s), PushBounded(w.past, m))
  BY <1>1, StacksOf, ChainPush DEF HistoryInv
<1>3. PICK a \in Seq(Step), c \in Seq(Models) : a = PushBounded(w.undo, s) /\ c = PushBounded(w.past, m)
  BY <1>2
<1>4. <<>> \in Seq(Step) /\ <<>> \in Seq(Models)
  OBVIOUS
<1>5. PICK b \in Seq(Step), d \in Seq(Models) : b = <<>> /\ d = <<>>
  BY <1>4
<1>6. Record(w, v, s) = Restacked(v, a, b, c, d)
  BY <1>0, <1>1, <1>3, <1>5 DEF Record, Restacked
<1>7. Better(w, Restacked(v, a, b, c, d), st, f)
  BY <1>2, <1>3, <1>5, ChainEmpty, RestackedBetter
<1> QED
  BY <1>6, <1>7

\* undo: the step that undid it goes to the other stack.
Undone(w, r) == [r.win EXCEPT !.undo = Front(@), !.past = Front(@),
                              !.redo = PushBounded(@, r.inverse), !.future = PushBounded(@, Shown(w))]
Redone(w, r) == [r.win EXCEPT !.redo = Front(@), !.future = Front(@),
                              !.undo = PushBounded(@, r.inverse), !.past = PushBounded(@, Shown(w))]

LEMMA UndoOf ==
  ASSUME NEW w \in Window, NEW st \in Stored, NEW f \in Nat, w.loading = None,
         WinInv(w, st, f), HistoryInv(w), w.undo # <<>>
  PROVE  Better(w, Undone(w, ApplyStep(w, Last(w.undo))), st, f)
<1>1. PICK s \in Step : s = Last(w.undo)
  BY StacksOf, ChainPop, ShownOf DEF HistoryInv
<1>2. PICK r : r = ApplyStep(w, s)
  OBVIOUS
<1>3. Applied(w, s, st, f, r)
  BY <1>2, ApplyStepOf
<1>4. PICK v \in Window : v = r.win
  BY <1>3 DEF Applied, Done
<1>5. PICK i \in Step : i = r.inverse
  BY <1>3 DEF Applied
<1>6. PICK m \in Models : m = Shown(w)
  BY ShownOf
<1>7. Shown(v) = Back(m, s) /\ Back(Shown(v), i) = m /\ Done(w, v, st, f)
  BY <1>3, <1>4, <1>5, <1>6 DEF Applied
<1>8. PICK a \in Seq(Step), c \in Seq(Models) : /\ a = Front(w.undo) /\ c = Front(w.past)
                                                /\ Chain(Shown(v), a, c)
  BY <1>1, <1>6, <1>7, StacksOf, ChainPop DEF HistoryInv
<1>9. /\ PushBounded(w.redo, i) \in Seq(Step) /\ PushBounded(w.future, m) \in Seq(Models)
      /\ Chain(Shown(v), PushBounded(w.redo, i), PushBounded(w.future, m))
  BY <1>6, <1>7, StacksOf, ChainPush DEF HistoryInv
<1>10. PICK b \in Seq(Step), d \in Seq(Models) : b = PushBounded(w.redo, i) /\ d = PushBounded(w.future, m)
  BY <1>9
<1>11. v.undo = w.undo /\ v.redo = w.redo /\ v.past = w.past /\ v.future = w.future
  BY <1>7 DEF Done, Stacks
<1>12. Undone(w, r) = Restacked(v, a, b, c, d)
  <2>1. Undone(w, r) = [v EXCEPT !.undo = a, !.past = c, !.redo = b, !.future = d]
    BY <1>4, <1>5, <1>6, <1>8, <1>10, <1>11 DEF Undone
  <2> QED
    BY <2>1 DEF Restacked, Window
<1>13. Better(w, Restacked(v, a, b, c, d), st, f)
  BY <1>7, <1>8, <1>9, <1>10, RestackedBetter
<1> QED
  BY <1>1, <1>2, <1>12, <1>13

LEMMA RedoOf ==
  ASSUME NEW w \in Window, NEW st \in Stored, NEW f \in Nat, w.loading = None,
         WinInv(w, st, f), HistoryInv(w), w.redo # <<>>
  PROVE  Better(w, Redone(w, ApplyStep(w, Last(w.redo))), st, f)
<1>1. PICK s \in Step : s = Last(w.redo)
  BY StacksOf, ChainPop, ShownOf DEF HistoryInv
<1>2. PICK r : r = ApplyStep(w, s)
  OBVIOUS
<1>3. Applied(w, s, st, f, r)
  BY <1>2, ApplyStepOf
<1>4. PICK v \in Window : v = r.win
  BY <1>3 DEF Applied, Done
<1>5. PICK i \in Step : i = r.inverse
  BY <1>3 DEF Applied
<1>6. PICK m \in Models : m = Shown(w)
  BY ShownOf
<1>7. Shown(v) = Back(m, s) /\ Back(Shown(v), i) = m /\ Done(w, v, st, f)
  BY <1>3, <1>4, <1>5, <1>6 DEF Applied
<1>8. PICK b \in Seq(Step), d \in Seq(Models) : /\ b = Front(w.redo) /\ d = Front(w.future)
                                                /\ Chain(Shown(v), b, d)
  BY <1>1, <1>6, <1>7, StacksOf, ChainPop DEF HistoryInv
<1>9. /\ PushBounded(w.undo, i) \in Seq(Step) /\ PushBounded(w.past, m) \in Seq(Models)
      /\ Chain(Shown(v), PushBounded(w.undo, i), PushBounded(w.past, m))
  BY <1>6, <1>7, StacksOf, ChainPush DEF HistoryInv
<1>10. PICK a \in Seq(Step), c \in Seq(Models) : a = PushBounded(w.undo, i) /\ c = PushBounded(w.past, m)
  BY <1>9
<1>11. v.undo = w.undo /\ v.redo = w.redo /\ v.past = w.past /\ v.future = w.future
  BY <1>7 DEF Done, Stacks
<1>12. Redone(w, r) = Restacked(v, a, b, c, d)
  <2>1. Redone(w, r) = [v EXCEPT !.redo = b, !.future = d, !.undo = a, !.past = c]
    BY <1>4, <1>5, <1>6, <1>8, <1>10, <1>11 DEF Redone
  <2> QED
    BY <2>1 DEF Restacked, Window
<1>13. Better(w, Restacked(v, a, b, c, d), st, f)
  BY <1>7, <1>8, <1>9, <1>10, RestackedBetter
<1> QED
  BY <1>1, <1>2, <1>12, <1>13

\* apply_step, refused: the edits before the refused one are put back.
LEMMA EditRefusedOf ==
  ASSUME NEW w \in Window, NEW es \in Seq(Edit), NEW e \in Edit, NEW lives \in BOOLEAN,
         NEW st \in Stored, NEW f \in Nat, w.loading = None, WinInv(w, st, f),
         NEW r, r = PutCells(w, es)
  PROVE  /\ Done(w, PutCells(Refused(r.win, e.at, e.value, lives), r.inverse).win, st, f)
         /\ Shown(PutCells(Refused(r.win, e.at, e.value, lives), r.inverse).win) = Shown(w)
<1>1. PutGood(w, es, st, f, r)
  BY PutCellsOf
<1>2. PICK v \in Window, back \in Seq(Edit) : v = r.win /\ back = r.inverse
  BY <1>1 DEF PutGood, Done
<1>3. /\ Done(w, v, st, f) /\ Shown(v).form = Shown(w).form
      /\ Put(Shown(v).cells, back) = Shown(w).cells
  BY <1>1, <1>2 DEF PutGood
<1>4. v.loading = None /\ WinInv(v, st, f)
  BY <1>3 DEF Done
<1>5. PICK u : u = Refused(v, e.at, e.value, lives)
  OBVIOUS
<1>6. Done(v, u, st, f) /\ Shown(u) = Shown(v)
  BY <1>4, <1>5, RefusedOf
<1>7. u \in Window /\ u.loading = None /\ WinInv(u, st, f)
  BY <1>6 DEF Done
<1>8. PICK q : q = PutCells(u, back)
  OBVIOUS
<1>9. PutGood(u, back, st, f, q)
  BY <1>7, <1>8, PutCellsOf
<1>10. Shown(q.win) = Shown(w)
  <2>1. Shown(q.win).cells = Shown(w).cells /\ Shown(q.win).form = Shown(w).form
    BY <1>3, <1>6, <1>9 DEF PutGood
  <2>2. Shown(q.win) \in Models /\ Shown(w) \in Models
    BY <1>9, ShownOf DEF PutGood, Done
  <2> QED
    BY <2>1, <2>2, SameModel
<1>11. Done(w, q.win, st, f)
  BY <1>3, <1>6, <1>9, DoneTrans DEF PutGood
<1> QED
  BY <1>2, <1>5, <1>8, <1>10, <1>11

LEMMA DoneBetter ==
  ASSUME NEW w \in Window, NEW u, NEW st, NEW f, HistoryInv(w), Done(w, u, st, f),
         Shown(u) = Shown(w)
  PROVE  Better(w, u, st, f)
BY DEF Done, Better, HistoryInv, Stacks

-----------------------------------------------------------------------------
(* The window's life. *)

LEMMA EmptyType ==
  Empty \in Models
BY DEF Empty, Models

\* open: a window whose model is yet to load.
LEMMA OpenedOf ==
  ASSUME NEW p \in Path, NEW st, NEW f
  PROVE  /\ Opened(p) \in Window /\ Opened(p).db = p
         /\ WinInv(Opened(p), st, f) /\ HistoryInv(Opened(p))
<1>1. p # None
  BY ConstantsAssumption
<1>2. PICK l \in Load : l = [done |-> None] /\ l # None
  <2>1. [done |-> None] \in Load
    BY DEF Load
  <2> QED
    BY <2>1, NoneAssumption
<1>3. PICK e \in Models : e = Empty
  BY EmptyType
<1>4. <<>> \in Seq(Edit) /\ <<>> \in Seq(Step) /\ <<>> \in Seq(Models)
  OBVIOUS
<1>5. PICK u : u =
        [db |-> p, loading |-> l,
         model |-> e, held |-> <<>>, engine |-> None, snapshot |-> None, building |-> None,
         token |-> None, unsaved |-> NoChanges, saving |-> None,
         wanted |-> FALSE, failed |-> FALSE, lost |-> FALSE, outside |-> None, dirty |-> FALSE,
         undo |-> <<>>, redo |-> <<>>,
         past |-> <<>>, future |-> <<>>, loadedAt |-> 0]
  OBVIOUS
<1>6. Opened(p) = u
  BY <1>1, <1>2, <1>3, <1>5 DEF Opened
<1>7. u \in Window
  BY <1>4, <1>5, NoChangesType DEF Window
<1>8. /\ u.db = p /\ u.loading = l /\ u.engine = None /\ u.snapshot = None /\ u.building = None
      /\ u.saving = None /\ u.lost = FALSE /\ u.outside = None
      /\ u.undo = <<>> /\ u.redo = <<>> /\ u.past = <<>> /\ u.future = <<>>
  BY <1>5
<1>9. BuildInv(u) /\ LostInv(u)
  BY <1>8 DEF BuildInv, LostInv
<1>10. ~Holding(u)
  BY <1>2, <1>8 DEF Holding
<1>11. SaveInv(u, st, NoChanges) /\ TokenInv(u, st.hw, f) /\ StrandInv(u, st.hw)
  BY <1>8, <1>10 DEF SaveInv, TokenInv, StrandInv
<1>12. LoadInv(u, st)
  <2>1. l.done # "ok"
    BY <1>2, NoAnswer
  <2> QED
    BY <1>1, <1>8, <2>1 DEF LoadInv
<1>13. HistoryInv(u)
  BY <1>8, ChainEmpty DEF HistoryInv
<1> QED
  BY <1>6, <1>7, <1>8, <1>9, <1>11, <1>12, <1>13 DEF WinInv

\* A window u, of a model that was loaded when its store's high-water was hw.
Fresh(u, m, hw) ==
  /\ u \in Window /\ Shown(u) = m /\ u.token = hw /\ u.loadedAt = hw
  /\ u.unsaved = NoChanges /\ u.dirty = FALSE
  /\ u.undo = <<>> /\ u.redo = <<>> /\ u.past = <<>> /\ u.future = <<>>

\* Nothing that happens to u alone.
Alike(w, u) ==
  /\ u.db = w.db /\ u.loading = w.loading /\ u.outside = w.outside
  /\ u.lost = w.lost /\ u.failed = w.failed /\ u.wanted = w.wanted

LEMMA InstalledType ==
  ASSUME NEW t \in Window, NEW m \in Models, NEW hw \in Nat, NEW ch \in Changes,
         NEW es \in Seq(Edit), NEW a \in Seq(Step), NEW c \in Seq(Models), NEW d \in BOOLEAN
  PROVE  [t EXCEPT !.model = m, !.held = es, !.token = hw, !.loadedAt = hw,
                   !.unsaved = ch, !.dirty = d,
                   !.undo = a, !.redo = a, !.past = c, !.future = c] \in Window
BY DEF Window

\* install.
LEMMA InstallOf ==
  ASSUME NEW w \in Window, NEW m \in Models, NEW hw \in Nat, w.saving = None
  PROVE  /\ Fresh(Install(w, m, hw), m, hw) /\ BuildInv(Install(w, m, hw))
         /\ Alike(w, Install(w, m, hw)) /\ Install(w, m, hw).saving = None
<1>1. PICK t \in Window : t = Unshared(w)
  BY UnsharedOf
<1>2. Alike(w, t) /\ t.saving = None
  BY <1>1, UnsharedOf DEF Ledger, Alike
<1>3. <<>> \in Seq(Edit) /\ <<>> \in Seq(Step) /\ <<>> \in Seq(Models)
  OBVIOUS
<1>4. PICK v : v = [t EXCEPT
        !.model = m, !.held = <<>>, !.token = hw, !.loadedAt = hw,
        !.unsaved = NoChanges, !.dirty = FALSE,
        !.undo = <<>>, !.redo = <<>>, !.past = <<>>, !.future = <<>>]
  OBVIOUS
<1>5. v \in Window
  BY <1>3, <1>4, NoChangesType, InstalledType
<1>6. /\ v.model = m /\ v.held = <<>> /\ v.token = hw /\ v.loadedAt = hw
      /\ v.unsaved = NoChanges /\ v.dirty = FALSE
      /\ v.undo = <<>> /\ v.redo = <<>> /\ v.past = <<>> /\ v.future = <<>>
  BY <1>4, <1>5 DEF Window
<1>7. v.db = t.db /\ v.loading = t.loading /\ v.outside = t.outside
      /\ v.lost = t.lost /\ v.failed = t.failed /\ v.wanted = t.wanted /\ v.saving = t.saving
  BY <1>4, <1>5 DEF Window
<1>8. PICK u \in Window : u = RebuildEngine(v)
  BY <1>5, RebuildOf
<1>9. Shown(u) = Shown(v) /\ Ledger(v, u) /\ Stacks(v, u) /\ BuildInv(u)
  BY <1>5, <1>8, RebuildOf
<1>10. Install(w, m, hw) = u
  BY <1>1, <1>4, <1>8 DEF Install
<1>11. Shown(u) = m
  BY <1>5, <1>6, <1>9, ShownOf
<1>12. Fresh(u, m, hw)
  BY <1>6, <1>9, <1>11 DEF Fresh, Ledger, Stacks
<1>13. Alike(w, u) /\ u.saving = None
  BY <1>2, <1>7, <1>9 DEF Alike, Ledger
<1> QED
  BY <1>9, <1>10, <1>12, <1>13

\* Nothing is unsaved and the token is the one of the model that is shown.
LEMMA FreshOf ==
  ASSUME NEW u, NEW m, NEW hw \in Nat, Fresh(u, m, hw), BuildInv(u), u.saving = None,
         u.loading = None, ~u.lost, u.outside = None,
         NEW st \in Stored, NEW f \in Nat, hw <= st.hw, hw = st.hw => m = st.model
  PROVE  WinInv(u, st, f)
<1>1. hw # None
  BY NoneAssumption
<1>2. SaveInv(u, st, NoChanges)
  BY DEF SaveInv, Within, Fresh
<1>3. TokenInv(u, st.hw, f)
  BY <1>1 DEF TokenInv, Token, Fresh
<1>4. StrandInv(u, st.hw)
  BY DEF StrandInv, Fresh
<1>5. LostInv(u) /\ LoadInv(u, st)
  BY DEF LostInv, LoadInv
<1> QED
  BY <1>2, <1>3, <1>4, <1>5 DEF WinInv

LEMMA FreshHistory ==
  ASSUME NEW u, NEW m, NEW hw, Fresh(u, m, hw)
  PROVE  HistoryInv(u)
BY ChainEmpty DEF HistoryInv, Fresh

LEMMA ForgivenOf ==
  ASSUME NEW w \in Window
  PROVE  /\ Forgiven(w) \in Window
         /\ Forgiven(w).lost = FALSE /\ Forgiven(w).outside = None
         /\ Forgiven(w).db = w.db /\ Forgiven(w).loading = w.loading /\ Forgiven(w).saving = w.saving
         /\ Forgiven(w).token = w.token /\ Forgiven(w).loadedAt = w.loadedAt
         /\ Forgiven(w).unsaved = w.unsaved /\ Forgiven(w).dirty = w.dirty
         /\ Shown(Forgiven(w)) = Shown(w) /\ Engines(w, Forgiven(w)) /\ Stacks(w, Forgiven(w))
<1>1. PICK u : u = [w EXCEPT !.failed = FALSE, !.lost = FALSE, !.wanted = FALSE, !.outside = None]
  OBVIOUS
<1>2. Forgiven(w) = u
  BY <1>1 DEF Forgiven
<1>3. u \in Window
  BY <1>1 DEF Window
<1>4. /\ u.lost = FALSE /\ u.outside = None
      /\ u.db = w.db /\ u.loading = w.loading /\ u.saving = w.saving
      /\ u.token = w.token /\ u.loadedAt = w.loadedAt
  BY <1>1, <1>3 DEF Window
<1>5. /\ u.unsaved = w.unsaved /\ u.dirty = w.dirty /\ u.model = w.model /\ u.held = w.held
      /\ Engines(w, u) /\ Stacks(w, u)
  BY <1>1, <1>3 DEF Window, Engines, Stacks
<1>6. Shown(u) = Shown(w)
  BY <1>3, <1>5, ShownSame
<1> QED
  BY <1>2, <1>3, <1>4, <1>5, <1>6

\* revert_to_saved.
LEMMA RevertedOf ==
  ASSUME NEW w \in Window, NEW st \in Stored, NEW f \in Nat, w.loading = None, w.saving = None
  PROVE  Better(w, Forgiven(Install(w, st.model, st.hw)), st, f)
<1>1. PICK m \in Models, hw \in Nat : m = st.model /\ hw = st.hw
  BY DEF Stored
<1>2. PICK v : v = Install(w, m, hw)
  OBVIOUS
<1>3. Fresh(v, m, hw) /\ BuildInv(v) /\ Alike(w, v) /\ v.saving = None
  BY <1>2, InstallOf
<1>4. v \in Window
  BY <1>3 DEF Fresh
<1>5. PICK u \in Window : u = Forgiven(v)
  BY <1>4, ForgivenOf
<1>6. /\ u.lost = FALSE /\ u.outside = None
      /\ u.db = v.db /\ u.loading = v.loading /\ u.saving = v.saving
      /\ u.token = v.token /\ u.loadedAt = v.loadedAt
      /\ u.unsaved = v.unsaved /\ u.dirty = v.dirty
      /\ Shown(u) = Shown(v) /\ Engines(v, u) /\ Stacks(v, u)
  BY <1>4, <1>5, ForgivenOf
<1>7. Fresh(u, m, hw)
  BY <1>3, <1>6 DEF Fresh, Stacks
<1>8. BuildInv(u)
  BY <1>3, <1>4, <1>6, BuildKept
<1>9. u.db = w.db /\ u.loading = None
  BY <1>3, <1>6 DEF Alike
<1>10. hw <= st.hw
  BY <1>1
<1>11. WinInv(u, st, f)
  BY <1>1, <1>3, <1>6, <1>7, <1>8, <1>9, <1>10, FreshOf
<1> QED
  BY <1>1, <1>2, <1>5, <1>7, <1>9, <1>11, FreshHistory DEF Better

\* save_as: the model that is shown is in the store.
SavedAs(w, p, hw) ==
  Forgiven([ModelMut(w) EXCEPT !.db = p, !.token = hw, !.loadedAt = hw,
                               !.unsaved = NoChanges, !.dirty = FALSE])

LEMMA SavedAsOf ==
  ASSUME NEW w \in Window, NEW p \in Path, NEW st \in Stored, NEW f \in Nat,
         w.loading = None, w.saving = None, BuildInv(w), HistoryInv(w), st.model = Shown(w)
  PROVE  /\ SavedAs(w, p, st.hw) \in Window /\ SavedAs(w, p, st.hw).db = p
         /\ WinInv(SavedAs(w, p, st.hw), st, f) /\ HistoryInv(SavedAs(w, p, st.hw))
<1>1. PICK hw \in Nat : hw = st.hw
  BY DEF Stored
<1>2. PICK t \in Window : t = ModelMut(w)
  BY ModelMutOf
<1>3. Shown(t) = Shown(w) /\ Ledger(w, t) /\ Engines(w, t) /\ Stacks(w, t)
  BY <1>2, ModelMutOf
<1>4. PICK v : v = [t EXCEPT !.db = p, !.token = hw, !.loadedAt = hw,
                             !.unsaved = NoChanges, !.dirty = FALSE]
  OBVIOUS
<1>5. v \in Window
  BY <1>4, NoChangesType DEF Window
<1>6. /\ v.db = p /\ v.token = hw /\ v.loadedAt = hw /\ v.unsaved = NoChanges /\ v.dirty = FALSE
      /\ v.loading = t.loading /\ v.saving = t.saving /\ v.model = t.model /\ v.held = t.held
      /\ Engines(t, v) /\ Stacks(t, v)
  BY <1>4, <1>5 DEF Window, Engines, Stacks
<1>7. PICK u \in Window : u = Forgiven(v)
  BY <1>5, ForgivenOf
<1>8. /\ u.lost = FALSE /\ u.outside = None
      /\ u.db = v.db /\ u.loading = v.loading /\ u.saving = v.saving
      /\ u.token = v.token /\ u.loadedAt = v.loadedAt
      /\ u.unsaved = v.unsaved /\ u.dirty = v.dirty
      /\ Shown(u) = Shown(v) /\ Engines(v, u) /\ Stacks(v, u)
  BY <1>5, <1>7, ForgivenOf
<1>9. Shown(u) = Shown(w)
  BY <1>3, <1>5, <1>6, <1>8, ShownSame
<1>10. Engines(w, u) /\ Stacks(w, u)
  BY <1>3, <1>6, <1>8, EnginesTrans, StacksTrans
<1>11. BuildInv(u)
  BY <1>9, <1>10, BuildKept
<1>12. u.loading = None /\ u.saving = None
  BY <1>3, <1>6, <1>8 DEF Ledger
<1>13. hw # None
  BY NoneAssumption
<1>14. SaveInv(u, st, NoChanges)
  BY <1>6, <1>8, <1>9, <1>12 DEF SaveInv, Within
<1>15. TokenInv(u, st.hw, f)
  BY <1>1, <1>6, <1>8, <1>12, <1>13 DEF TokenInv, Token
<1>16. StrandInv(u, st.hw) /\ LostInv(u) /\ LoadInv(u, st)
  BY <1>6, <1>8, <1>12 DEF StrandInv, LostInv, LoadInv
<1>17. HistoryInv(u)
  BY <1>9, <1>10 DEF HistoryInv, Stacks
<1>18. SavedAs(w, p, st.hw) = u
  BY <1>1, <1>2, <1>4, <1>7 DEF SavedAs
<1> QED
  BY <1>6, <1>8, <1>11, <1>14, <1>15, <1>16, <1>17, <1>18 DEF WinInv

-----------------------------------------------------------------------------
(* The steps that leave the stores alone. *)

LEMMA StoreIs ==
  ASSUME TypeOK
  PROVE  StoreOf(win) \in Stored /\ ForeignOf(win) \in Nat
<1>1. win.db \in Path \cup {None}
  BY DEF TypeOK, Window
<1>2. CASE win.db = None
  BY <1>2, EmptyType DEF StoreOf, ForeignOf, Stored
<1>3. CASE win.db # None
  BY <1>1, <1>3 DEF StoreOf, ForeignOf, Stored, TypeOK
<1> QED
  BY <1>2, <1>3

\* The counters stay counters.
Counting == commands' \in Nat /\ faults' \in Nat /\ outsiders' \in Nat

LEMMA Kept ==
  ASSUME IInv, NEW u, u \in Window, win' = u, UNCHANGED <<store, foreign>>, Counting,
         WinInv(u, StoreOf(u), ForeignOf(u)), HistoryInv(u)
  PROVE  IInv'
<1>1. TypeOK'
  BY DEF IInv, TypeOK, Counting
<1>2. ForeignInv'
  BY DEF IInv, ForeignInv
<1>3. StoreOf(u)' = StoreOf(u) /\ ForeignOf(u)' = ForeignOf(u)
  BY DEF StoreOf, ForeignOf
<1>4. WinInv(win, StoreOf(win), ForeignOf(win))'
  BY <1>3 DEF WinInv, BuildInv, LostInv, SaveInv, TokenInv, StrandInv, LoadInv, StoreOf, ForeignOf
<1>5. HistoryInv(win)'
  BY DEF HistoryInv
<1> QED
  BY <1>1, <1>2, <1>4, <1>5 DEF IInv

LEMMA BetterKept ==
  ASSUME IInv, NEW u, win' = u, UNCHANGED <<store, foreign>>, Counting,
         Better(win, u, StoreOf(win), ForeignOf(win))
  PROVE  IInv'
<1>1. StoreOf(u) = StoreOf(win) /\ ForeignOf(u) = ForeignOf(win)
  BY DEF Better, StoreOf, ForeignOf
<1>2. u \in Window /\ HistoryInv(u) /\ WinInv(u, StoreOf(u), ForeignOf(u))
  BY <1>1 DEF Better
<1> QED
  BY <1>2, Kept

LEMMA FaultCounts ==
  ASSUME TypeOK, NEW x, Fault(x) \/ UNCHANGED faults
  PROVE  faults' \in Nat
BY DEF TypeOK, Fault

LEMMA CommandCounts ==
  ASSUME TypeOK, Command
  PROVE  commands' \in Nat /\ win.loading = None
BY DEF TypeOK, Command

\* Another loading.
LEMMA LoadingOf ==
  ASSUME NEW w \in Window, NEW l \in Load, NEW st \in Stored, NEW f \in Nat,
         WinInv(w, st, f), HistoryInv(w), w.loading # None,
         l.done = "ok" => l.got = st
  PROVE  Better(w, [w EXCEPT !.loading = l], st, f)
<1>1. PICK u : u = [w EXCEPT !.loading = l]
  OBVIOUS
<1>2. u \in Window
  BY <1>1 DEF Window
<1>3. /\ u.db = w.db /\ u.loading = l /\ u.saving = w.saving /\ u.lost = w.lost /\ u.outside = w.outside
      /\ u.model = w.model /\ u.held = w.held /\ Engines(w, u) /\ Stacks(w, u)
  BY <1>1, <1>2 DEF Window, Engines, Stacks
<1>4. Shown(u) = Shown(w) /\ l # None
  BY <1>2, <1>3, ShownSame, NoneAssumption
<1>5. ~Holding(w) /\ ~Holding(u)
  BY <1>3, <1>4 DEF Holding
<1>6. BuildInv(u) /\ LostInv(u)
  BY <1>2, <1>3, <1>4, BuildKept DEF WinInv, LostInv
<1>7. SaveInv(u, st, NoChanges) /\ TokenInv(u, st.hw, f) /\ StrandInv(u, st.hw)
  BY <1>3, <1>5 DEF WinInv, SaveInv, TokenInv, StrandInv
<1>8. LoadInv(u, st)
  BY <1>3 DEF WinInv, LoadInv, Stored
<1>9. HistoryInv(u)
  BY <1>3, <1>4 DEF HistoryInv, Stacks
<1> QED
  BY <1>1, <1>2, <1>3, <1>6, <1>7, <1>8, <1>9 DEF Better, WinInv

LEMMA LoadsKeep ==
  ASSUME IInv, Loads
  PROVE  IInv'
<1>1. PICK st \in Stored, f \in Nat : st = StoreOf(win) /\ f = ForeignOf(win)
  BY StoreIs DEF IInv
<1>2. win \in Window /\ WinInv(win, st, f) /\ HistoryInv(win)
  BY <1>1 DEF IInv, TypeOK
<1>3. Counting
  BY FaultCounts DEF Loads, Counting, IInv, TypeOK
<1>4. win.loading # None /\ UNCHANGED <<store, foreign>>
  BY DEF Loads
<1>5. st = store[win.db]
  BY <1>1, <1>2, <1>4 DEF WinInv, LoadInv, StoreOf
<1>6. CASE win' = [win EXCEPT !.loading = [done |-> "ok", got |-> store[win.db]]]
  <2>1. PICK l \in Load : l = [done |-> "ok", got |-> st]
    <3>1. [done |-> "ok", got |-> st] \in Load
      BY DEF Load, Stored
    <3> QED
      BY <3>1
  <2>2. Better(win, [win EXCEPT !.loading = l], st, f)
    BY <1>2, <1>4, <2>1, LoadingOf
  <2> QED
    BY <1>1, <1>3, <1>4, <1>5, <1>6, <2>1, <2>2, BetterKept
<1>7. CASE win' = [win EXCEPT !.loading = [done |-> "failed"]]
  <2>1. PICK l \in Load : l = [done |-> "failed"]
    <3>1. [done |-> "failed"] \in Load
      BY DEF Load
    <3> QED
      BY <3>1
  <2>2. Better(win, [win EXCEPT !.loading = l], st, f)
    BY <1>2, <1>4, <2>1, LoadingOf
  <2> QED
    BY <1>1, <1>3, <1>4, <1>7, <2>1, <2>2, BetterKept
<1> QED
  BY <1>6, <1>7 DEF Loads

\* What becomes of a build b but its sharing and its end.
LEMMA BuildingOf ==
  ASSUME NEW w \in Window, NEW b \in Build, NEW st, NEW f,
         WinInv(w, st, f), HistoryInv(w), w.building # None,
         b.of = w.building.of, b.edits = w.building.edits, b.stale = w.building.stale
  PROVE  Better(w, [w EXCEPT !.building = b], st, f)
<1>1. PICK u : u = [w EXCEPT !.building = b]
  OBVIOUS
<1>2. u \in Window
  BY <1>1 DEF Window
<1>3. Ledger(w, u) /\ Stacks(w, u) /\ u.model = w.model /\ u.held = w.held /\ u.building = b
  BY <1>1, <1>2 DEF Window, Ledger, Stacks
<1>4. Shown(u) = Shown(w) /\ b # None
  BY <1>2, <1>3, ShownSame, NoneAssumption
<1>5. w.building \in Build
  BY DEF Window
<1>6. BuildInv(u)
  BY <1>3, <1>4, <1>5, SamePromise DEF WinInv, BuildInv
<1>7. WinInv(u, st, f)
  BY <1>2, <1>3, <1>4, <1>6, WinKept
<1>8. HistoryInv(u)
  BY <1>3, <1>4 DEF HistoryInv, Stacks
<1> QED
  BY <1>1, <1>2, <1>3, <1>7, <1>8 DEF Better, Ledger

LEMMA CopiesKeep ==
  ASSUME IInv, Copies
  PROVE  IInv'
<1>1. PICK st, f : st = StoreOf(win) /\ f = ForeignOf(win)
  OBVIOUS
<1>2. win \in Window /\ WinInv(win, st, f) /\ HistoryInv(win)
  BY <1>1 DEF IInv, TypeOK
<1>3. Counting /\ UNCHANGED <<store, foreign>>
  BY DEF Copies, Counting, IInv, TypeOK
<1>4. win.building # None /\ win.building \in Build
  BY <1>2 DEF Copies, Sharing, Window
<1>5. PICK b \in Build : b = LetGo(win.building)
  BY <1>4, LetGoBuild
<1>6. b.of = win.building.of /\ b.edits = win.building.edits /\ b.stale = win.building.stale
  BY <1>4, <1>5, LetGoBuild
<1>7. Better(win, [win EXCEPT !.building = b], st, f)
  BY <1>2, <1>4, <1>6, BuildingOf
<1>8. win' = [win EXCEPT !.building = b]
  BY <1>5 DEF Copies
<1> QED
  BY <1>1, <1>3, <1>7, <1>8, BetterKept

LEMMA EndedOf ==
  ASSUME NEW b \in Build, NEW d \in {"ok", "failed"}
  PROVE  /\ [b EXCEPT !.done = d] \in Build
         /\ [b EXCEPT !.done = d].of = b.of /\ [b EXCEPT !.done = d].edits = b.edits
         /\ [b EXCEPT !.done = d].stale = b.stale
BY DEF Build

LEMMA BuildsKeep ==
  ASSUME IInv, Builds
  PROVE  IInv'
<1>1. PICK st, f : st = StoreOf(win) /\ f = ForeignOf(win)
  OBVIOUS
<1>2. win \in Window /\ WinInv(win, st, f) /\ HistoryInv(win)
  BY <1>1 DEF IInv, TypeOK
<1>3. Counting /\ UNCHANGED <<store, foreign>>
  BY FaultCounts DEF Builds, Counting, IInv, TypeOK
<1>4. win.building # None /\ win.building \in Build
  BY <1>2 DEF Builds, Window
<1>5. PICK d \in {"ok", "failed"} : win' = [win EXCEPT !.building.done = d]
  BY DEF Builds
<1>6. PICK b \in Build : b = [win.building EXCEPT !.done = d]
  BY <1>4, EndedOf
<1>7. b.of = win.building.of /\ b.edits = win.building.edits /\ b.stale = win.building.stale
  BY <1>4, <1>6, EndedOf
<1>8. Better(win, [win EXCEPT !.building = b], st, f)
  BY <1>2, <1>4, <1>7, BuildingOf
<1>9. win' = [win EXCEPT !.building = b]
  <2>1. [win EXCEPT !.building.done = d] = [win EXCEPT !.building = b]
    BY <1>2, <1>4, <1>6 DEF Window, Build
  <2> QED
    BY <1>5, <2>1
<1> QED
  BY <1>1, <1>3, <1>8, <1>9, BetterKept

\* A window without its model.
LEMMA UnloadedOf ==
  ASSUME NEW w \in Window, NEW st, NEW f, WinInv(w, st, f), HistoryInv(w), w.loading # None,
         NEW st2, NEW f2
  PROVE  /\ [w EXCEPT !.loading = None, !.db = None] \in Window
         /\ WinInv([w EXCEPT !.loading = None, !.db = None], st2, f2)
         /\ HistoryInv([w EXCEPT !.loading = None, !.db = None])
<1>1. PICK u : u = [w EXCEPT !.loading = None, !.db = None]
  OBVIOUS
<1>2. u \in Window
  BY <1>1 DEF Window
<1>3. /\ u.db = None /\ u.loading = None /\ u.saving = w.saving /\ u.lost = w.lost /\ u.outside = w.outside
      /\ u.model = w.model /\ u.held = w.held /\ Engines(w, u) /\ Stacks(w, u)
  BY <1>1, <1>2 DEF Window, Engines, Stacks
<1>4. Shown(u) = Shown(w)
  BY <1>2, <1>3, ShownSame
<1>5. ~Holding(w) /\ ~Holding(u)
  BY <1>3 DEF Holding
<1>6. BuildInv(u) /\ LostInv(u)
  BY <1>2, <1>3, <1>4, BuildKept DEF WinInv, LostInv
<1>7. SaveInv(u, st2, NoChanges) /\ TokenInv(u, st2.hw, f2) /\ StrandInv(u, st2.hw)
  BY <1>3, <1>5 DEF WinInv, SaveInv, TokenInv, StrandInv
<1>8. LoadInv(u, st2)
  BY <1>3 DEF LoadInv
<1>9. HistoryInv(u)
  BY <1>3, <1>4 DEF HistoryInv, Stacks
<1> QED
  BY <1>1, <1>2, <1>6, <1>7, <1>8, <1>9 DEF WinInv

\* The model that was loaded, in a window w.
LEMMA InstalledOf ==
  ASSUME NEW w \in Window, NEW st \in Stored, NEW f \in Nat, WinInv(w, st, f),
         w.loading # None, w.loading.done \notin {None, "failed"},
         NEW t, t = [w EXCEPT !.loading = None]
  PROVE  Better(w, Install(t, w.loading.got.model, w.loading.got.hw), st, f)
<1>1. /\ w.loading.done = "ok" /\ w.loading.got.model \in Models /\ w.loading.got.hw \in Nat
  <2>1. w.loading \in Load
    BY DEF Window
  <2> QED
    BY <2>1 DEF Load
<1>2. PICK m \in Models, hw \in Nat : m = w.loading.got.model /\ hw = w.loading.got.hw
  BY <1>1
<1>3. w.saving = None
  BY DEF WinInv, TokenInv, Holding
<1>4. hw <= st.hw /\ (hw = st.hw => m = st.model) /\ w.outside = None /\ ~w.lost
  BY <1>1, <1>2 DEF WinInv, LoadInv
<1>5. t \in Window
  BY DEF Window
<1>6. t.loading = None /\ t.saving = None /\ t.outside = None /\ ~t.lost /\ t.db = w.db
  BY <1>3, <1>4, <1>5 DEF Window
<1>7. PICK u : u = Install(t, m, hw)
  OBVIOUS
<1>8. Fresh(u, m, hw) /\ BuildInv(u) /\ Alike(t, u) /\ u.saving = None
  BY <1>5, <1>6, <1>7, InstallOf
<1>9. u.loading = None /\ ~u.lost /\ u.outside = None /\ u.db = w.db
  BY <1>6, <1>8 DEF Alike
<1>10. WinInv(u, st, f)
  BY <1>4, <1>8, <1>9, FreshOf
<1> QED
  BY <1>2, <1>7, <1>8, <1>9, <1>10, FreshHistory DEF Better, Fresh

LEMMA PollLoadKeeps ==
  ASSUME IInv, PollLoad
  PROVE  IInv'
<1>1. PICK st \in Stored, f \in Nat : st = StoreOf(win) /\ f = ForeignOf(win)
  BY StoreIs DEF IInv
<1>2. win \in Window /\ WinInv(win, st, f) /\ HistoryInv(win)
  BY <1>1 DEF IInv, TypeOK
<1>3. Counting /\ UNCHANGED <<store, foreign>> /\ win.loading # None
  BY DEF PollLoad, Counting, IInv, TypeOK
<1>4. PICK t : t = [win EXCEPT !.loading = None]
  OBVIOUS
<1>5. CASE win.loading.done = "failed"
  <2>1. PICK u : u = [win EXCEPT !.loading = None, !.db = None]
    OBVIOUS
  <2>2. win' = u
    <3>1. win' = [[win EXCEPT !.loading = None] EXCEPT !.db = None]
      BY <1>5 DEF PollLoad
    <3> QED
      BY <2>1, <3>1
  <2>3. u \in Window /\ WinInv(u, StoreOf(u), ForeignOf(u)) /\ HistoryInv(u)
    BY <1>2, <1>3, <2>1, UnloadedOf
  <2> QED
    BY <1>3, <2>2, <2>3, Kept
<1>6. CASE win.loading.done # "failed"
  <2>1. win.loading.done \notin {None, "failed"}
    BY <1>6 DEF PollLoad
  <2>2. win' = Install(t, win.loading.got.model, win.loading.got.hw)
    BY <1>4, <1>6 DEF PollLoad
  <2>3. Better(win, Install(t, win.loading.got.model, win.loading.got.hw), st, f)
    BY <1>2, <1>3, <1>4, <2>1, InstalledOf
  <2> QED
    BY <1>1, <1>3, <2>2, <2>3, BetterKept
<1> QED
  BY <1>5, <1>6

\* A change of what is shown by no one, in an engine that stays right.
LEMMA SettledOf ==
  ASSUME NEW w \in Window, NEW u \in Window, NEW st, NEW f, WinInv(w, st, f), HistoryInv(w),
         Shown(u) = Shown(w), Ledger(w, u), Stacks(w, u), BuildInv(u)
  PROVE  Better(w, u, st, f)
<1>1. WinInv(u, st, f)
  BY WinKept
<1> QED
  BY <1>1 DEF Better, HistoryInv, Stacks, Ledger

LEMMA PollHeldKeeps ==
  ASSUME IInv, PollHeld
  PROVE  IInv'
<1>1. PICK st, f : st = StoreOf(win) /\ f = ForeignOf(win)
  OBVIOUS
<1>2. win \in Window /\ WinInv(win, st, f) /\ HistoryInv(win)
  BY <1>1 DEF IInv, TypeOK
<1>3. Counting /\ UNCHANGED <<store, foreign>>
  BY DEF PollHeld, Counting, IInv, TypeOK
<1>4. PICK u \in Window : u = WriteHeld(win)
  BY <1>2, WriteHeldOf
<1>5. Shown(u) = Shown(win) /\ Ledger(win, u) /\ Engines(win, u) /\ Stacks(win, u)
  BY <1>2, <1>4, WriteHeldOf
<1>6. BuildInv(u)
  BY <1>2, <1>5, BuildKept DEF WinInv
<1>7. Better(win, u, st, f)
  BY <1>2, <1>5, <1>6, SettledOf
<1>8. win' = u
  BY <1>4 DEF PollHeld
<1> QED
  BY <1>1, <1>3, <1>7, <1>8, BetterKept

LEMMA PollBuildKeeps ==
  ASSUME IInv, PollBuild
  PROVE  IInv'
<1>1. PICK st, f : st = StoreOf(win) /\ f = ForeignOf(win)
  OBVIOUS
<1>2. win \in Window /\ WinInv(win, st, f) /\ HistoryInv(win) /\ BuildInv(win)
  BY <1>1 DEF IInv, TypeOK, WinInv
<1>3. Counting /\ UNCHANGED <<store, foreign>> /\ win.building # None
  BY DEF PollBuild, Counting, IInv, TypeOK
<1>4. PICK u : u = Land(win)
  OBVIOUS
<1>5. u \in Window /\ Shown(u) = Shown(win) /\ Ledger(win, u) /\ Stacks(win, u) /\ BuildInv(u)
  BY <1>2, <1>3, <1>4, LandOf
<1>6. Better(win, u, st, f)
  BY <1>2, <1>5, SettledOf
<1>7. win' = u
  BY <1>4 DEF PollBuild
<1> QED
  BY <1>1, <1>3, <1>6, <1>7, BetterKept

LEMMA PollSavesKeeps ==
  ASSUME IInv, PollSaves
  PROVE  IInv'
<1>1. PICK st \in Stored, f \in Nat : st = StoreOf(win) /\ f = ForeignOf(win)
  BY StoreIs DEF IInv
<1>2. win \in Window /\ WinInv(win, st, f) /\ HistoryInv(win) /\ BuildInv(win)
  BY <1>1 DEF IInv, TypeOK, WinInv
<1>3. Counting /\ UNCHANGED <<store, foreign>> /\ win.saving # None /\ win.saving.done # None
  BY DEF PollSaves, Counting, IInv, TypeOK
<1>4. Holding(win) /\ st = store[win.db]
  BY <1>1, <1>2, <1>3 DEF WinInv, TokenInv, Holding, StoreOf
<1>5. PICK u : u = LandSave(win, st.hw)
  OBVIOUS
<1>6. /\ u \in Window /\ Shown(u) = Shown(win) /\ Engines(win, u) /\ Stacks(win, u)
      /\ u.db = win.db /\ u.loading = win.loading
      /\ SaveInv(u, st, NoChanges) /\ TokenInv(u, st.hw, f) /\ StrandInv(u, st.hw) /\ LostInv(u)
  BY <1>2, <1>3, <1>5, LandSaveOf DEF WinInv
<1>7. BuildInv(u)
  BY <1>2, <1>6, BuildKept
<1>8. LoadInv(u, st)
  BY <1>4, <1>6 DEF LoadInv, Holding
<1>9. HistoryInv(u)
  BY <1>2, <1>6 DEF HistoryInv, Stacks
<1>10. Better(win, u, st, f)
  BY <1>6, <1>7, <1>8, <1>9 DEF Better, WinInv
<1>11. win' = u
  BY <1>4, <1>5 DEF PollSaves
<1> QED
  BY <1>1, <1>3, <1>10, <1>11, BetterKept

\* What a probe finds is another program's save.
LEMMA FoundOf ==
  ASSUME NEW w \in Window, NEW o \in Nat \cup {None}, NEW st, NEW f,
         WinInv(w, st, f), HistoryInv(w), w.loading = None, w.saving = None,
         o # None => w.token # st.hw
  PROVE  Better(w, [w EXCEPT !.outside = o], st, f)
<1>1. PICK u : u = [w EXCEPT !.outside = o]
  OBVIOUS
<1>2. u \in Window
  BY <1>1 DEF Window
<1>3. /\ u.db = w.db /\ u.loading = w.loading /\ u.saving = w.saving /\ u.lost = w.lost /\ u.outside = o
      /\ u.token = w.token /\ u.unsaved = w.unsaved /\ u.failed = w.failed /\ u.dirty = w.dirty
      /\ u.loadedAt = w.loadedAt
      /\ u.model = w.model /\ u.held = w.held /\ Engines(w, u) /\ Stacks(w, u)
  BY <1>1, <1>2 DEF Window, Engines, Stacks
<1>4. Shown(u) = Shown(w)
  BY <1>2, <1>3, ShownSame
<1>5. Holding(w) <=> Holding(u)
  BY <1>3 DEF Holding
<1>6. BuildInv(u) /\ LostInv(u)
  BY <1>2, <1>3, <1>4, BuildKept DEF WinInv, LostInv
<1>7. SaveInv(u, st, NoChanges)
  BY <1>3, <1>4, <1>5, WithinSame DEF WinInv, SaveInv
<1>8. TokenInv(u, st.hw, f) /\ StrandInv(u, st.hw)
  BY <1>3, <1>5 DEF WinInv, TokenInv, Token, StrandInv
<1>9. LoadInv(u, st) /\ HistoryInv(u)
  BY <1>3, <1>4 DEF LoadInv, HistoryInv, Stacks
<1> QED
  BY <1>1, <1>2, <1>3, <1>6, <1>7, <1>8, <1>9 DEF Better, WinInv

LEMMA ProbeKeeps ==
  ASSUME IInv, Probe
  PROVE  IInv'
<1>1. PICK st \in Stored, f \in Nat : st = StoreOf(win) /\ f = ForeignOf(win)
  BY StoreIs DEF IInv
<1>2. win \in Window /\ WinInv(win, st, f) /\ HistoryInv(win)
  BY <1>1 DEF IInv, TypeOK
<1>3. Counting /\ UNCHANGED <<store, foreign>>
  BY FaultCounts DEF Probe, Counting, IInv, TypeOK
<1>4. win.loading = None /\ win.saving = None /\ st = store[win.db] /\ st.hw \in Nat
  BY <1>1 DEF Probe, StoreOf, Stored
<1>5. PICK o \in Nat \cup {None} : win' = [win EXCEPT !.outside = o] /\ (o # None => win.token # st.hw)
  BY <1>4 DEF Probe
<1>6. Better(win, [win EXCEPT !.outside = o], st, f)
  BY <1>2, <1>4, <1>5, FoundOf
<1> QED
  BY <1>1, <1>3, <1>5, <1>6, BetterKept

-----------------------------------------------------------------------------
(* The commands that leave the stores alone. *)

LEMMA WinOf ==
  ASSUME IInv, Command
  PROVE  /\ \E st \in Stored, f \in Nat : st = StoreOf(win) /\ f = ForeignOf(win)
         /\ win \in Window /\ WinInv(win, StoreOf(win), ForeignOf(win)) /\ HistoryInv(win)
         /\ win.loading = None /\ commands' \in Nat
         /\ faults \in Nat /\ outsiders \in Nat
<1>1. TypeOK
  BY DEF IInv
<1> QED
  BY <1>1, StoreIs, CommandCounts DEF IInv, TypeOK

\* A recorded change.
LEMMA RecordKeeps ==
  ASSUME IInv, Command, UNCHANGED <<store, foreign, faults, outsiders>>,
         NEW v, Done(win, v, StoreOf(win), ForeignOf(win)),
         NEW s \in Step, Back(Shown(v), s) = Shown(win), win' = Record(win, v, s)
  PROVE  IInv'
<1>1. Counting
  BY WinOf DEF Counting
<1>2. PICK u : u = Record(win, v, s)
  OBVIOUS
<1>3. Better(win, u, StoreOf(win), ForeignOf(win))
  BY <1>2, WinOf, RecordOf
<1> QED
  BY <1>1, <1>2, <1>3, BetterKept

LEMMA EditCellsKeeps ==
  ASSUME IInv, NEW es \in Seq(Edit), EditCells(es)
  PROVE  IInv'
<1>1. Command /\ UNCHANGED <<store, foreign, faults, outsiders>>
  BY DEF EditCells
<1>2. PICK st \in Stored, f \in Nat : st = StoreOf(win) /\ f = ForeignOf(win)
  BY <1>1, WinOf
<1>3. win \in Window /\ WinInv(win, st, f) /\ win.loading = None
  BY <1>1, <1>2, WinOf
<1>4. PICK r : r = PutCells(win, es)
  OBVIOUS
<1>5. PutGood(win, es, st, f, r)
  BY <1>3, <1>4, PutCellsOf
<1>6. PICK v \in Window, back \in Seq(Edit) : v = r.win /\ back = r.inverse
  BY <1>5 DEF PutGood, Done
<1>7. PICK s : s = [kind |-> "cells", edits |-> back]
  OBVIOUS
<1>8. Back(Shown(v), s) = Shown(win) /\ s \in Step
  <2>1. Shown(v) \in Models /\ Shown(win) \in Models
    BY <1>3, ShownOf
  <2>2. Shown(win).cells = Put(Shown(v).cells, back) /\ Shown(win).form = Shown(v).form
    BY <1>5, <1>6 DEF PutGood
  <2> QED
    BY <1>7, <2>1, <2>2, BackCells
<1>9. win' = Record(win, v, s)
  BY <1>4, <1>6, <1>7 DEF EditCells
<1>10. Done(win, v, st, f)
  BY <1>5, <1>6 DEF PutGood
<1> QED
  BY <1>1, <1>2, <1>8, <1>9, <1>10, RecordKeeps

LEMMA EditRefusedKeeps ==
  ASSUME IInv, NEW es \in Seq(Edit), Len(es) # 0, NEW lives \in BOOLEAN, EditRefused(es, lives)
  PROVE  IInv'
<1>1. Command /\ UNCHANGED <<store, foreign, outsiders>>
  BY DEF EditRefused
<1>2. PICK st \in Stored, f \in Nat : st = StoreOf(win) /\ f = ForeignOf(win)
  BY <1>1, WinOf
<1>3. win \in Window /\ WinInv(win, st, f) /\ win.loading = None /\ HistoryInv(win)
  BY <1>1, <1>2, WinOf
<1>4. Counting
  BY <1>1, WinOf, FaultCounts DEF Counting, EditRefused, IInv
<1>5. PICK n \in Nat : n = Len(es) /\ n # 0
  OBVIOUS
<1>6. PICK pre \in Seq(Edit), e \in Edit : pre = SubSeq(es, 1, n - 1) /\ e = es[n]
  <2>1. SubSeq(es, 1, n - 1) \in Seq(Edit) /\ es[n] \in Edit
    BY <1>5
  <2> QED
    BY <2>1
<1>7. PICK r : r = PutCells(win, pre)
  OBVIOUS
<1>8. PICK u : u = PutCells(Refused(r.win, e.at, e.value, lives), r.inverse).win
  OBVIOUS
<1>9. Done(win, u, st, f) /\ Shown(u) = Shown(win)
  BY <1>3, <1>7, <1>8, EditRefusedOf
<1>10. win' = u
  BY <1>5, <1>6, <1>7, <1>8 DEF EditRefused
<1>11. Better(win, u, st, f)
  BY <1>3, <1>9, DoneBetter
<1> QED
  BY <1>1, <1>2, <1>4, <1>10, <1>11, BetterKept

LEMMA SetFormulaKeeps ==
  ASSUME IInv, NEW form \in Formula, SetFormula(form)
  PROVE  IInv'
<1>1. Command /\ UNCHANGED <<store, foreign, faults, outsiders>>
  BY DEF SetFormula
<1>2. PICK st \in Stored, f \in Nat : st = StoreOf(win) /\ f = ForeignOf(win)
  BY <1>1, WinOf
<1>3. win \in Window /\ WinInv(win, st, f) /\ win.loading = None
  BY <1>1, <1>2, WinOf
<1>4. PICK m \in Models : m = Shown(win) /\ m.form = win.model.form
  BY <1>3, ShownOf
<1>5. m.form \in Formula \cup {None}
  BY ModelOf
<1>6. PICK v : v = SwapStructure(win, form)
  OBVIOUS
<1>7. Done(win, v, st, f) /\ Shown(v) = [m EXCEPT !.form = form]
  BY <1>3, <1>4, <1>6, SwapStructureOf
<1>8. PICK s : s = [kind |-> "form", form |-> m.form]
  OBVIOUS
<1>9. Back(Shown(v), s) = Shown(win) /\ s \in Step
  <2>1. PICK k \in Models : k = Shown(v)
    BY <1>7, WithForm
  <2>2. Back(k, s) = [k EXCEPT !.form = m.form] /\ s \in Step
    BY <1>5, <1>8, BackForm
  <2>3. [k EXCEPT !.form = m.form] = m
    BY <1>7, <2>1, FormBack
  <2> QED
    BY <1>4, <2>1, <2>2, <2>3
<1>10. win' = Record(win, v, s)
  BY <1>4, <1>6, <1>8 DEF SetFormula
<1> QED
  BY <1>1, <1>2, <1>7, <1>9, <1>10, RecordKeeps

LEMMA DeleteMeasureKeeps ==
  ASSUME IInv, DeleteMeasure
  PROVE  IInv'
<1>1. Command /\ UNCHANGED <<store, foreign, faults, outsiders>>
  BY DEF DeleteMeasure
<1>2. PICK st \in Stored, f \in Nat : st = StoreOf(win) /\ f = ForeignOf(win)
  BY <1>1, WinOf
<1>3. win \in Window /\ WinInv(win, st, f) /\ win.loading = None
  BY <1>1, <1>2, WinOf
<1>4. PICK n \in Models : n = Shown(win)
  BY <1>3, ShownOf
<1>5. PICK m \in Models : m = [n EXCEPT !.form = None]
  BY WithForm
<1>6. PICK v : v = SwapModel(win, m)
  OBVIOUS
<1>7. Done(win, v, st, f) /\ Shown(v) = m
  BY <1>3, <1>6, SwapModelOf
<1>8. PICK s : s = [kind |-> "model", model |-> n]
  OBVIOUS
<1>9. Back(Shown(v), s) = Shown(win) /\ s \in Step
  BY <1>4, <1>7, <1>8, BackModel
<1>10. win' = Record(win, v, s)
  BY <1>4, <1>5, <1>6, <1>8 DEF DeleteMeasure
<1> QED
  BY <1>1, <1>2, <1>7, <1>9, <1>10, RecordKeeps

LEMMA ImportKeeps ==
  ASSUME IInv, NEW x \in Value, Import(x)
  PROVE  IInv'
<1>1. Command /\ UNCHANGED <<store, foreign, faults, outsiders>>
  BY DEF Import
<1>2. PICK st \in Stored, f \in Nat : st = StoreOf(win) /\ f = ForeignOf(win)
  BY <1>1, WinOf
<1>3. win \in Window /\ WinInv(win, st, f) /\ win.loading = None
  BY <1>1, <1>2, WinOf
<1>4. PICK n \in Models : n = Shown(win)
  BY <1>3, ShownOf
<1>5. PICK cs \in Cells : cs = [c \in Cell |-> x]
  <2>1. [c \in Cell |-> x] \in Cells
    BY DEF Cells
  <2> QED
    BY <2>1
<1>6. PICK m \in Models : m = [n EXCEPT !.cells = cs]
  BY WithCells
<1>7. PICK v : v = Imported(win, m)
  OBVIOUS
<1>8. Done(win, v, st, f) /\ Shown(v) = m
  BY <1>3, <1>7, ImportOf
<1>9. PICK s : s = [kind |-> "model", model |-> n]
  OBVIOUS
<1>10. Back(Shown(v), s) = Shown(win) /\ s \in Step
  BY <1>4, <1>8, <1>9, BackModel
<1>11. win' = Record(win, v, s)
  BY <1>4, <1>5, <1>6, <1>7, <1>9 DEF Import, Imported
<1> QED
  BY <1>1, <1>2, <1>8, <1>10, <1>11, RecordKeeps

LEMMA UndoKeeps ==
  ASSUME IInv, Undo
  PROVE  IInv'
<1>1. Command /\ UNCHANGED <<store, foreign, faults, outsiders>> /\ win.undo # <<>>
  BY DEF Undo
<1>2. PICK st \in Stored, f \in Nat : st = StoreOf(win) /\ f = ForeignOf(win)
  BY <1>1, WinOf
<1>3. PICK u : u = Undone(win, ApplyStep(win, Last(win.undo)))
  OBVIOUS
<1>4. Better(win, u, st, f)
  BY <1>1, <1>2, <1>3, WinOf, UndoOf
<1>5. win' = u
  BY <1>3 DEF Undo, Undone
<1>6. Counting
  BY <1>1, WinOf DEF Counting
<1> QED
  BY <1>1, <1>2, <1>4, <1>5, <1>6, BetterKept

LEMMA RedoKeeps ==
  ASSUME IInv, Redo
  PROVE  IInv'
<1>1. Command /\ UNCHANGED <<store, foreign, faults, outsiders>> /\ win.redo # <<>>
  BY DEF Redo
<1>2. PICK st \in Stored, f \in Nat : st = StoreOf(win) /\ f = ForeignOf(win)
  BY <1>1, WinOf
<1>3. PICK u : u = Redone(win, ApplyStep(win, Last(win.redo)))
  OBVIOUS
<1>4. Better(win, u, st, f)
  BY <1>1, <1>2, <1>3, WinOf, RedoOf
<1>5. win' = u
  BY <1>3 DEF Redo, Redone
<1>6. Counting
  BY <1>1, WinOf DEF Counting
<1> QED
  BY <1>1, <1>2, <1>4, <1>5, <1>6, BetterKept

LEMMA RecalculateKeeps ==
  ASSUME IInv, Recalculate
  PROVE  IInv'
<1>1. Command /\ UNCHANGED <<store, foreign, faults, outsiders>>
  BY DEF Recalculate
<1>2. win \in Window /\ WinInv(win, StoreOf(win), ForeignOf(win)) /\ HistoryInv(win) /\ Counting
  BY <1>1, WinOf DEF Counting
<1>3. PICK u : u = RebuildEngine(win)
  OBVIOUS
<1>4. u \in Window /\ Shown(u) = Shown(win) /\ Ledger(win, u) /\ Stacks(win, u) /\ BuildInv(u)
  BY <1>2, <1>3, RebuildOf
<1>5. Better(win, u, StoreOf(win), ForeignOf(win))
  BY <1>2, <1>4, SettledOf
<1>6. win' = u
  BY <1>3 DEF Recalculate
<1> QED
  BY <1>1, <1>2, <1>5, <1>6, BetterKept

LEMMA SaveModelKeeps ==
  ASSUME IInv, SaveModel
  PROVE  IInv'
<1>1. Command /\ UNCHANGED <<store, foreign, faults, outsiders>>
  BY DEF SaveModel
<1>2. PICK st \in Stored, f \in Nat : st = StoreOf(win) /\ f = ForeignOf(win)
  BY <1>1, WinOf
<1>3. win \in Window /\ WinInv(win, st, f) /\ win.loading = None /\ HistoryInv(win) /\ Counting
  BY <1>1, <1>2, WinOf DEF Counting
<1>4. PICK x \in Changes : x = [cells |-> {}, structure |-> TRUE]
  <2>1. [cells |-> {}, structure |-> TRUE] \in Changes
    BY DEF Changes
  <2> QED
    BY <2>1
<1>5. PICK w \in Window : w = win
  BY <1>3
<1>6. Ledger(w, w) /\ Stacks(w, w) /\ Differs(w, w, x)
  BY Reflexive DEF Differs
<1>7. PICK u : u = SaveChanges(w, x)
  OBVIOUS
<1>8. /\ u \in Window /\ Shown(u) = Shown(w) /\ Stacks(w, u) /\ u.db = w.db /\ u.loading = None
      /\ Engines(w, u) /\ (BuildInv(u) => WinInv(u, st, f))
  BY <1>3, <1>5, <1>6, <1>7, SavedOf
<1>9. BuildInv(u)
  BY <1>3, <1>5, <1>8, BuildKept DEF WinInv
<1>10. Better(w, u, st, f)
  BY <1>3, <1>5, <1>8, <1>9, DoneBetter DEF Done
<1>11. win' = u
  BY <1>4, <1>5, <1>7 DEF SaveModel
<1> QED
  BY <1>1, <1>2, <1>3, <1>5, <1>10, <1>11, BetterKept

LEMMA RevertToSavedKeeps ==
  ASSUME IInv, RevertToSaved
  PROVE  IInv'
<1>1. Command /\ UNCHANGED <<store, foreign, outsiders>> /\ win.db # None /\ win.saving = None
  BY DEF RevertToSaved
<1>2. PICK st \in Stored, f \in Nat : st = StoreOf(win) /\ f = ForeignOf(win)
  BY <1>1, WinOf
<1>3. win \in Window /\ WinInv(win, st, f) /\ win.loading = None /\ HistoryInv(win)
  BY <1>1, <1>2, WinOf
<1>4. Counting
  BY <1>1, WinOf, FaultCounts DEF Counting, RevertToSaved, IInv
<1>5. st = store[win.db]
  BY <1>1, <1>2 DEF StoreOf
<1>6. CASE win' = Forgiven(Install(win, store[win.db].model, store[win.db].hw))
  <2>1. PICK u : u = Forgiven(Install(win, st.model, st.hw))
    OBVIOUS
  <2>2. Better(win, u, st, f)
    BY <1>1, <1>3, <2>1, RevertedOf
  <2> QED
    BY <1>1, <1>2, <1>4, <1>5, <1>6, <2>1, <2>2, BetterKept
<1>7. CASE win' = [win EXCEPT !.outside = None]
  <2>1. Better(win, [win EXCEPT !.outside = None], st, f)
    BY <1>1, <1>3, FoundOf
  <2> QED
    BY <1>1, <1>2, <1>4, <1>7, <2>1, BetterKept
<1> QED
  BY <1>6, <1>7 DEF RevertToSaved

LEMMA SwitchModelKeeps ==
  ASSUME IInv, NEW p \in Path, SwitchModel(p)
  PROVE  IInv'
<1>1. Command /\ UNCHANGED <<store, foreign, faults, outsiders>>
  BY DEF SwitchModel
<1>2. Counting
  BY <1>1, WinOf DEF Counting
<1>3. PICK u : u = Opened(p)
  OBVIOUS
<1>4. u \in Window /\ WinInv(u, StoreOf(u), ForeignOf(u)) /\ HistoryInv(u)
  BY <1>3, OpenedOf
<1>5. win' = u
  BY <1>3 DEF SwitchModel
<1> QED
  BY <1>1, <1>2, <1>4, <1>5, Kept

-----------------------------------------------------------------------------
(* The steps that change a store. *)

LEMMA Moved ==
  ASSUME NEW u \in Window, win' = u, store' \in [Path -> Stored], foreign' \in [Path -> Nat],
         Counting, ForeignInv', HistoryInv(u),
         NEW st, NEW f, WinInv(u, st, f),
         u.db # None => st = store'[u.db] /\ f = foreign'[u.db],
         u.db = None => st = StoreOf(u) /\ f = ForeignOf(u)
  PROVE  IInv'
<1>1. TypeOK'
  BY DEF TypeOK, Counting, Stored
<1>2. StoreOf(win)' = st /\ ForeignOf(win)' = f
  BY DEF StoreOf, ForeignOf
<1>3. WinInv(win, StoreOf(win), ForeignOf(win))'
  BY <1>2 DEF WinInv, BuildInv, LostInv, SaveInv, TokenInv, StrandInv, LoadInv
<1>4. HistoryInv(win)'
  BY DEF HistoryInv
<1> QED
  BY <1>1, <1>3, <1>4 DEF IInv

\* Another program's save: no token is the store's high-water any more.
LEMMA OvertakenOf ==
  ASSUME NEW w \in Window, NEW st \in Stored, NEW f, NEW st2 \in Stored, st2.hw = st.hw + 1,
         WinInv(w, st, f)
  PROVE  WinInv(w, st2, st2.hw)
<1>1. st.hw \in Nat /\ st2.hw \in Nat
  BY DEF Stored
<1>2. Holding(w) => (Token(w) = None \/ (Token(w) \in Nat /\ Token(w) <= st.hw))
  <2>1. w.token \in Nat \cup {None} /\ (w.saving # None => w.saving.token \in Nat \cup {None})
    BY DEF Window, Save
  <2> QED
    BY <2>1 DEF WinInv, TokenInv, Token
<1>3. Holding(w) => Token(w) # st2.hw /\ (Token(w) # None => st2.hw > Token(w) /\ Token(w) <= st2.hw)
  BY <1>1, <1>2, NoneAssumption
<1>4. SaveInv(w, st2, NoChanges)
  BY <1>3 DEF WinInv, SaveInv, Token
<1>5. TokenInv(w, st2.hw, st2.hw)
  BY <1>3 DEF WinInv, TokenInv
<1>6. StrandInv(w, st2.hw)
  <2>1. CASE w.saving = None
    BY <1>3, <2>1 DEF WinInv, StrandInv, Token
  <2>2. CASE w.saving # None
    BY <2>2 DEF WinInv, StrandInv, TokenInv
  <2> QED
    BY <2>1, <2>2
<1>7. LoadInv(w, st2)
  <2>1. w.loading # None /\ w.loading.done = "ok" => w.loading.got.hw \in Nat
    <3>1. w.loading # None => w.loading \in Load
      BY DEF Window
    <3> QED
      BY <3>1, NoAnswer DEF Load
  <2> QED
    BY <1>1, <2>1 DEF WinInv, LoadInv
<1> QED
  BY <1>4, <1>5, <1>6, <1>7 DEF WinInv

LEMMA OutsideSaveKeeps ==
  ASSUME IInv, NEW p \in Path, NEW c \in Cell, NEW v \in Value \cup {None}, OutsideSave(p, c, v)
  PROVE  IInv'
<1>1. /\ TypeOK /\ ForeignInv /\ win \in Window /\ HistoryInv(win)
      /\ store \in [Path -> Stored] /\ foreign \in [Path -> Nat]
  BY DEF IInv, TypeOK, Stored
<1>2. Counting /\ win' = win
  BY <1>1 DEF OutsideSave, Counting, TypeOK
<1>3. PICK e \in Edit : e.at = c /\ e.value = v
  BY EditOf
<1>4. PICK old \in Stored : old = store[p]
  BY <1>1
<1>5. old.model \in Models /\ old.hw \in Nat
  BY DEF Stored
<1>6. PICK m \in Models : m = [old.model EXCEPT !.cells[c] = v]
  BY <1>3, <1>5, WithEdit
<1>7. PICK new \in Stored : new.model = m /\ new.hw = old.hw + 1 /\ new = [model |-> m, hw |-> old.hw + 1]
  <2>1. [model |-> m, hw |-> old.hw + 1] \in Stored
    BY <1>5 DEF Stored
  <2> QED
    BY <2>1
<1>8. store' = [store EXCEPT ![p] = new] /\ foreign' = [foreign EXCEPT ![p] = new.hw]
  <2>1. store' = [store EXCEPT ![p] = [old EXCEPT !.model.cells[c] = v, !.hw = @ + 1]]
    BY <1>1, <1>4 DEF OutsideSave
  <2>2. [old EXCEPT !.model.cells[c] = v, !.hw = @ + 1] = new
    BY <1>5, <1>6, <1>7 DEF Stored
  <2> QED
    BY <1>4, <1>7, <2>1, <2>2 DEF OutsideSave
<1>9. new.hw \in Nat
  BY DEF Stored
<1>10. store' \in [Path -> Stored] /\ foreign' \in [Path -> Nat]
  BY <1>1, <1>8, <1>9
<1>11. ForeignInv'
  <2> SUFFICES ASSUME NEW q \in Path PROVE foreign'[q] <= store'[q].hw
    BY DEF ForeignInv
  <2>1. CASE q = p
    BY <1>1, <1>8, <1>9, <2>1
  <2>2. CASE q # p
    BY <1>1, <1>8, <2>2 DEF ForeignInv
  <2> QED
    BY <2>1, <2>2
<1>12. CASE win.db = p
  <2>1. WinInv(win, old, ForeignOf(win)) /\ p # None
    BY <1>4, <1>12, ConstantsAssumption DEF IInv, StoreOf
  <2>2. WinInv(win, new, new.hw)
    BY <1>1, <1>7, <2>1, OvertakenOf
  <2>3. store'[p] = new /\ foreign'[p] = new.hw
    BY <1>1, <1>8
  <2> QED
    BY <1>1, <1>2, <1>10, <1>11, <1>12, <2>1, <2>2, <2>3, Moved
<1>13. CASE win.db # p
  <2>1. win.db # None => win.db \in Path
    BY <1>1 DEF Window
  <2>2. win.db # None => store'[win.db] = store[win.db] /\ foreign'[win.db] = foreign[win.db]
    BY <1>1, <1>8, <1>13, <2>1
  <2>3. WinInv(win, StoreOf(win), ForeignOf(win))
    BY DEF IInv
  <2>4. PICK st, f : st = StoreOf(win) /\ f = ForeignOf(win)
    OBVIOUS
  <2>5. win.db # None => st = store'[win.db] /\ f = foreign'[win.db]
    BY <2>2, <2>4 DEF StoreOf, ForeignOf
  <2> QED
    BY <1>1, <1>2, <1>10, <1>11, <2>3, <2>4, <2>5, Moved
<1> QED
  BY <1>12, <1>13

\* What a save writes.
LEMMA WrittenOf ==
  ASSUME NEW m \in Models, NEW s \in Save
  PROVE  /\ Written(m, s) \in Models
         /\ \A c \in Cell : \/ Written(m, s).cells[c] = s.model.cells[c]
                            \/ Written(m, s).cells[c] = m.cells[c] /\ c \notin s.changes.cells
         /\ \/ Written(m, s).form = s.model.form
            \/ Written(m, s).form = m.form /\ ~s.changes.structure
<1>1. s.model \in Models /\ s.changes \in Changes
  BY DEF Save
<1>2. CASE s.whole
  BY <1>1, <1>2 DEF Written
<1>3. CASE ~s.whole
  <2>1. s.model.cells \in Cells /\ m.cells \in Cells
    BY <1>1, ModelOf
  <2>2. PICK cs \in Cells : cs = [c \in Cell |-> IF c \in s.changes.cells THEN s.model.cells[c] ELSE m.cells[c]]
    <3>1. [c \in Cell |-> IF c \in s.changes.cells THEN s.model.cells[c] ELSE m.cells[c]] \in Cells
      BY <2>1 DEF Cells
    <3> QED
      BY <3>1
  <2>3. PICK form \in Formula \cup {None} : form = IF s.changes.structure THEN s.model.form ELSE m.form
    BY <1>1, ModelOf
  <2>4. Written(m, s) = [cells |-> cs, form |-> form]
    BY <1>3, <2>2, <2>3 DEF Written
  <2>5. /\ [cells |-> cs, form |-> form] \in Models
        /\ [cells |-> cs, form |-> form].cells = cs /\ [cells |-> cs, form |-> form].form = form
    BY DEF Models, Cells
  <2> QED
    BY <2>2, <2>3, <2>4, <2>5
<1> QED
  BY <1>2, <1>3

\* The save of w becomes s.
LEMMA SavingIs ==
  ASSUME NEW w \in Window, NEW s \in Save
  PROVE  /\ [w EXCEPT !.saving = s] \in Window /\ [w EXCEPT !.saving = s].saving = s
         /\ Shown([w EXCEPT !.saving = s]) = Shown(w)
         /\ Engines(w, [w EXCEPT !.saving = s]) /\ Stacks(w, [w EXCEPT !.saving = s])
         /\ Idle(w, [w EXCEPT !.saving = s])
         /\ [w EXCEPT !.saving = s].token = w.token /\ [w EXCEPT !.saving = s].unsaved = w.unsaved
         /\ [w EXCEPT !.saving = s].dirty = w.dirty /\ [w EXCEPT !.saving = s].wanted = w.wanted
<1>1. PICK u : u = [w EXCEPT !.saving = s]
  OBVIOUS
<1>2. u \in Window
  BY <1>1 DEF Window
<1>3. /\ u.saving = s /\ u.model = w.model /\ u.held = w.held /\ Engines(w, u) /\ Stacks(w, u)
      /\ Idle(w, u)
  BY <1>1, <1>2 DEF Window, Engines, Stacks, Idle
<1>4. u.token = w.token /\ u.unsaved = w.unsaved /\ u.dirty = w.dirty /\ u.wanted = w.wanted
  BY <1>1, <1>2 DEF Window
<1>5. Shown(u) = Shown(w)
  BY <1>2, <1>3, ShownSame
<1> QED
  BY <1>1, <1>2, <1>3, <1>4, <1>5

\* It ends, but for what its end says of the store.
LEMMA SavingOf ==
  ASSUME NEW w \in Window, NEW s \in Save, NEW st, NEW f, WinInv(w, st, f), HistoryInv(w),
         w.saving # None, s.model = w.saving.model,
         NEW st2, NEW f2,
         SaveInv([w EXCEPT !.saving = s], st2, NoChanges),
         s.token # None, s.token <= st2.hw, f2 > w.loadedAt => f2 > s.token,
         s.done = "lost" => "saver" \in Env
  PROVE  /\ WinInv([w EXCEPT !.saving = s], st2, f2)
         /\ HistoryInv([w EXCEPT !.saving = s])
<1>1. PICK u : u = [w EXCEPT !.saving = s]
  OBVIOUS
<1>2. /\ u \in Window /\ u.saving = s /\ Shown(u) = Shown(w)
      /\ Engines(w, u) /\ Stacks(w, u) /\ Idle(w, u)
      /\ u.token = w.token /\ u.unsaved = w.unsaved /\ u.dirty = w.dirty /\ u.wanted = w.wanted
  BY <1>1, SavingIs
<1>3. s # None /\ Holding(w) /\ Holding(u)
  BY <1>2, NoneAssumption DEF WinInv, TokenInv, Holding, Idle
<1>4. w.token = None /\ ~w.lost /\ w.outside = None
  BY <1>3 DEF WinInv, TokenInv
<1>5. BuildInv(u)
  BY <1>2, BuildKept DEF WinInv
<1>6. LostInv(u)
  BY <1>2, <1>4 DEF LostInv, Idle
<1>7. TokenInv(u, st2.hw, f2)
  BY <1>2, <1>3, <1>4 DEF TokenInv, Token, Idle
<1>8. StrandInv(u, st2.hw)
  BY <1>2, <1>3, <1>4 DEF WinInv, StrandInv, Idle
<1>9. LoadInv(u, st2)
  BY <1>3 DEF LoadInv, Holding
<1>10. HistoryInv(u)
  BY <1>2 DEF HistoryInv, Stacks
<1>11. SaveInv(u, st2, NoChanges)
  BY <1>1
<1> QED
  BY <1>1, <1>5, <1>6, <1>7, <1>8, <1>9, <1>10, <1>11 DEF WinInv

\* A save that wrote nothing.
LEMMA UnwrittenOf ==
  ASSUME NEW w \in Window, NEW s \in Save, NEW st \in Stored, NEW f, WinInv(w, st, f), HistoryInv(w),
         w.saving # None, w.saving.done = None, s.model = w.saving.model, s.changes = w.saving.changes,
         s.token = w.saving.token, s.done # "ok", s.done = "lost" => "saver" \in Env
  PROVE  Better(w, [w EXCEPT !.saving = s], st, f)
<1>1. PICK u : u = [w EXCEPT !.saving = s]
  OBVIOUS
<1>2. /\ u \in Window /\ u.saving = s /\ Shown(u) = Shown(w) /\ Idle(w, u)
      /\ u.token = w.token /\ u.unsaved = w.unsaved /\ u.dirty = w.dirty
  BY <1>1, SavingIs
<1>3. s # None /\ Holding(w) /\ Holding(u)
  BY <1>2, NoneAssumption DEF WinInv, TokenInv, Holding, Idle
<1>4. ASSUME NEW m, NEW ch, Within(w, m, ch, NoChanges) PROVE Within(u, m, ch, NoChanges)
  BY <1>2, <1>4, WithinSame
<1>5. SaveInv(u, st, NoChanges)
  BY <1>2, <1>3, <1>4, NoAnswer DEF WinInv, SaveInv
<1>6. s.token # None /\ s.token <= st.hw /\ (f > w.loadedAt => f > s.token)
  BY <1>3 DEF WinInv, TokenInv, Token
<1>7. WinInv(u, st, f) /\ HistoryInv(u)
  BY <1>1, <1>5, <1>6, SavingOf
<1> QED
  BY <1>1, <1>2, <1>7 DEF Better, Idle

\* One that wrote all it was to write.
LEMMA SaveDoneOf ==
  ASSUME NEW w \in Window, NEW s \in Save, NEW st \in Stored, NEW f \in Nat, f <= st.hw,
         WinInv(w, st, f), HistoryInv(w),
         w.saving # None, w.saving.done = None, w.saving.token = st.hw,
         s.model = w.saving.model, s.done = "ok", s.token = st.hw + 1,
         NEW st2 \in Stored, st2.model = Written(st.model, w.saving), st2.hw = st.hw + 1
  PROVE  /\ WinInv([w EXCEPT !.saving = s], st2, f) /\ HistoryInv([w EXCEPT !.saving = s])
         /\ f <= w.loadedAt
<1>1. PICK u : u = [w EXCEPT !.saving = s]
  OBVIOUS
<1>2. /\ u \in Window /\ u.saving = s /\ Shown(u) = Shown(w) /\ Idle(w, u)
      /\ u.token = w.token /\ u.unsaved = w.unsaved /\ u.dirty = w.dirty
  BY <1>1, SavingIs
<1>3. s # None /\ Holding(w) /\ Holding(u)
  BY <1>2, NoneAssumption DEF WinInv, TokenInv, Holding, Idle
<1>4. st.hw \in Nat /\ st.model \in Models /\ w.saving \in Save /\ w.loadedAt \in Nat
  BY DEF Stored, Window
<1>5. w.unsaved \in Changes /\ w.saving.changes \in Changes
  BY <1>4 DEF Window, Save
<1>6. /\ Within(w, w.saving.model, w.unsaved, NoChanges)
      /\ Within(w, st.model, Add(w.unsaved, w.saving.changes), NoChanges)
      /\ w.dirty
  BY <1>3, NoAnswer DEF WinInv, SaveInv
<1>7. Within(u, st2.model, w.unsaved, NoChanges)
  <2>1. /\ \A c \in Cell : \/ st2.model.cells[c] = w.saving.model.cells[c]
                           \/ st2.model.cells[c] = st.model.cells[c] /\ c \notin w.saving.changes.cells
        /\ \/ st2.model.form = w.saving.model.form
           \/ st2.model.form = st.model.form /\ ~w.saving.changes.structure
    BY <1>4, WrittenOf
  <2>2. /\ \A c : c \in Add(w.unsaved, w.saving.changes).cells <=>
                    c \in w.unsaved.cells \/ c \in w.saving.changes.cells
        /\ Add(w.unsaved, w.saving.changes).structure <=> w.unsaved.structure \/ w.saving.changes.structure
    BY <1>5, AddOf
  <2> QED
    BY <1>2, <1>6, <2>1, <2>2, NoChangesType DEF Within
<1>8. Within(u, s.model, u.unsaved, NoChanges)
  BY <1>2, <1>6, WithinSame
<1>9. SaveInv(u, st2, NoChanges)
  BY <1>2, <1>3, <1>6, <1>7, <1>8 DEF SaveInv
<1>10. ~(f > w.loadedAt)
  BY <1>3, <1>4 DEF WinInv, TokenInv, Token
<1>11. s.token # None /\ s.token <= st2.hw
  BY <1>4, NoneAssumption
<1>12. WinInv(u, st2, f) /\ HistoryInv(u)
  BY <1>1, <1>9, <1>10, <1>11, SavingOf
<1> QED
  BY <1>1, <1>4, <1>10, <1>12

\* The end of a save.
Ends == {"ok", "conflict", "failed", "lost"}
Ended(s, d) == [s EXCEPT !.done = d, !.shares = FALSE]

LEMMA EndsAs ==
  ASSUME NEW t \in Save, NEW d \in Ends,
         NEW s, s = Ended(t, d)
  PROVE  /\ s \in Save /\ s.model = t.model /\ s.changes = t.changes
         /\ s.token = t.token /\ s.done = d
<1>1. s \in Save
  BY DEF Save, Ends, Ended
<1> QED
  BY <1>1 DEF Save, Ended

LEMMA EndsWell ==
  ASSUME NEW s \in Save, NEW t \in Nat
  PROVE  /\ [s EXCEPT !.done = "ok", !.token = t, !.shares = FALSE] \in Save
         /\ [s EXCEPT !.done = "ok", !.token = t, !.shares = FALSE].model = s.model
         /\ [s EXCEPT !.done = "ok", !.token = t, !.shares = FALSE].token = t
         /\ [s EXCEPT !.done = "ok", !.token = t, !.shares = FALSE].done = "ok"
BY DEF Save

\* The window's save is written: what was there, and what is.
Writes(st, new, s) ==
  /\ win.saving # None /\ win.db \in Path /\ st = store[win.db] /\ st.hw \in Nat
  /\ new = [model |-> Written(st.model, win.saving), hw |-> st.hw + 1]
  /\ s = [win.saving EXCEPT !.done = "ok", !.token = st.hw + 1, !.shares = FALSE]
  /\ win.saving.token = st.hw /\ win.saving.done = None
  /\ store' = [store EXCEPT ![win.db] = new]
  /\ win' = [win EXCEPT !.saving = s]

\* Or it ends and wrote nothing.
WritesNothing(s) ==
  /\ UNCHANGED store
  /\ \E d \in {"conflict", "failed", "lost"} :
       /\ s = [win.saving EXCEPT !.done = d, !.shares = FALSE]
       /\ d = "lost" => "saver" \in Env
  /\ win' = [win EXCEPT !.saving = s]

LEMMA SavesIs ==
  ASSUME IInv, Saves
  PROVE  /\ win.saving \in Save /\ win.saving # None /\ win.saving.done = None
         /\ UNCHANGED foreign /\ Counting
         /\ (\E st, new, s : Writes(st, new, s)) \/ (\E s : WritesNothing(s))
<1>1. TypeOK /\ win \in Window /\ WinInv(win, StoreOf(win), ForeignOf(win))
  BY DEF IInv, TypeOK
<1>2. win.saving # None /\ win.saving.done = None /\ UNCHANGED foreign
  BY DEF Saves
<1>3. Counting
  BY <1>1, FaultCounts DEF Saves, Counting, TypeOK
<1>4. Holding(win) /\ win.saving.token # None
  BY <1>1, <1>2 DEF WinInv, TokenInv, Token
<1>5. win.db \in Path /\ win.saving \in Save
  BY <1>1, <1>2, <1>4 DEF Window, Holding
<1>6. PICK st : st = store[win.db]
  OBVIOUS
<1>7. st.hw \in Nat
  BY <1>1, <1>5, <1>6 DEF TypeOK
<1>8. CASE /\ win.saving.token \in {None, st.hw}
           /\ store' = [store EXCEPT ![win.db] = [model |-> Written(@.model, win.saving), hw |-> @.hw + 1]]
           /\ win' = [win EXCEPT !.saving = [win.saving EXCEPT !.done = "ok", !.token = st.hw + 1, !.shares = FALSE]]
  <2>1. PICK new : new = [model |-> Written(st.model, win.saving), hw |-> st.hw + 1]
    OBVIOUS
  <2>2. PICK s : s = [win.saving EXCEPT !.done = "ok", !.token = st.hw + 1, !.shares = FALSE]
    OBVIOUS
  <2>3. Writes(st, new, s)
    BY <1>2, <1>4, <1>5, <1>6, <1>7, <1>8, <2>1, <2>2 DEF Writes
  <2> QED
    BY <1>2, <1>3, <1>5, <2>3
<1>9. CASE /\ UNCHANGED store
           /\ \/ win' = [win EXCEPT !.saving = TokenBack(win.saving, "conflict")]
              \/ win' = [win EXCEPT !.saving = TokenBack(win.saving, "failed")]
              \/ "saver" \in Env /\ win' = [win EXCEPT !.saving = [win.saving EXCEPT !.done = "lost", !.shares = FALSE]]
  <2>1. PICK d \in {"conflict", "failed", "lost"} :
          /\ win' = [win EXCEPT !.saving = [win.saving EXCEPT !.done = d, !.shares = FALSE]]
          /\ d = "lost" => "saver" \in Env
    BY <1>9 DEF TokenBack
  <2>2. PICK s : s = [win.saving EXCEPT !.done = d, !.shares = FALSE]
    OBVIOUS
  <2>3. WritesNothing(s)
    BY <1>9, <2>1, <2>2 DEF WritesNothing
  <2> QED
    BY <1>2, <1>3, <1>5, <2>3
<1> QED
  BY <1>6, <1>8, <1>9 DEF Saves, Fault

LEMMA SavesKeep ==
  ASSUME IInv, Saves
  PROVE  IInv'
<1>1. /\ win.saving \in Save /\ win.saving # None /\ win.saving.done = None
      /\ UNCHANGED foreign /\ Counting
  BY SavesIs
<1>2. PICK old \in Stored, f \in Nat : old = StoreOf(win) /\ f = ForeignOf(win)
  BY StoreIs DEF IInv
<1>3. /\ win \in Window /\ WinInv(win, old, f) /\ HistoryInv(win) /\ ForeignInv
      /\ store \in [Path -> Stored] /\ foreign \in [Path -> Nat]
  BY <1>2 DEF IInv, TypeOK, Stored
<1>4. ASSUME NEW st, NEW new, NEW s, Writes(st, new, s) PROVE IInv'
  <2>1. /\ win.db \in Path /\ win.db # None /\ st = store[win.db] /\ st.hw \in Nat
        /\ win.saving.token = st.hw
        /\ store' = [store EXCEPT ![win.db] = new] /\ win' = [win EXCEPT !.saving = s]
    BY <1>4, ConstantsAssumption DEF Writes
  <2>2. st = old /\ f = foreign[win.db] /\ f <= st.hw
    BY <1>2, <1>3, <2>1 DEF StoreOf, ForeignOf, ForeignInv
  <2>3. s \in Save /\ s.model = win.saving.model /\ s.token = st.hw + 1 /\ s.done = "ok"
    <3>1. PICK t \in Nat : t = st.hw + 1
      BY <2>1
    <3>2. s = [win.saving EXCEPT !.done = "ok", !.token = t, !.shares = FALSE]
      BY <1>4, <3>1 DEF Writes
    <3> QED
      BY <1>1, <3>1, <3>2, EndsWell
  <2>4. new \in Stored /\ new.model = Written(st.model, win.saving) /\ new.hw = st.hw + 1
    <3>1. st.model \in Models
      BY <2>2 DEF Stored
    <3>2. PICK m \in Models : m = Written(st.model, win.saving)
      BY <1>1, <3>1, WrittenOf
    <3>3. PICK h \in Nat : h = st.hw + 1
      BY <2>1
    <3>4. new = [model |-> m, hw |-> h]
      BY <1>4, <3>2, <3>3 DEF Writes
    <3> QED
      BY <3>2, <3>3, <3>4 DEF Stored
  <2>5. PICK u : u = [win EXCEPT !.saving = s]
    OBVIOUS
  <2>6. WinInv(u, new, f) /\ HistoryInv(u)
    BY <1>1, <1>3, <2>1, <2>2, <2>3, <2>4, <2>5, SaveDoneOf
  <2>7. u \in Window /\ u.db = win.db
    BY <1>3, <2>3, <2>5, SavingIs DEF Idle
  <2>8. store' \in [Path -> Stored] /\ foreign' \in [Path -> Nat]
    BY <1>1, <1>3, <2>1, <2>4
  <2>9. ForeignInv'
    <3> SUFFICES ASSUME NEW q \in Path PROVE foreign'[q] <= store'[q].hw
      BY DEF ForeignInv
    <3>1. CASE q = win.db
      <4>1. foreign'[q] = f /\ store'[q] = new
        BY <1>1, <1>3, <2>1, <2>2, <3>1
      <4> QED
        BY <2>1, <2>2, <2>4, <4>1
    <3>2. CASE q # win.db
      BY <1>1, <1>3, <2>1, <3>2 DEF ForeignInv
    <3> QED
      BY <3>1, <3>2
  <2>10. new = store'[u.db] /\ f = foreign'[u.db] /\ u.db # None
    BY <1>1, <1>3, <2>1, <2>2, <2>7
  <2> QED
    BY <1>1, <2>1, <2>5, <2>6, <2>7, <2>8, <2>9, <2>10, Moved
<1>5. ASSUME NEW s, WritesNothing(s) PROVE IInv'
  <2>1. PICK d \in {"conflict", "failed", "lost"} :
          s = [win.saving EXCEPT !.done = d, !.shares = FALSE] /\ (d = "lost" => "saver" \in Env)
    BY <1>5 DEF WritesNothing
  <2>2. /\ s \in Save /\ s.model = win.saving.model /\ s.changes = win.saving.changes
        /\ s.token = win.saving.token /\ s.done = d
    <3>1. PICK t \in Save : t = win.saving
      BY <1>1
    <3>2. d \in Ends
      BY DEF Ends
    <3>3. s = Ended(t, d)
      BY <2>1, <3>1 DEF Ended
    <3>4. /\ s \in Save /\ s.model = t.model /\ s.changes = t.changes
          /\ s.token = t.token /\ s.done = d
      BY <3>2, <3>3, EndsAs
    <3> QED
      BY <3>1, <3>4
  <2>3. PICK u : u = [win EXCEPT !.saving = s]
    OBVIOUS
  <2>4. Better(win, u, old, f)
    BY <1>1, <1>3, <2>1, <2>2, <2>3, UnwrittenOf
  <2>5. win' = u /\ UNCHANGED store
    BY <1>5, <2>3 DEF WritesNothing
  <2> QED
    BY <1>1, <1>2, <2>4, <2>5, BetterKept
<1> QED
  BY <1>4, <1>5, SavesIs

LEMMA SaveAsKeeps ==
  ASSUME IInv, NEW p \in Path, SaveAs(p)
  PROVE  IInv'
<1>1. /\ Command /\ UNCHANGED <<foreign, faults, outsiders>>
      /\ p # win.db /\ win.saving = None
  BY DEF SaveAs
<1>2. /\ win \in Window /\ BuildInv(win) /\ HistoryInv(win) /\ win.loading = None /\ Counting
  BY <1>1, WinOf DEF Counting, WinInv
<1>3. ForeignInv /\ store \in [Path -> Stored] /\ foreign \in [Path -> Nat]
  BY DEF IInv, TypeOK, Stored
<1>4. store[p].hw \in Nat /\ foreign[p] \in Nat /\ p # None
  BY <1>3, ConstantsAssumption DEF Stored
<1>5. PICK m \in Models : m = Shown(win)
  BY <1>2, ShownOf
<1>6. PICK h \in Nat : h = store[p].hw + 1
  BY <1>4
<1>7. PICK st \in Stored : st.model = m /\ st.hw = h /\ st = [model |-> m, hw |-> h]
  <2>1. [model |-> m, hw |-> h] \in Stored
    BY DEF Stored
  <2> QED
    BY <2>1
<1>8. store' = [store EXCEPT ![p] = st]
  BY <1>3, <1>5, <1>6, <1>7 DEF SaveAs
<1>9. PICK u : u = SavedAs(win, p, st.hw)
  OBVIOUS
<1>10. win' = u
  BY <1>6, <1>7, <1>9 DEF SaveAs, SavedAs
<1>11. u \in Window /\ u.db = p /\ WinInv(u, st, foreign[p]) /\ HistoryInv(u)
  BY <1>1, <1>2, <1>4, <1>5, <1>7, <1>9, SavedAsOf
<1>12. store' \in [Path -> Stored] /\ foreign' \in [Path -> Nat]
  BY <1>1, <1>3, <1>8
<1>13. ForeignInv'
  <2> SUFFICES ASSUME NEW q \in Path PROVE foreign'[q] <= store'[q].hw
    BY DEF ForeignInv
  <2>1. foreign[q] <= store[q].hw
    BY <1>3 DEF ForeignInv
  <2>2. CASE q = p
    BY <1>1, <1>3, <1>4, <1>6, <1>7, <1>8, <2>1, <2>2
  <2>3. CASE q # p
    BY <1>1, <1>3, <1>8, <2>1, <2>3
  <2> QED
    BY <2>2, <2>3
<1>14. st = store'[u.db] /\ foreign[p] = foreign'[u.db] /\ u.db # None
  BY <1>1, <1>3, <1>4, <1>8, <1>11
<1> QED
  BY <1>2, <1>10, <1>11, <1>12, <1>13, <1>14, Moved

-----------------------------------------------------------------------------
(* All steps. *)

LEMMA InitHolds ==
  ASSUME Init
  PROVE  IInv
<1>1. PICK form \in Formula : form = CHOOSE g \in Formula : TRUE
  BY ConstantsAssumption
<1>2. PICK m \in Models : m = [cells |-> [c \in Cell |-> None], form |-> form]
  <2>1. [cells |-> [c \in Cell |-> None], form |-> form] \in Models
    BY DEF Models
  <2> QED
    BY <2>1
<1>3. store \in [Path -> [model : {Empty, m}, hw : {1}]]
  BY <1>1, <1>2 DEF Init
<1>4. store \in [Path -> Stored] /\ \A p \in Path : store[p].hw = 1
  BY <1>3, EmptyType DEF Stored
<1>5. foreign \in [Path -> Nat] /\ \A p \in Path : foreign[p] = 0
  BY DEF Init
<1>6. PICK p \in Path : win = Opened(p)
  BY DEF Init
<1>7. win \in Window /\ WinInv(win, StoreOf(win), ForeignOf(win)) /\ HistoryInv(win)
  BY <1>6, OpenedOf
<1>8. ForeignInv
  BY <1>4, <1>5 DEF ForeignInv
<1>9. commands \in Nat /\ faults \in Nat /\ outsiders \in Nat
  BY DEF Init
<1> QED
  BY <1>4, <1>5, <1>7, <1>8, <1>9 DEF IInv, TypeOK, Stored

\* One edit or a paste: at least one.
LEMMA EditsOf ==
  ASSUME NEW es \in OneEdit \cup Paste
  PROVE  es \in Seq(Edit) /\ Len(es) # 0
<1>1. CASE es \in OneEdit
  <2>1. PICK c \in Cell, v \in Value \cup {None} : es = <<[at |-> c, value |-> v]>>
    BY <1>1 DEF OneEdit
  <2>2. PICK e \in Edit : e = [at |-> c, value |-> v]
    BY EditOf
  <2> QED
    BY <2>1, <2>2
<1>2. CASE es \in Paste
  <2>1. PICK n \in Nat : n = Cardinality(Cell) /\ n # 0
    BY ConstantsAssumption, FS_CardinalityType, FS_EmptySet
  <2>2. PICK order \in SetToSeqs(Cell), v \in Value \cup {None} :
          es = [i \in 1 .. n |-> [at |-> order[i], value |-> v]]
    BY <1>2, <2>1 DEF Paste
  <2>4. order \in [1 .. n -> Cell]
    BY <2>1 DEF SetToSeqs
  <2>3. \A i \in 1 .. n : [at |-> order[i], value |-> v] \in Edit
    BY <2>4, EditOf
  <2>5. es \in [1 .. n -> Edit]
    BY <2>2, <2>3
  <2> QED
    BY <2>1, <2>5
<1> QED
  BY <1>1, <1>2

LEMMA Stutters ==
  ASSUME IInv, UNCHANGED vars
  PROVE  IInv'
<1>1. UNCHANGED <<store, foreign, win, commands, faults, outsiders>>
  BY DEF vars
<1>2. PICK u : u = win
  OBVIOUS
<1>3. Counting /\ win' = u
  BY <1>1, <1>2 DEF IInv, TypeOK, Counting
<1>4. u \in Window /\ WinInv(u, StoreOf(u), ForeignOf(u)) /\ HistoryInv(u)
  BY <1>2 DEF IInv, TypeOK
<1> QED
  BY <1>1, <1>3, <1>4, Kept

LEMMA StepKeeps ==
  ASSUME IInv, [Next]_vars
  PROVE  IInv'
<1>1. CASE Threads
  BY <1>1, LoadsKeep, CopiesKeep, BuildsKeep, SavesKeep DEF Threads
<1>2. CASE Frame
  BY <1>2, PollLoadKeeps, PollHeldKeeps, PollBuildKeeps, PollSavesKeeps, ProbeKeeps DEF Frame
<1>3. CASE \E p \in Path, c \in Cell, v \in Value \cup {None} : OutsideSave(p, c, v)
  BY <1>3, OutsideSaveKeeps
<1>4. CASE \E edits \in OneEdit \cup Paste : EditCells(edits)
  BY <1>4, EditsOf, EditCellsKeeps
<1>5. CASE \E edits \in OneEdit \cup Paste, engineLives \in BOOLEAN : EditRefused(edits, engineLives)
  BY <1>5, EditsOf, EditRefusedKeeps
<1>6. CASE \E f \in Formula : SetFormula(f)
  BY <1>6, SetFormulaKeeps
<1>7. CASE \E v \in Value : Import(v)
  BY <1>7, ImportKeeps
<1>8. CASE DeleteMeasure \/ Undo \/ Redo \/ Recalculate \/ SaveModel \/ RevertToSaved
  BY <1>8, DeleteMeasureKeeps, UndoKeeps, RedoKeeps, RecalculateKeeps, SaveModelKeeps, RevertToSavedKeeps
<1>9. CASE \E p \in Path : SaveAs(p)
  BY <1>9, SaveAsKeeps
<1>10. CASE \E p \in Path : SwitchModel(p)
  BY <1>10, SwitchModelKeeps
<1>11. CASE UNCHANGED vars
  BY <1>11, Stutters
<1> QED
  BY <1>1, <1>2, <1>3, <1>4, <1>5, <1>6, <1>7, <1>8, <1>9, <1>10, <1>11 DEF Next

LEMMA Invariant ==
  Spec => []IInv
<1>1. Init => IInv
  BY InitHolds
<1>2. IInv /\ [Next]_vars => IInv'
  BY StepKeeps
<1> QED
  BY <1>1, <1>2, PTL DEF Spec

-----------------------------------------------------------------------------
(* What the invariant says. *)

\* Every variable keeps its type: a window is always a Window, whatever the order of
\* the threads, the frames and the commands.
THEOREM TypeCorrect ==
  Spec => []TypeOK
<1>1. IInv => TypeOK
  BY DEF IInv
<1> QED
  BY <1>1, Invariant, PTL

\* With no build in flight, what the grid shows was computed from what the window shows:
\* held edits, edits during builds, refused edits, undo and reloads do not part the two
\* (put_cell, push_engine, land, rebuild_engine).
THEOREM EngineIsCurrent ==
  Spec => []SnapshotCurrent
<1>1. IInv => SnapshotCurrent
  BY DEF IInv, WinInv, BuildInv, SnapshotCurrent
<1> QED
  BY <1>1, Invariant, PTL

\* Whatever is unsaved with no save running, a save failed or the store was saved by
\* another program: no change made during a save waits for a next edit (save_changes,
\* land_save).
THEOREM ChangesGoInTheNext ==
  Spec => []NeverStranded
<1>1. ASSUME IInv PROVE NeverStranded
  <2>1. StrandInv(win, StoreOf(win).hw)
    BY <1>1 DEF IInv, WinInv
  <2> QED
    BY <2>1 DEF StrandInv, NeverStranded, Holding, StoreOf
<1> QED
  BY <1>1, Invariant, PTL

\* While no save thread dies: whatever the store holds differently from the window, and
\* nobody else saved, is in the running save or is kept for the next, and the window
\* says that it is dirty (save_changes, send_save, land_save, run_save).
THEOREM NothingIsForgotten ==
  ASSUME "saver" \notin Env
  PROVE  Spec => []NothingForgotten
<1>1. ASSUME IInv PROVE NothingForgotten
  <2> SUFFICES ASSUME win.db # None, win.loading = None,
                      (IF win.saving = None THEN win.token ELSE win.saving.token) \in {None, store[win.db].hw},
                      NEW noted, noted = IF win.saving = None \/ win.saving.done = "ok" THEN win.unsaved
                                         ELSE Add(win.unsaved, win.saving.changes),
                      NEW d, d = Unwritten(win, store[win.db].model)
               PROVE  /\ d.cells \subseteq noted.cells
                      /\ d.structure => noted.structure
                      /\ d # NoChanges => win.dirty
    BY DEF NothingForgotten
  <2>1. PICK st : st = store[win.db] /\ st = StoreOf(win)
    BY DEF StoreOf
  <2>2. /\ SaveInv(win, st, NoChanges) /\ TokenInv(win, st.hw, ForeignOf(win)) /\ LostInv(win)
        /\ Holding(win)
    BY <1>1, <2>1 DEF IInv, WinInv, Holding
  <2>3. Token(win) = st.hw
    BY <2>1, <2>2 DEF TokenInv, LostInv, Token
  <2>4. Within(win, st.model, noted, NoChanges)
    <3>1. CASE win.saving = None
      BY <2>2, <2>3, <3>1 DEF SaveInv, Token
    <3>2. CASE win.saving # None
      BY <2>2, <2>3, <3>2 DEF SaveInv, Token
    <3> QED
      BY <3>1, <3>2
  <2>5. /\ \A c \in Cell : Shown(win).cells[c] # st.model.cells[c] => c \in noted.cells
        /\ Shown(win).form # st.model.form => noted.structure
    BY <2>4, NoChangesType DEF Within
  <2>6. /\ d.cells = {c \in Cell : Shown(win).cells[c] # st.model.cells[c]}
        /\ d.structure = (Shown(win).form # st.model.form)
        /\ d = [cells |-> d.cells, structure |-> d.structure]
    BY <2>1 DEF Unwritten
  <2>7. d.cells \subseteq noted.cells /\ (d.structure => noted.structure)
    BY <2>5, <2>6
  <2>8. ASSUME ~win.dirty PROVE d = NoChanges
    <3>1. win.saving = None /\ win.unsaved = NoChanges
      BY <2>2, <2>8 DEF SaveInv
    <3>2. noted.cells = {} /\ noted.structure = FALSE
      BY <3>1, NoChangesType
    <3>3. d.cells = {} /\ d.structure = FALSE
      BY <2>6, <2>7, <3>2
    <3> QED
      BY <2>6, <3>3 DEF NoChanges
  <2> QED
    BY <2>7, <2>8
<1> QED
  BY <1>1, Invariant, PTL

\* A save of the window never follows another program's save that the window did not
\* load: run_save's check of the token, however many saves failed before (adopt, put
\* back and adopted again).
THEOREM SavesDoNotClobber ==
  Spec => NoClobber
<1>1. ASSUME IInv, [Next]_vars, NEW p \in Path,
             store'[p] # store[p], foreign'[p] = foreign[p], win.db = p
      PROVE  foreign[p] <= win.loadedAt
  <2>1. /\ win \in Window /\ WinInv(win, StoreOf(win), ForeignOf(win)) /\ HistoryInv(win) /\ ForeignInv
        /\ store \in [Path -> Stored] /\ foreign \in [Path -> Nat] /\ TypeOK
    BY <1>1 DEF IInv, TypeOK, Stored
  <2>2. \/ Saves
        \/ \E q \in Path, c \in Cell, v \in Value \cup {None} : OutsideSave(q, c, v)
        \/ \E q \in Path : SaveAs(q)
    BY <1>1 DEF Next, vars, Threads, Frame, Loads, Copies, Builds, PollLoad, PollHeld, PollBuild,
                PollSaves, Probe, EditCells, EditRefused, SetFormula, DeleteMeasure, Import,
                Undo, Redo, Recalculate, SaveModel, RevertToSaved, SwitchModel
  <2>3. CASE Saves
    <3>1. PICK st, new, s : Writes(st, new, s)
      BY <1>1, <2>3, SavesIs DEF WritesNothing
    <3>2. p # None /\ st = store[p] /\ st = StoreOf(win) /\ win.saving.token = st.hw /\ win.saving # None
          /\ ForeignOf(win) = foreign[p]
      BY <1>1, <3>1, ConstantsAssumption DEF Writes, StoreOf, ForeignOf
    <3>3. Holding(win) /\ st.hw \in Nat /\ foreign[p] \in Nat /\ win.loadedAt \in Nat
      BY <2>1, <3>1, <3>2 DEF WinInv, TokenInv, Writes, Window
    <3>4. foreign[p] > win.loadedAt => foreign[p] > st.hw
      BY <2>1, <3>2, <3>3, NoneAssumption DEF WinInv, TokenInv, Token
    <3>5. foreign[p] <= st.hw
      BY <2>1, <3>2 DEF ForeignInv
    <3> QED
      BY <3>3, <3>4, <3>5
  <2>4. CASE \E q \in Path, c \in Cell, v \in Value \cup {None} : OutsideSave(q, c, v)
    <3>1. PICK q \in Path, c \in Cell, v \in Value \cup {None} : OutsideSave(q, c, v)
      BY <2>4
    <3>2. CASE q = p
      <4>1. foreign'[p] = store[p].hw + 1
        BY <2>1, <3>1, <3>2 DEF OutsideSave
      <4>2. foreign[p] <= store[p].hw /\ store[p].hw \in Nat /\ foreign[p] \in Nat
        BY <2>1 DEF ForeignInv, Stored
      <4> QED
        BY <1>1, <4>1, <4>2
    <3>3. CASE q # p
      <4>1. store'[p] = store[p]
        BY <2>1, <3>1, <3>3 DEF OutsideSave
      <4> QED
        BY <1>1, <4>1
    <3> QED
      BY <3>2, <3>3
  <2>5. CASE \E q \in Path : SaveAs(q)
    <3>1. PICK q \in Path : SaveAs(q)
      BY <2>5
    <3>2. q # p
      BY <1>1, <3>1 DEF SaveAs
    <3>3. store'[p] = store[p]
      BY <2>1, <3>1, <3>2 DEF SaveAs
    <3> QED
      BY <1>1, <3>3
  <2> QED
    BY <2>2, <2>3, <2>4, <2>5
<1>2. IInv /\ [Next]_vars =>
        [\A p \in Path : (store'[p] # store[p] /\ foreign'[p] = foreign[p] /\ win.db = p) =>
           foreign[p] <= win.loadedAt]_vars
  BY <1>1
<1> QED
  BY <1>2, Invariant, PTL DEF Spec, NoClobber

-----------------------------------------------------------------------------
(* What a stack restores. *)

RestoredStep(shown, steps, n, i, m) == IF i = 0 THEN shown ELSE Back(m, steps[n - i + 1])
RestoredRun(shown, steps, n, f) ==
  f = [i \in 0 .. n |-> RestoredStep(shown, steps, n, i, f[i - 1])]

\* It goes through what was shown.
LEMMA ChainRun ==
  ASSUME NEW shown, NEW steps \in Seq(Step), NEW past \in Seq(Models), NEW n \in Nat,
         n = Len(steps), Chain(shown, steps, past)
  PROVE  RestoredRun(shown, steps, n, [i \in 0 .. n |-> IF i = 0 THEN shown ELSE past[n - i + 1]])
<1> DEFINE g == [i \in 0 .. n |-> IF i = 0 THEN shown ELSE past[n - i + 1]]
           h == [i \in 0 .. n |-> RestoredStep(shown, steps, n, i, g[i - 1])]
<1>1. \A i \in 0 .. n : g[i] = h[i]
  <2> TAKE i \in 0 .. n
  <2>1. CASE i # 0
    <3>0. n - i + 1 \in 1 .. n
      BY <2>1
    <3>1. PICK k \in 1 .. n : k = n - i + 1
      BY <3>0
    <3>2. k \in DOMAIN steps /\ i - 1 \in 0 .. n
      BY <2>1
    <3>3. Back(IF k = n THEN shown ELSE past[k + 1], steps[k]) = past[k]
      BY <3>2 DEF Chain
    <3>4. g[i - 1] = IF k = n THEN shown ELSE past[k + 1]
      <4>1. CASE i = 1
        BY <3>1, <4>1
      <4>2. CASE i # 1
        <5>1. k # n /\ n - (i - 1) + 1 = k + 1 /\ i - 1 # 0
          BY <3>1, <4>2
        <5> QED
          BY <3>2, <5>1
      <4> QED
        BY <4>1, <4>2
    <3>5. g[i] = past[k] /\ h[i] = Back(g[i - 1], steps[k])
      BY <2>1, <3>1 DEF RestoredStep
    <3> QED
      BY <3>3, <3>4, <3>5
  <2> QED
    BY <2>1 DEF RestoredStep
<1>2. g = h
  BY <1>1
<1> QED
  BY <1>2 DEF RestoredRun

LEMMA RestoredRunAt ==
  ASSUME NEW shown, NEW steps, NEW n \in Nat, NEW f, RestoredRun(shown, steps, n, f)
  PROVE  \A i \in 0 .. n : f[i] = RestoredStep(shown, steps, n, i, f[i - 1])
<1> DEFINE g == [i \in 0 .. n |-> RestoredStep(shown, steps, n, i, f[i - 1])]
<1>1. f = g
  BY DEF RestoredRun
<1>2. \A i \in 0 .. n : g[i] = RestoredStep(shown, steps, n, i, f[i - 1])
  OBVIOUS
<1> HIDE DEF g
<1> QED
  BY <1>1, <1>2

\* There is one way to go.
LEMMA RestoredRunOne ==
  ASSUME NEW shown, NEW steps, NEW n \in Nat, NEW f, NEW g,
         RestoredRun(shown, steps, n, f), RestoredRun(shown, steps, n, g)
  PROVE  \A i \in 0 .. n : f[i] = g[i]
<1> DEFINE Bad == {i \in 0 .. n : f[i] # g[i]}
<1> SUFFICES ASSUME Bad # {} PROVE FALSE
  OBVIOUS
<1>1. Bad \in SUBSET Nat
  OBVIOUS
<1>2. PICK i \in Bad : \A k \in Bad : i <= k
  <2> HIDE DEF Bad
  <2> QED
    BY <1>1, Least
<1>3. /\ f[i] = RestoredStep(shown, steps, n, i, f[i - 1])
      /\ g[i] = RestoredStep(shown, steps, n, i, g[i - 1])
  <2>1. i \in 0 .. n
    OBVIOUS
  <2>2. \A k \in 0 .. n : f[k] = RestoredStep(shown, steps, n, k, f[k - 1])
    BY RestoredRunAt
  <2>3. \A k \in 0 .. n : g[k] = RestoredStep(shown, steps, n, k, g[k - 1])
    BY RestoredRunAt
  <2> HIDE DEF Bad
  <2> QED
    BY <2>1, <2>2, <2>3
<1>4. i # 0
  BY <1>2, <1>3 DEF RestoredStep
<1>5. i - 1 \in 0 .. n /\ i - 1 \notin Bad
  BY <1>2, <1>4
<1>6. f[i - 1] = g[i - 1]
  BY <1>5
<1> QED
  BY <1>2, <1>3, <1>4, <1>6

LEMMA ChainRestores ==
  ASSUME NEW shown, NEW steps \in Seq(Step), NEW past \in Seq(Models), Chain(shown, steps, past)
  PROVE  Restored(shown, steps) = past
<1>1. PICK n \in Nat : n = Len(steps)
  OBVIOUS
<1>2. PICK g : g = [i \in 0 .. n |-> IF i = 0 THEN shown ELSE past[n - i + 1]]
  OBVIOUS
<1>3. RestoredRun(shown, steps, n, g)
  BY <1>1, <1>2, ChainRun
<1> DEFINE f == CHOOSE h : RestoredRun(shown, steps, n, h)
<1>4. RestoredRun(shown, steps, n, f)
  BY <1>3
<1>5. Restored(shown, steps) = [i \in 1 .. n |-> f[n - i + 1]]
  BY <1>1 DEF Restored, RestoredRun, RestoredStep
<1> HIDE DEF f
<1>6. \A i \in 0 .. n : f[i] = g[i]
  BY <1>3, <1>4, RestoredRunOne
<1>7. \A i \in 1 .. n : f[n - i + 1] = past[i]
  <2> TAKE i \in 1 .. n
  <2>1. PICK k \in 0 .. n : k = n - i + 1 /\ k # 0 /\ n - k + 1 = i
    OBVIOUS
  <2>2. g[k] = past[i]
    BY <1>2, <2>1
  <2> QED
    BY <1>6, <2>1, <2>2
<1>8. Len(past) = n /\ past = [i \in 1 .. n |-> past[i]]
  BY <1>1 DEF Chain
<1>9. Restored(shown, steps) = [i \in 1 .. n |-> past[i]]
  BY <1>5, <1>7
<1> QED
  BY <1>8, <1>9

\* Each undo, in its turn, brings back what the window showed before the change it was
\* recorded for, and each redo what it showed before its undo (apply_step's inverses,
\* record_step, push_bounded at its limit).
THEOREM UndoIsExact ==
  Spec => []UndoExact
<1>1. ASSUME IInv PROVE UndoExact
  <2>1. win \in Window /\ HistoryInv(win)
    BY <1>1 DEF IInv, TypeOK
  <2> QED
    BY <2>1, StacksOf, ChainRestores DEF HistoryInv, UndoExact
<1> QED
  BY <1>1, Invariant, PTL
=============================================================================
