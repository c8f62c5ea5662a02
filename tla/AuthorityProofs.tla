--------------------------- MODULE AuthorityProofs ---------------------------
(***************************************************************************)
(* Proofs about Authority for every set of measures, values, batches and   *)
(* sessions and every depth and bound.                                     *)
(***************************************************************************)
EXTENDS Authority, TLAPS, WellFoundedInduction

-----------------------------------------------------------------------------
(* The inductive invariant. *)

\* A batch that names no cell twice.
Once(batch) == \A i, j \in DOMAIN batch : batch[i][1] = batch[j][1] => i = j

\* No batch that is sent does.
Plain == \A b \in Batches : Once(b)

\* Cells only of measures the structure has.
Fits(c) == \A m \in Measure \ c.shape : c.cells[m] = None

\* The model at the store's version is what is stored, during requests too.
StoreInv ==
  /\ tx <= store.tx
  /\ tx = store.tx => model.shape = store.shape /\ model.cells = store.cells
  /\ Fits(store) /\ Fits(model)

\* What a step on a stack says of the change it takes back.
CellsInv(step) ==
  /\ Once(step.after)
  /\ step.before = Before(step.was.cells, step.after)
  /\ step.left.shape = step.was.shape
  /\ step.left.cells = After(step.was.cells, step.after)
ShapeInv(step) ==
  /\ step.shape = step.was.shape
  /\ \A m \in Measure :
       IF m \in step.left.shape
       THEN /\ step.cells[m] = None
            /\ step.was.cells[m] # None => step.left.cells[m] = step.was.cells[m]
       ELSE step.cells[m] = step.was.cells[m] /\ step.left.cells[m] = None
StepInv(step) ==
  /\ Fits(step.was)
  /\ step.kind = "cells" => CellsInv(step)
  /\ step.kind = "shape" => ShapeInv(step)
StepsInv ==
  \A s \in Session : /\ \A i \in DOMAIN undo[s] : StepInv(undo[s][i])
                     /\ \A i \in DOMAIN redo[s] : StepInv(redo[s][i])

\* Versions grow along the log, up to the model's; the last entry that names a
\* cell, when no reload follows it, has its value.
LogInv ==
  /\ \A i, j \in DOMAIN log : i < j => log[i].version < log[j].version
  /\ log[Len(log)].version = tx
  /\ \A i \in DOMAIN log : \A m \in Named(log[i].cells) :
       (\A j \in i + 1 .. Len(log) : ~log[j].whole /\ m \notin Named(log[j].cells))
         => After(NoCells, log[i].cells)[m] = model.cells[m]

\* A client holds the structure when no reload is logged past what it has seen, and
\* every visible cell that nothing logged since names.
ClientInv ==
  /\ client.seen <= tx
  /\ ~client.stale => \A i \in DOMAIN log :
       log[i].version = client.seen /\ (\A j \in i + 1 .. Len(log) : ~log[j].whole) =>
         /\ client.shape = model.shape \cap Visible
         /\ \A m \in Visible : (\A j \in i + 1 .. Len(log) : m \notin Named(log[j].cells))
                                 => client.cells[m] = model.cells[m]

IInv == TypeOK /\ StoreInv /\ StepsInv /\ LogInv /\ ClientInv

-----------------------------------------------------------------------------
(* Batches of edits. *)

Cells == [Measure -> Value \cup {None}]

\* The highest of a bounded set of positions.
LEMMA MaxOf ==
  ASSUME NEW n \in Nat, NEW S \in SUBSET (0 .. n), S # {}
  PROVE  Max(S) \in S /\ \A y \in S : y <= Max(S)
<1> DEFINE R == {ss \in Nat \X Nat : ss[1] < ss[2]}
           T == {k \in 0 .. n : n - k \in S}
<1>1. OpToRel(<, Nat) = R
  BY DEF OpToRel
<1>2. T \in SUBSET Nat /\ \A y \in S : y \in 0 .. n /\ n - y \in T
  OBVIOUS
<1>3. \A k \in T : k \in 0 .. n /\ n - k \in S
  OBVIOUS
<1>4. \A k, l \in Nat : k < l => <<k, l>> \in R
  OBVIOUS
<1> HIDE DEF R, T
<1>5. IsWellFoundedOn(R, Nat)
  BY <1>1, NatLessThanWellFounded, Zenon
<1>6. T # {}
  BY <1>2
<1>7. PICK x \in T : \A y \in T : ~(<<y, x>> \in R)
  BY <1>2, <1>5, <1>6, WFMin
<1>8. \A y \in S : y <= n - x
  <2> TAKE y \in S
  <2>1. y \in 0 .. n /\ n - y \in T /\ n - y \in Nat /\ x \in Nat
    BY <1>2, <1>3
  <2>2. ~(n - y < x)
    BY <1>4, <1>7, <2>1
  <2> QED
    BY <2>1, <2>2
<1>9. n - x \in S
  BY <1>3
<1> QED
  BY <1>2, <1>8, <1>9 DEF Max

\* An edit changes the cells it names, and the last edit of a cell says to what.
LEMMA EditsOfBatch ==
  ASSUME NEW b \in Edits, NEW m \in Measure
  PROVE  /\ EditsOf(b, m) # {} <=> m \in Named(b)
         /\ EditsOf(b, m) # {} => Max(EditsOf(b, m)) \in EditsOf(b, m)
         /\ EditsOf(b, m) \subseteq 1 .. Len(b)
<1>1. Len(b) \in Nat /\ DOMAIN b = 1 .. Len(b)
  BY DEF Edits
<1>2. EditsOf(b, m) \in SUBSET (0 .. Len(b)) /\ EditsOf(b, m) \subseteq 1 .. Len(b)
  BY <1>1 DEF EditsOf
<1>3. EditsOf(b, m) # {} => Max(EditsOf(b, m)) \in EditsOf(b, m)
  BY <1>1, <1>2, MaxOf
<1> QED
  BY <1>2, <1>3 DEF EditsOf, Named

LEMMA AfterOf ==
  ASSUME NEW c \in Cells, NEW b \in Edits
  PROVE  /\ After(c, b) \in Cells
         /\ Named(b) \subseteq Measure
         /\ \A m \in Measure \ Named(b) : After(c, b)[m] = c[m]
         /\ \A m \in Named(b) : After(c, b)[m] = After(NoCells, b)[m]
<1>1. ASSUME NEW m \in Measure
      PROVE  /\ After(c, b)[m] \in Value \cup {None}
             /\ m \notin Named(b) => After(c, b)[m] = c[m]
             /\ m \in Named(b) => After(c, b)[m] = After(NoCells, b)[m]
  <2>1. /\ EditsOf(b, m) # {} <=> m \in Named(b)
        /\ EditsOf(b, m) # {} => Max(EditsOf(b, m)) \in 1 .. Len(b)
    BY EditsOfBatch
  <2>2. \A i \in 1 .. Len(b) : b[i][2] \in Value \cup {None}
    BY DEF Edits
  <2>3. c[m] \in Value \cup {None}
    BY DEF Cells
  <2> QED
    BY <2>1, <2>2, <2>3 DEF After
<1>2. Named(b) \subseteq Measure
  BY DEF Named, Edits
<1> QED
  BY <1>1, <1>2 DEF After, Cells

LEMMA BeforeOf ==
  ASSUME NEW c \in Cells, NEW b \in Edits
  PROVE  /\ Before(c, b) \in Edits
         /\ DOMAIN Before(c, b) = DOMAIN b
         /\ \A i \in DOMAIN b : Before(c, b)[i][1] = b[i][1]
         /\ Named(Before(c, b)) = Named(b)
         /\ Once(b) => Once(Before(c, b))
<1>1. Len(b) \in Nat /\ DOMAIN b = 1 .. Len(b)
  BY DEF Edits
<1>2. ASSUME NEW i \in 1 .. Len(b)
      PROVE  Before(c, b)[i] \in Measure \X (Value \cup {None}) /\ Before(c, b)[i][1] = b[i][1]
  <2>1. SubSeq(b, 1, i - 1) \in Edits
    BY <1>1 DEF Edits
  <2>2. After(c, SubSeq(b, 1, i - 1)) \in Cells
    BY <2>1, AfterOf
  <2>3. b[i][1] \in Measure
    BY DEF Edits
  <2>4. Before(c, b)[i] = <<b[i][1], After(c, SubSeq(b, 1, i - 1))[b[i][1]]>>
    BY <1>1 DEF Before
  <2> QED
    BY <2>2, <2>3, <2>4 DEF Cells
<1>3. Before(c, b) = [i \in 1 .. Len(b) |-> Before(c, b)[i]]
  BY <1>1 DEF Before
<1>4. Before(c, b) \in Seq(Measure \X (Value \cup {None}))
  BY <1>1, <1>2, <1>3
<1> QED
  BY <1>1, <1>2, <1>3, <1>4 DEF Edits, Named, Once

\* Writing back what a batch replaced, in the order of the batch, takes it back if
\* the batch names no cell twice.
LEMMA PutBackIs ==
  ASSUME NEW c \in Cells, NEW b \in Edits, Once(b)
  PROVE  After(After(c, b), Before(c, b)) = c
<1> DEFINE d == After(c, b)
           o == Before(c, b)
<1>1. d \in Cells /\ o \in Edits
  BY AfterOf, BeforeOf
<1>2. ASSUME NEW m \in Measure PROVE After(d, o)[m] = c[m]
  <2>1. CASE m \notin Named(b)
    <3>1. m \notin Named(o)
      BY <2>1, BeforeOf
    <3>2. After(d, o)[m] = d[m]
      BY <1>1, <3>1, AfterOf
    <3>3. d[m] = c[m]
      BY <2>1, AfterOf
    <3> QED
      BY <3>2, <3>3
  <2>2. CASE m \in Named(b)
    <3> DEFINE i == Max(EditsOf(o, m))
    <3>1. m \in Named(o) /\ DOMAIN o = DOMAIN b /\ Once(o) /\ DOMAIN b = 1 .. Len(b)
          /\ Len(b) \in Nat
      BY <2>2, BeforeOf DEF Edits
    <3>2. EditsOf(o, m) # {} /\ i \in EditsOf(o, m)
      BY <1>1, <3>1, EditsOfBatch
    <3>3. After(d, o)[m] = o[i][2]
      BY <3>2 DEF After
    <3>4. i \in 1 .. Len(b) /\ b[i][1] = m
      BY <3>1, <3>2, BeforeOf DEF EditsOf
    <3> HIDE DEF i
    <3>5. o[i] = <<m, After(c, SubSeq(b, 1, i - 1))[m]>>
      BY <3>1, <3>4 DEF Before
    <3>6. SubSeq(b, 1, i - 1) \in Edits /\ m \notin Named(SubSeq(b, 1, i - 1))
      <4>1. SubSeq(b, 1, i - 1) \in Edits
        BY <3>1, <3>4 DEF Edits
      <4>2. \A k \in DOMAIN SubSeq(b, 1, i - 1) :
              k \in 1 .. i - 1 /\ SubSeq(b, 1, i - 1)[k] = b[k]
        BY <3>1, <3>4 DEF Edits
      <4>3. \A k \in 1 .. i - 1 : b[k][1] # m
        BY <3>1, <3>4 DEF Once
      <4> QED
        BY <4>1, <4>2, <4>3 DEF Named
    <3>7. After(c, SubSeq(b, 1, i - 1))[m] = c[m]
      BY <3>6, AfterOf
    <3> QED
      BY <3>3, <3>5, <3>7
  <2> QED
    BY <2>1, <2>2
<1>3. After(d, o) \in Cells
  BY <1>1, AfterOf
<1> QED
  BY <1>2, <1>3 DEF Cells

-----------------------------------------------------------------------------
(* The log and the stacks, as sequences. *)

Entries == [version : Versions, whole : BOOLEAN, cells : Edits]

\* push_log: the entry comes last, and at most the oldest entry is gone.
LEMMA LoggedOf ==
  ASSUME NEW l \in Seq(Entries), Len(l) \in 1 .. LogDepth, NEW e \in Entries
  PROVE  /\ Logged(l, e) \in Seq(Entries)
         /\ Len(Logged(l, e)) \in 1 .. LogDepth
         /\ Logged(l, e)[Len(Logged(l, e))] = e
         /\ \E k \in {0, 1} :
              /\ Len(Logged(l, e)) = Len(l) + 1 - k
              /\ \A i \in 1 .. Len(Logged(l, e)) - 1 : Logged(l, e)[i] = l[i + k]
<1>1. LogDepth \in Nat \ {0}
  BY DepthAssumption
<1>2. CASE Len(l) < LogDepth
  <2>1. Logged(l, e) = Append(l, e)
    BY <1>2 DEF Logged
  <2>2. Append(l, e) \in Seq(Entries) /\ Len(Append(l, e)) = Len(l) + 1
        /\ Append(l, e)[Len(l) + 1] = e /\ \A i \in 1 .. Len(l) : Append(l, e)[i] = l[i + 0]
    OBVIOUS
  <2> QED
    BY <1>1, <1>2, <2>1, <2>2
<1>3. CASE ~(Len(l) < LogDepth)
  <2>1. Logged(l, e) = Append(Tail(l), e)
    BY <1>3 DEF Logged
  <2>2. Tail(l) \in Seq(Entries) /\ Len(Tail(l)) = Len(l) - 1
        /\ \A i \in 1 .. Len(l) - 1 : Tail(l)[i] = l[i + 1]
    BY <1>1, <1>3
  <2>3. Append(Tail(l), e) \in Seq(Entries) /\ Len(Append(Tail(l), e)) = Len(l)
        /\ Append(Tail(l), e)[Len(l)] = e
        /\ \A i \in 1 .. Len(l) - 1 : Append(Tail(l), e)[i] = l[i + 1]
    BY <2>2
  <2> QED
    BY <1>1, <1>3, <2>1, <2>3
<1> QED
  BY <1>2, <1>3

Stacked(l, e) == IF Len(l) < UndoDepth THEN Append(l, e) ELSE Append(Tail(l), e)

\* A stack that gains a step, the oldest dropped when it is full, or loses its last.
LEMMA StackOf ==
  ASSUME NEW l \in Seq(Steps), NEW e \in Steps, Len(l) <= UndoDepth
  PROVE  /\ Stacked(l, e) \in Seq(Steps) /\ Len(Stacked(l, e)) <= UndoDepth
         /\ \A i \in DOMAIN Stacked(l, e) :
              Stacked(l, e)[i] = e \/ \E j \in DOMAIN l : Stacked(l, e)[i] = l[j]
<1> DEFINE a == Stacked(l, e)
<1>0. UndoDepth \in Nat \ {0}
  BY DepthAssumption
<1>1. CASE Len(l) < UndoDepth
  <2>1. a = Append(l, e)
    BY <1>1 DEF Stacked
  <2>2. a \in Seq(Steps) /\ Len(a) = Len(l) + 1 /\ a[Len(l) + 1] = e
        /\ \A i \in 1 .. Len(l) : a[i] = l[i]
    BY <2>1
  <2> HIDE DEF a
  <2>3. DOMAIN a = 1 .. Len(l) + 1 /\ DOMAIN l = 1 .. Len(l)
    BY <2>2
  <2>4. Len(l) \in Nat
    OBVIOUS
  <2>5. a \in Seq(Steps) /\ Len(a) <= UndoDepth
    BY <1>0, <1>1, <2>2, <2>4
  <2>6. \A i \in DOMAIN a : a[i] = e \/ \E j \in DOMAIN l : a[i] = l[j]
    BY <2>2, <2>3, <2>4
  <2> QED
    BY <2>5, <2>6 DEF a
<1>2. CASE ~(Len(l) < UndoDepth)
  <2>1. a = Append(Tail(l), e) /\ Len(l) = UndoDepth
    BY <1>0, <1>2 DEF Stacked
  <2>2. Tail(l) \in Seq(Steps) /\ Len(Tail(l)) = Len(l) - 1
        /\ \A i \in 1 .. Len(l) - 1 : Tail(l)[i] = l[i + 1]
    BY <1>0, <2>1
  <2>3. a \in Seq(Steps) /\ Len(a) = Len(l) /\ a[Len(l)] = e
        /\ \A i \in 1 .. Len(l) - 1 : a[i] = l[i + 1]
    BY <2>1, <2>2
  <2> HIDE DEF a
  <2>4. DOMAIN a = 1 .. Len(l) /\ DOMAIN l = 1 .. Len(l) /\ Len(l) \in Nat
    BY <2>3
  <2>5. \A i \in DOMAIN a : a[i] = e \/ \E j \in DOMAIN l : a[i] = l[j]
    <3> TAKE i \in DOMAIN a
    <3>1. CASE i = Len(l)
      BY <2>3, <3>1
    <3>2. CASE i # Len(l)
      <4>1. i \in 1 .. Len(l) - 1 /\ i + 1 \in DOMAIN l
        BY <2>4, <3>2
      <4> QED
        BY <2>3, <4>1
    <3> QED
      BY <3>1, <3>2
  <2> QED
    BY <1>0, <2>1, <2>3, <2>5 DEF a
<1> QED
  BY <1>1, <1>2

LEMMA FrontOf ==
  ASSUME NEW l \in Seq(Steps), l # <<>>
  PROVE  /\ Front(l) \in Seq(Steps) /\ Len(Front(l)) = Len(l) - 1 /\ Len(l) \in Nat \ {0}
         /\ \A i \in DOMAIN Front(l) : i \in DOMAIN l /\ Front(l)[i] = l[i]
         /\ Last(l) \in Steps /\ \E i \in DOMAIN l : Last(l) = l[i]
<1>1. Len(l) \in Nat \ {0} /\ DOMAIN l = 1 .. Len(l)
  OBVIOUS
<1>2. Front(l) \in Seq(Steps) /\ Len(Front(l)) = Len(l) - 1
      /\ \A i \in 1 .. Len(l) - 1 : Front(l)[i] = l[i]
  BY <1>1 DEF Front
<1>3. DOMAIN Front(l) = 1 .. Len(l) - 1
  BY <1>2
<1> QED
  BY <1>1, <1>2, <1>3 DEF Last

LEMMA AppendOf ==
  ASSUME NEW l \in Seq(Steps), NEW e \in Steps
  PROVE  /\ Append(l, e) \in Seq(Steps) /\ Len(Append(l, e)) = Len(l) + 1
         /\ \A i \in DOMAIN Append(l, e) : Append(l, e)[i] = e \/ (i \in DOMAIN l /\ Append(l, e)[i] = l[i])
<1>1. Len(l) \in Nat /\ DOMAIN l = 1 .. Len(l)
  OBVIOUS
<1>2. Append(l, e) \in Seq(Steps) /\ Len(Append(l, e)) = Len(l) + 1 /\ Append(l, e)[Len(l) + 1] = e
      /\ \A i \in 1 .. Len(l) : Append(l, e)[i] = l[i]
  OBVIOUS
<1>3. DOMAIN Append(l, e) = 1 .. Len(l) + 1
  BY <1>2
<1> QED
  BY <1>1, <1>2, <1>3

-----------------------------------------------------------------------------
(* What the parts of a request do. *)

Stores == [tx : Versions, shape : SUBSET Measure, cells : Cells]

\* The types of single fields, once.
LEMMA Types ==
  ASSUME TypeOK
  PROVE  /\ store \in Stores /\ store.tx \in Nat /\ store.tx \in 1 .. MaxTx + 1 /\ MaxTx \in Nat
         /\ store.shape \subseteq Measure /\ store.cells \in Cells
         /\ model \in Contents /\ model.shape \subseteq Measure /\ model.cells \in Cells
         /\ tx \in Versions /\ tx \in Nat
         /\ log \in Seq(Entries) /\ Len(log) \in Nat \ {0} /\ Len(log) \in 1 .. LogDepth
         /\ DOMAIN log = 1 .. Len(log)
         /\ \A i \in DOMAIN log : log[i] \in Entries
         /\ client.seen \in Nat /\ client.cells \in Cells
<1>1. /\ store \in Stores /\ model \in Contents /\ log \in Seq(Entries) /\ tx \in Versions
      /\ Len(log) \in 1 .. LogDepth /\ client.seen \in Versions /\ client.cells \in Cells
  BY DEF TypeOK, Cells, Stores, Entries
<1>2. MaxTx \in Nat /\ LogDepth \in Nat /\ Versions = 1 .. MaxTx + 1
  BY DepthAssumption DEF Versions
<1>3. store.tx \in Versions /\ store.shape \subseteq Measure /\ store.cells \in Cells
  BY <1>1 DEF Stores
<1>4. model.shape \subseteq Measure /\ model.cells \in Cells
  BY <1>1 DEF Contents, Cells
<1>5. Len(log) \in Nat \ {0} /\ DOMAIN log = 1 .. Len(log) /\ \A i \in DOMAIN log : log[i] \in Entries
  BY <1>1, <1>2
<1> QED
  BY <1>1, <1>2, <1>3, <1>4, <1>5

LEMMA WholeType ==
  ASSUME NEW v \in Versions
  PROVE  Whole(v) \in Entries /\ Whole(v).version = v /\ Whole(v).whole /\ Whole(v).cells = <<>>
  BY DEF Whole, Entries, Edits

\* An entry is logged, and the model becomes what it says.
LogsAs(e) ==
  /\ e \in Entries
  /\ log' = Logged(log, e)
  /\ tx' = e.version
  /\ tx < e.version
  /\ \/ e.whole /\ e.cells = <<>>
     \/ /\ model'.shape = model.shape
        /\ \A m \in Measure : model'.cells[m] = IF m \in Named(e.cells)
                                                THEN After(NoCells, e.cells)[m] ELSE model.cells[m]

\* The entries that stay, where they are now.
LEMMA Shifted ==
  ASSUME TypeOK, NEW e, LogsAs(e)
  PROVE  \E k \in {0, 1} :
           /\ Len(log') = Len(log) + 1 - k /\ Len(log') \in Nat \ {0}
           /\ log'[Len(log')] = e
           /\ \A i \in 1 .. Len(log') - 1 : i + k \in DOMAIN log /\ log'[i] = log[i + k]
<1>1. log \in Seq(Entries) /\ Len(log) \in 1 .. LogDepth /\ Len(log) \in Nat \ {0}
      /\ DOMAIN log = 1 .. Len(log)
  BY Types
<1>2. e \in Entries /\ log' = Logged(log, e)
  BY DEF LogsAs
<1> DEFINE l == Logged(log, e)
<1>7. /\ l[Len(l)] = e
      /\ \E k \in {0, 1} : /\ Len(l) = Len(log) + 1 - k
                           /\ \A i \in 1 .. Len(l) - 1 : l[i] = log[i + k]
  BY <1>1, <1>2, LoggedOf DEF l
<1> HIDE DEF l
<1>3. PICK k \in {0, 1} : /\ Len(log') = Len(log) + 1 - k
                          /\ \A i \in 1 .. Len(log') - 1 : log'[i] = log[i + k]
  BY <1>2, <1>7 DEF l
<1>4. log'[Len(log')] = e
  BY <1>2, <1>7 DEF l
<1>5. \A i \in 1 .. Len(log') - 1 : i + k \in DOMAIN log
  BY <1>1, <1>3
<1>6. Len(log') \in Nat \ {0}
  BY <1>1, <1>3
<1> QED
  BY <1>3, <1>4, <1>5, <1>6

LEMMA LogStep ==
  ASSUME TypeOK, TypeOK', LogInv, NEW e, LogsAs(e)
  PROVE  LogInv'
<1>1. PICK k \in {0, 1} :
           /\ Len(log') = Len(log) + 1 - k /\ Len(log') \in Nat \ {0}
           /\ log'[Len(log')] = e
           /\ \A i \in 1 .. Len(log') - 1 : i + k \in DOMAIN log /\ log'[i] = log[i + k]
  BY Shifted
<1>2. DOMAIN log' = 1 .. Len(log') /\ DOMAIN log = 1 .. Len(log) /\ Len(log) \in Nat
  BY Types, TypeOK' DEF TypeOK
<1>3. \A i \in DOMAIN log : log[i].version <= tx /\ log[i].version \in Nat
  <2>1. \A i \in DOMAIN log : log[i].version \in Nat /\ tx \in Nat
    BY Types DEF Entries, Versions
  <2> QED
    BY <1>2, <2>1 DEF LogInv
<1>4. e.version \in Nat /\ tx \in Nat /\ tx < e.version /\ tx' = e.version
  BY Types DEF LogsAs, Entries, Versions
<1>5. ASSUME NEW i \in DOMAIN log', NEW j \in DOMAIN log', i < j
      PROVE  log'[i].version < log'[j].version
  <2>1. i \in 1 .. Len(log') - 1
    BY <1>1, <1>2, <1>5
  <2>2. CASE j = Len(log')
    BY <1>1, <1>3, <1>4, <2>1, <2>2
  <2>3. CASE j # Len(log')
    <3>1. j \in 1 .. Len(log') - 1
      <4>1. Len(log') \in Nat
        BY <1>1
      <4> QED
        BY <1>2, <2>3, <4>1
    <3>2. i + k \in DOMAIN log /\ j + k \in DOMAIN log /\ i + k < j + k
      BY <1>1, <1>5, <2>1, <3>1
    <3> QED
      BY <1>1, <2>1, <3>1, <3>2 DEF LogInv
  <2> QED
    BY <2>2, <2>3
<1>6. ASSUME NEW i \in DOMAIN log', NEW m \in Named(log'[i].cells),
             \A j \in i + 1 .. Len(log') : ~log'[j].whole /\ m \notin Named(log'[j].cells)
      PROVE  After(NoCells, log'[i].cells)[m] = model'.cells[m]
  <2>1. CASE i = Len(log')
    <3>1. m \in Named(e.cells) /\ log'[i] = e
      BY <1>1, <2>1
    <3>2. e.cells # <<>> /\ m \in Measure
      BY <3>1 DEF Named, LogsAs, Entries, Edits
    <3> QED
      BY <3>1, <3>2 DEF LogsAs
  <2>2. CASE i # Len(log')
    <3>1. i \in 1 .. Len(log') - 1 /\ Len(log') \in i + 1 .. Len(log')
      BY <1>1, <1>2, <2>2
    <3>2. ~e.whole /\ m \notin Named(e.cells)
      BY <1>1, <1>6, <3>1
    <3>3. i + k \in DOMAIN log /\ log'[i] = log[i + k] /\ m \in Named(log[i + k].cells)
      BY <1>1, <3>1
    <3>4. \A j \in (i + k) + 1 .. Len(log) : ~log[j].whole /\ m \notin Named(log[j].cells)
      <4> TAKE j \in (i + k) + 1 .. Len(log)
      <4>1. j - k \in i + 1 .. Len(log') /\ j - k \in 1 .. Len(log') - 1 /\ (j - k) + k = j
        BY <1>1, <1>2, <3>1
      <4>2. log'[j - k] = log[j]
        BY <1>1, <4>1
      <4> QED
        BY <1>6, <4>1, <4>2
    <3>5. After(NoCells, log[i + k].cells)[m] = model.cells[m]
      BY <3>3, <3>4 DEF LogInv
    <3>6. m \in Measure
      BY <3>3, Types DEF Named, Entries, Edits
    <3>7. model'.cells[m] = model.cells[m]
      BY <3>2, <3>6 DEF LogsAs
    <3> QED
      BY <3>3, <3>5, <3>7
  <2> QED
    BY <2>1, <2>2
<1> QED
  BY <1>1, <1>4, <1>5, <1>6 DEF LogInv

\* A client that is told to reload, or to apply the entry's cells.
LEMMA ClientStep ==
  ASSUME TypeOK, TypeOK', LogInv, ClientInv, NEW e, LogsAs(e),
         client' = client \/ (e.whole /\ client'.seen = client.seen)
  PROVE  ClientInv'
<1>1. PICK k \in {0, 1} :
           /\ Len(log') = Len(log) + 1 - k /\ Len(log') \in Nat \ {0}
           /\ log'[Len(log')] = e
           /\ \A i \in 1 .. Len(log') - 1 : i + k \in DOMAIN log /\ log'[i] = log[i + k]
  BY Shifted
<1>2. DOMAIN log' = 1 .. Len(log') /\ DOMAIN log = 1 .. Len(log) /\ Len(log) \in Nat
  BY Types, TypeOK' DEF TypeOK
<1>3. e.version \in Nat /\ tx \in Nat /\ tx < e.version /\ tx' = e.version /\ client.seen \in Nat
      /\ client.seen <= tx /\ client'.seen = client.seen
  BY Types DEF LogsAs, Entries, Versions, ClientInv
<1>4. ASSUME ~client'.stale, NEW i \in DOMAIN log', log'[i].version = client'.seen,
             \A j \in i + 1 .. Len(log') : ~log'[j].whole
      PROVE  /\ client'.shape = model'.shape \cap Visible
             /\ \A m \in Visible : (\A j \in i + 1 .. Len(log') : m \notin Named(log'[j].cells))
                                     => client'.cells[m] = model'.cells[m]
  <2>1. i # Len(log')
    BY <1>1, <1>3, <1>4
  <2>2. i \in 1 .. Len(log') - 1 /\ Len(log') \in i + 1 .. Len(log')
    BY <1>1, <1>2, <2>1
  <2>3. ~e.whole /\ client' = client
    BY <1>1, <1>4, <2>2
  <2>4. i + k \in DOMAIN log /\ log'[i] = log[i + k]
    BY <1>1, <2>2
  <2>5. \A j \in (i + k) + 1 .. Len(log) : j - k \in i + 1 .. Len(log') /\ log'[j - k] = log[j]
    <3> TAKE j \in (i + k) + 1 .. Len(log)
    <3>1. j - k \in i + 1 .. Len(log') /\ j - k \in 1 .. Len(log') - 1 /\ (j - k) + k = j
      BY <1>1, <1>2, <2>2
    <3> QED
      BY <1>1, <3>1
  <2>6. \A j \in (i + k) + 1 .. Len(log) : ~log[j].whole
    BY <1>4, <2>5
  <2>7. /\ client.shape = model.shape \cap Visible
        /\ \A m \in Visible : (\A j \in (i + k) + 1 .. Len(log) : m \notin Named(log[j].cells))
                                => client.cells[m] = model.cells[m]
    BY <1>3, <1>4, <2>3, <2>4, <2>6 DEF ClientInv
  <2>8. ASSUME NEW m \in Visible, \A j \in i + 1 .. Len(log') : m \notin Named(log'[j].cells)
        PROVE  client'.cells[m] = model'.cells[m]
    <3>1. m \notin Named(e.cells) /\ m \in Measure
      BY <1>1, <2>2, <2>8, VisibleAssumption
    <3>2. \A j \in (i + k) + 1 .. Len(log) : m \notin Named(log[j].cells)
      BY <2>5, <2>8
    <3>3. model'.cells[m] = model.cells[m]
      BY <2>3, <3>1 DEF LogsAs
    <3> QED
      BY <2>3, <2>7, <3>2, <3>3
  <2>9. model'.shape = model.shape
    BY <2>3 DEF LogsAs
  <2> QED
    BY <2>3, <2>7, <2>8, <2>9
<1>5. client'.seen <= tx'
  BY <1>3
<1> QED
  BY <1>4, <1>5 DEF ClientInv

\* save with its optimistic check: the batch is in the model, in the store and in
\* the log.
LEMMA ApplyOf ==
  ASSUME TypeOK, StoreInv, NEW b \in Edits, Named(b) \subseteq model.shape, store.tx <= MaxTx,
         ApplyCells(b)
  PROVE  /\ store' \in Stores /\ model' \in Contents /\ tx' \in Versions
         /\ store'.tx = tx' /\ store'.tx # store.tx
         /\ model'.shape = model.shape /\ model'.cells = After(model.cells, b)
         /\ StoreInv'
         /\ \E e \in Entries : LogsAs(e)
<1> DEFINE c == After(model.cells, b)
<1> USE Types
<1>1. c \in Cells /\ (\A m \in Measure \ Named(b) : c[m] = model.cells[m])
      /\ (\A m \in Named(b) : c[m] = After(NoCells, b)[m]) /\ Named(b) \subseteq Measure
  BY AfterOf
<1>2. store.tx = tx /\ store.shape = model.shape /\ store.cells = model.cells
  BY DEF ApplyCells, Conflicts, StoreInv
<1>3. model' = [shape |-> model.shape, cells |-> c]
  BY DEF ApplyCells, Contents
<1> DEFINE d == [m \in Measure |-> IF m \in Named(b) THEN c[m] ELSE store.cells[m]]
<1>4. store' = [tx |-> store.tx + 1, shape |-> store.shape, cells |-> d] /\ tx' = store.tx + 1
  BY DEF ApplyCells, Stores
<1>5. d = c
  BY <1>1, <1>2 DEF Cells
<1>6. store.tx + 1 \in Versions /\ store.tx + 1 # store.tx /\ tx < store.tx + 1
  BY <1>2 DEF Versions
<1> HIDE DEF c, d
<1>7. store' \in Stores /\ model' \in Contents /\ tx' \in Versions
  BY <1>1, <1>3, <1>4, <1>5, <1>6 DEF Stores, Contents, Cells
<1>8. Fits(model)'
  BY <1>1, <1>3 DEF StoreInv, Fits
<1>9. StoreInv'
  BY <1>2, <1>3, <1>4, <1>5, <1>8 DEF StoreInv, Fits
<1>10. \E e \in Entries : LogsAs(e)
  <2> DEFINE e == [version |-> store.tx + 1, whole |-> FALSE, cells |-> b]
  <2>1. e \in Entries /\ Whole(store.tx + 1) \in Entries
    BY <1>6, WholeType DEF Entries
  <2>2. CASE log' = Logged(log, Whole(store.tx + 1))
    <3>1. LogsAs(Whole(store.tx + 1))
      BY <1>4, <1>6, <2>2, WholeType DEF LogsAs
    <3> QED
      BY <2>1, <3>1
  <2>3. CASE log' = Logged(log, e)
    <3>1. \A m \in Measure : c[m] = IF m \in Named(b) THEN After(NoCells, b)[m] ELSE model.cells[m]
      BY <1>1
    <3>2. LogsAs(e)
      BY <1>3, <1>4, <1>6, <2>1, <2>3, <3>1 DEF LogsAs
    <3> QED
      BY <2>1, <3>2
  <2> QED
    BY <2>2, <2>3 DEF ApplyCells
<1> QED
  BY <1>3, <1>4, <1>6, <1>7, <1>9, <1>10 DEF c

\* A refused save leaves the model as it was, for a batch that names no cell twice.
LEMMA RefuseOf ==
  ASSUME TypeOK, NEW b \in Edits, Once(b), NEW a, RefuseCells(b, a)
  PROVE  UNCHANGED <<model, store, tx, log>>
<1>1. model.cells \in Cells /\ model \in Contents
  BY Types
<1>2. PutBack(b) = model.cells
  BY <1>1, PutBackIs DEF PutBack
<1> QED
  BY <1>1, <1>2 DEF RefuseCells, Contents

\* The same for a changed structure.
LEMMA AdoptOf ==
  ASSUME TypeOK, StoreInv, NEW shape \in SUBSET Measure, NEW restore \in Cells,
         store.tx <= MaxTx, Adopt(shape, restore)
  PROVE  /\ store' \in Stores /\ model' \in Contents /\ tx' \in Versions
         /\ store'.tx = tx' /\ store'.tx # store.tx
         /\ model' = Adopted(shape, restore)
         /\ StoreInv'
         /\ \E e \in Entries : LogsAs(e)
<1> DEFINE n == Adopted(shape, restore)
<1> USE Types
<1>1. n \in Contents /\ n.shape = shape /\ n.cells \in Cells /\ Fits(n)
  BY DEF Adopted, Contents, Cells, Fits
<1>2. store.tx = tx /\ store.shape = model.shape /\ store.cells = model.cells
  BY DEF Adopt, Conflicts, StoreInv
<1> DEFINE d == [m \in Measure |-> IF m \notin shape THEN None
                                   ELSE IF n.cells[m] # model.cells[m]
                                   THEN n.cells[m] ELSE store.cells[m]]
<1>3. model' = n /\ store' = [tx |-> store.tx + 1, shape |-> shape, cells |-> d]
      /\ tx' = store.tx + 1 /\ log' = Logged(log, Whole(store.tx + 1))
  BY DEF Adopt
<1>4. d = n.cells
  <2>1. \A m \in Measure : m \notin shape => n.cells[m] = None
    BY DEF Adopted
  <2> HIDE DEF n
  <2> QED
    BY <1>1, <1>2, <2>1 DEF Cells
<1>5. store.tx + 1 \in Versions /\ store.tx + 1 # store.tx /\ tx < store.tx + 1
  BY <1>2 DEF Versions
<1> HIDE DEF n, d
<1>6. store' \in Stores /\ model' \in Contents /\ tx' \in Versions
  BY <1>1, <1>3, <1>4, <1>5 DEF Stores
<1>7. StoreInv'
  BY <1>1, <1>3, <1>4 DEF StoreInv, Fits
<1>8. LogsAs(Whole(store.tx + 1)) /\ Whole(store.tx + 1) \in Entries
  BY <1>3, <1>5, WholeType DEF LogsAs
<1> QED
  BY <1>3, <1>5, <1>6, <1>7, <1>8 DEF n

LEMMA RefreshOf ==
  ASSUME TypeOK, StoreInv, Refresh, UNCHANGED store
  PROVE  /\ model' \in Contents /\ tx' \in Versions /\ StoreInv' /\ tx' = store.tx
         /\ \/ UNCHANGED <<model, tx, log>>
            \/ \E e \in Entries : LogsAs(e) /\ e.whole
<1> USE Types
<1>1. CASE store.tx = tx
  <2>1. UNCHANGED <<model, tx, log>>
    BY <1>1 DEF Refresh
  <2> QED
    BY <1>1, <2>1 DEF StoreInv, Fits
<1>2. CASE store.tx # tx
  <2>1. model' = [shape |-> store.shape, cells |-> store.cells] /\ tx' = store.tx
        /\ log' = Logged(log, Whole(store.tx))
    BY <1>2 DEF Refresh
  <2>2. model' \in Contents /\ tx' \in Versions /\ StoreInv'
    BY <2>1 DEF Contents, Cells, Stores, StoreInv, Fits
  <2>3. tx < store.tx /\ store.tx \in Versions
    BY <1>2 DEF StoreInv, Stores
  <2>4. LogsAs(Whole(store.tx)) /\ Whole(store.tx) \in Entries /\ Whole(store.tx).whole
    BY <2>1, <2>3, WholeType DEF LogsAs
  <2> QED
    BY <2>1, <2>2, <2>4
<1> QED
  BY <1>1, <1>2

\* What the log is after an entry.
LEMMA LogType ==
  ASSUME TypeOK, NEW e \in Entries, LogsAs(e)
  PROVE  log' \in Seq(Entries) /\ Len(log') \in 1 .. LogDepth
<1>1. log \in Seq(Entries) /\ Len(log) \in 1 .. LogDepth
  BY Types
<1> QED
  BY <1>1, LoggedOf DEF LogsAs

-----------------------------------------------------------------------------
(* The stacks. *)

StacksOK == /\ undo \in [Session -> Seq(Steps)] /\ redo \in [Session -> Seq(Steps)]
            /\ \A s \in Session : Len(undo[s]) + Len(redo[s]) <= UndoDepth

LEMMA RecordOf ==
  ASSUME StacksOK, StepsInv, NEW s \in Session, NEW step \in Steps, StepInv(step),
         Record(s, step)
  PROVE  StacksOK' /\ StepsInv'
<1>1. undo[s] \in Seq(Steps) /\ redo[s] \in Seq(Steps) /\ Len(undo[s]) \in Nat
      /\ Len(redo[s]) \in Nat /\ UndoDepth \in Nat
  BY DepthAssumption DEF StacksOK
<1>2. Len(undo[s]) <= UndoDepth
  BY <1>1 DEF StacksOK
<1>3. undo' = [undo EXCEPT ![s] = Stacked(undo[s], step)] /\ redo' = [redo EXCEPT ![s] = <<>>]
  BY DEF Record, Stacked
<1> DEFINE a == Stacked(undo[s], step)
<1>4. /\ a \in Seq(Steps) /\ Len(a) <= UndoDepth /\ Len(a) \in Nat
      /\ \A i \in DOMAIN a : a[i] = step \/ \E j \in DOMAIN undo[s] : a[i] = undo[s][j]
  BY <1>1, <1>2, StackOf
<1>5. undo'[s] = a /\ redo'[s] = <<>> /\ \A o \in Session : o # s => undo'[o] = undo[o] /\ redo'[o] = redo[o]
  BY <1>3 DEF StacksOK
<1>6. undo' \in [Session -> Seq(Steps)] /\ redo' \in [Session -> Seq(Steps)]
  BY <1>3, <1>4 DEF StacksOK
<1> HIDE DEF a
<1>7. StacksOK'
  <2>1. ASSUME NEW o \in Session PROVE Len(undo'[o]) + Len(redo'[o]) <= UndoDepth
    <3>1. CASE o = s
      <4>1. Len(redo'[o]) = 0 /\ undo'[o] = a
        BY <1>5, <3>1
      <4> QED
        BY <1>1, <1>4, <4>1
    <3>2. CASE o # s
      BY <1>5, <3>2 DEF StacksOK
    <3> QED
      BY <3>1, <3>2
  <2> QED
    BY <1>6, <2>1 DEF StacksOK
<1>8. StepsInv'
  <2>1. \A i \in DOMAIN a : StepInv(a[i])
    BY <1>4 DEF StepsInv
  <2> QED
    BY <1>5, <2>1 DEF StepsInv
<1> QED
  BY <1>7, <1>8

\* The step on top of the stack an undo or a redo works on.
LEMMA TopOf ==
  ASSUME StacksOK, StepsInv, req.kind \in {"undo", "redo"}, req.session \in Session, From # <<>>
  PROVE  Last(From) \in Steps /\ StepInv(Last(From))
<1>1. From \in Seq(Steps) /\ \A i \in DOMAIN From : StepInv(From[i])
  BY DEF From, StacksOK, StepsInv
<1> QED
  BY <1>1, FrontOf

LEMMA PopOf ==
  ASSUME StacksOK, StepsInv, req.kind \in {"undo", "redo"}, req.session \in Session, From # <<>>,
         Pop
  PROVE  StacksOK' /\ StepsInv'
<1> DEFINE s == req.session
           f == Front(From)
<1>1. From \in Seq(Steps) /\ \A i \in DOMAIN From : StepInv(From[i])
  BY DEF From, StacksOK, StepsInv
<1>2. f \in Seq(Steps) /\ Len(f) = Len(From) - 1 /\ Len(From) \in Nat
      /\ \A i \in DOMAIN f : i \in DOMAIN From /\ f[i] = From[i]
  BY <1>1, FrontOf
<1>3. UndoDepth \in Nat /\ \A o \in Session : Len(undo[o]) \in Nat /\ Len(redo[o]) \in Nat
  BY DepthAssumption DEF StacksOK
<1>4. \A i \in DOMAIN f : StepInv(f[i])
  BY <1>1, <1>2
<1>5. CASE req.kind = "undo"
  <2>1. From = undo[s] /\ undo' = [undo EXCEPT ![s] = f] /\ redo' = redo
    BY <1>5 DEF From, Pop
  <2> HIDE DEF f
  <2>2. undo'[s] = f /\ \A o \in Session : o # s => undo'[o] = undo[o]
    BY <2>1 DEF StacksOK
  <2>3. undo' \in [Session -> Seq(Steps)]
    BY <1>2, <2>1 DEF StacksOK
  <2>4. \A o \in Session : Len(undo'[o]) + Len(redo'[o]) <= UndoDepth
    BY <1>2, <1>3, <2>1, <2>2 DEF StacksOK
  <2> QED
    BY <1>4, <2>1, <2>2, <2>3, <2>4 DEF StacksOK, StepsInv
<1>6. CASE req.kind # "undo"
  <2>1. From = redo[s] /\ redo' = [redo EXCEPT ![s] = f] /\ undo' = undo
    BY <1>6 DEF From, Pop
  <2> HIDE DEF f
  <2>2. redo'[s] = f /\ \A o \in Session : o # s => redo'[o] = redo[o]
    BY <2>1 DEF StacksOK
  <2>3. redo' \in [Session -> Seq(Steps)]
    BY <1>2, <2>1 DEF StacksOK
  <2>4. \A o \in Session : Len(undo'[o]) + Len(redo'[o]) <= UndoDepth
    BY <1>2, <1>3, <2>1, <2>2 DEF StacksOK
  <2> QED
    BY <1>4, <2>1, <2>2, <2>3, <2>4 DEF StacksOK, StepsInv
<1> QED
  BY <1>5, <1>6

LEMMA PushOf ==
  ASSUME StacksOK, StepsInv, req.kind \in {"undo", "redo"}, req.session \in Session, From # <<>>,
         NEW step \in Steps, StepInv(step), Push(step)
  PROVE  StacksOK' /\ StepsInv'
<1> DEFINE s == req.session
           f == Front(From)
<1>1. From \in Seq(Steps) /\ \A i \in DOMAIN From : StepInv(From[i])
  BY DEF From, StacksOK, StepsInv
<1>2. f \in Seq(Steps) /\ Len(f) = Len(From) - 1 /\ Len(From) \in Nat
      /\ \A i \in DOMAIN f : i \in DOMAIN From /\ f[i] = From[i]
  BY <1>1, FrontOf
<1>3. UndoDepth \in Nat /\ \A o \in Session : Len(undo[o]) \in Nat /\ Len(redo[o]) \in Nat
  BY DepthAssumption DEF StacksOK
<1>4. \A i \in DOMAIN f : StepInv(f[i])
  BY <1>1, <1>2
<1>5. CASE req.kind = "undo"
  <2> DEFINE g == Append(redo[s], step)
  <2>1. From = undo[s] /\ undo' = [undo EXCEPT ![s] = f] /\ redo' = [redo EXCEPT ![s] = g]
    BY <1>5 DEF From, Push
  <2>2. redo[s] \in Seq(Steps) /\ \A i \in DOMAIN redo[s] : StepInv(redo[s][i])
    BY DEF StacksOK, StepsInv
  <2>3. g \in Seq(Steps) /\ Len(g) = Len(redo[s]) + 1
        /\ \A i \in DOMAIN g : g[i] = step \/ (i \in DOMAIN redo[s] /\ g[i] = redo[s][i])
    BY <2>2, AppendOf
  <2>4. \A i \in DOMAIN g : StepInv(g[i])
    BY <2>2, <2>3
  <2> HIDE DEF f, g
  <2>5. undo'[s] = f /\ redo'[s] = g
        /\ \A o \in Session : o # s => undo'[o] = undo[o] /\ redo'[o] = redo[o]
    BY <2>1 DEF StacksOK
  <2>6. undo' \in [Session -> Seq(Steps)] /\ redo' \in [Session -> Seq(Steps)]
    BY <1>2, <2>1, <2>3 DEF StacksOK
  <2>7. \A o \in Session : Len(undo'[o]) + Len(redo'[o]) <= UndoDepth
    BY <1>2, <1>3, <2>1, <2>3, <2>5 DEF StacksOK
  <2> QED
    BY <1>4, <2>4, <2>5, <2>6, <2>7 DEF StacksOK, StepsInv
<1>6. CASE req.kind # "undo"
  <2> DEFINE g == Append(undo[s], step)
  <2>1. From = redo[s] /\ redo' = [redo EXCEPT ![s] = f] /\ undo' = [undo EXCEPT ![s] = g]
    BY <1>6 DEF From, Push
  <2>2. undo[s] \in Seq(Steps) /\ \A i \in DOMAIN undo[s] : StepInv(undo[s][i])
    BY DEF StacksOK, StepsInv
  <2>3. g \in Seq(Steps) /\ Len(g) = Len(undo[s]) + 1
        /\ \A i \in DOMAIN g : g[i] = step \/ (i \in DOMAIN undo[s] /\ g[i] = undo[s][i])
    BY <2>2, AppendOf
  <2>4. \A i \in DOMAIN g : StepInv(g[i])
    BY <2>2, <2>3
  <2> HIDE DEF f, g
  <2>5. undo'[s] = g /\ redo'[s] = f
        /\ \A o \in Session : o # s => undo'[o] = undo[o] /\ redo'[o] = redo[o]
    BY <2>1 DEF StacksOK
  <2>6. undo' \in [Session -> Seq(Steps)] /\ redo' \in [Session -> Seq(Steps)]
    BY <1>2, <2>1, <2>3 DEF StacksOK
  <2>7. \A o \in Session : Len(undo'[o]) + Len(redo'[o]) <= UndoDepth
    BY <1>2, <1>3, <2>1, <2>3, <2>5 DEF StacksOK
  <2> QED
    BY <1>4, <2>4, <2>5, <2>6, <2>7 DEF StacksOK, StepsInv
<1> QED
  BY <1>5, <1>6

-----------------------------------------------------------------------------
(* Steps on the stacks. *)

LEMMA CellStepOf ==
  ASSUME TypeOK, StoreInv, NEW b \in Edits, Once(b)
  PROVE  CellStep(b) \in Steps /\ StepInv(CellStep(b))
<1> DEFINE step == CellStep(b)
           c == After(model.cells, b)
<1>1. model \in Contents /\ model.cells \in Cells /\ c \in Cells /\ Before(model.cells, b) \in Edits
  BY Types, AfterOf, BeforeOf
<1>2. [model EXCEPT !.cells = After(@, b)] = [shape |-> model.shape, cells |-> c]
  BY <1>1 DEF Contents
<1>3. step = [kind |-> "cells", before |-> Before(model.cells, b), after |-> b,
              was |-> model, left |-> [shape |-> model.shape, cells |-> c]]
  BY <1>2 DEF CellStep
<1> HIDE DEF step
<1>4. [shape |-> model.shape, cells |-> c] \in Contents
  BY <1>1 DEF Contents, Cells
<1>5. step \in Steps
  BY <1>1, <1>3, <1>4 DEF Steps
<1>6. StepInv(step)
  BY <1>3 DEF StepInv, CellsInv, StoreInv
<1> QED
  BY <1>5, <1>6 DEF step

LEMMA ShapeStepOf ==
  ASSUME TypeOK, StoreInv, NEW shape \in SUBSET Measure, NEW restore \in Cells
  PROVE  ShapeStep(shape, restore) \in Steps /\ StepInv(ShapeStep(shape, restore))
<1> DEFINE step == ShapeStep(shape, restore)
           n == Adopted(shape, restore)
           d == Drops(shape)
<1>1. model \in Contents /\ model.cells \in Cells /\ model.shape \subseteq Measure
  BY Types
<1>2. n \in Contents /\ n.shape = shape /\ d \in Cells
  BY <1>1 DEF Adopted, Contents, Drops, Cells
<1>3. \A m \in Measure :
        IF m \in shape
        THEN /\ d[m] = None
             /\ model.cells[m] # None => n.cells[m] = model.cells[m]
        ELSE d[m] = model.cells[m] /\ n.cells[m] = None
  BY DEF Adopted, Drops
<1>4. step = [kind |-> "shape", shape |-> model.shape, cells |-> d, was |-> model, left |-> n]
  BY DEF ShapeStep
<1> HIDE DEF step, n, d
<1>5. step \in Steps
  BY <1>1, <1>2, <1>4 DEF Steps, Cells
<1>6. StepInv(step)
  BY <1>2, <1>3, <1>4 DEF StepInv, ShapeInv, StoreInv
<1> QED
  BY <1>5, <1>6 DEF step

\* The batch that takes a cell step back or makes it again names the same cells.
LEMMA RewritesOf ==
  ASSUME NEW step \in Steps, StepInv(step), step.kind = "cells"
  PROVE  /\ Rewrites(step) \in Edits /\ Once(Rewrites(step))
         /\ Named(Rewrites(step)) = Named(step.after)
<1>1. step.was \in Contents /\ step.before \in Edits /\ step.after \in Edits
  BY DEF Steps
<1>2. step.was.cells \in Cells /\ Once(step.after) /\ step.before = Before(step.was.cells, step.after)
  BY <1>1 DEF Contents, Cells, StepInv, CellsInv
<1>3. Once(step.before) /\ Named(step.before) = Named(step.after)
  BY <1>1, <1>2, BeforeOf
<1> QED
  BY <1>1, <1>2, <1>3 DEF Rewrites

LEMMA StepType ==
  ASSUME NEW step \in Steps
  PROVE  /\ step.kind \in {"cells", "shape"}
         /\ step.kind = "shape" => step.shape \in SUBSET Measure /\ step.cells \in Cells
         /\ step.was \in Contents /\ step.left \in Contents
  BY DEF Steps, Cells

LEMMA RequestType ==
  ASSUME TypeOK
  PROVE  /\ req = NoRequest <=> req.kind = "none"
         /\ req.kind \in {"none", "edit", "define", "delete", "undo", "redo"}
         /\ req.kind # "none" => req.session \in Session /\ store.tx <= MaxTx
         /\ req.kind = "edit" => req.batch \in Batches /\ req.tries \in 0 .. MaxTries
                                 /\ req \in [kind : {"edit"}, session : Session, batch : Batches,
                                             tries : 0 .. MaxTries]
         /\ req.kind \in {"define", "delete"} => req.measure \in Measure
<1>1. req \in Served /\ (req # NoRequest => store.tx <= MaxTx)
  BY DEF TypeOK
<1>2. CASE req = NoRequest
  BY <1>2 DEF NoRequest
<1>3. CASE req \in [kind : {"edit"}, session : Session, batch : Batches, tries : 0 .. MaxTries]
  BY <1>1, <1>3 DEF NoRequest
<1>4. CASE req \in [kind : {"define", "delete"}, session : Session, measure : Measure]
  BY <1>1, <1>4 DEF NoRequest
<1>5. CASE req \in [kind : {"undo", "redo"}, session : Session]
  BY <1>1, <1>5 DEF NoRequest
<1> QED
  BY <1>1, <1>2, <1>3, <1>4, <1>5 DEF Served

-----------------------------------------------------------------------------
(* Every step keeps the inductive invariant. *)

Replies == {"none", "ok", "refused", "conflict", "error"}
Clients == [seen : Versions, stale : BOOLEAN, shape : SUBSET Visible, cells : Cells]

LEMMA TypeNext ==
  ASSUME store' \in Stores, model' \in Contents, tx' \in Versions,
         log' \in Seq(Entries), Len(log') \in 1 .. LogDepth, StacksOK', req' \in Served,
         req' # NoRequest => store'.tx <= MaxTx, reply' \in Replies, client' \in Clients
  PROVE  TypeOK'
  BY DEF TypeOK, Stores, Cells, Entries, StacksOK, Replies, Clients

\* What the model and the log go to: nothing new, or what one entry says.
Moves ==
  \/ UNCHANGED <<store, model, tx, log>>
  \/ /\ store' \in Stores /\ model' \in Contents /\ tx' \in Versions
     /\ \E e \in Entries : LogsAs(e)

LEMMA MovesKeep ==
  ASSUME IInv, Moves, StoreInv', StacksOK', StepsInv', UNCHANGED client, reply' \in Replies,
         req' \in Served, req' # NoRequest => store'.tx <= MaxTx
  PROVE  IInv'
<1>1. TypeOK /\ LogInv /\ ClientInv
  BY DEF IInv
<1>2. client' \in Clients
  BY <1>1 DEF TypeOK, Clients, Cells
<1>3. CASE UNCHANGED <<store, model, tx, log>>
  <2>1. TypeOK'
    BY <1>1, <1>2, <1>3, Types, TypeNext
  <2>2. LogInv' /\ ClientInv'
    BY <1>1, <1>3 DEF LogInv, ClientInv
  <2> QED
    BY <2>1, <2>2 DEF IInv
<1>4. ASSUME store' \in Stores, model' \in Contents, tx' \in Versions,
             NEW e \in Entries, LogsAs(e)
      PROVE  IInv'
  <2>1. log' \in Seq(Entries) /\ Len(log') \in 1 .. LogDepth
    BY <1>1, <1>4, LogType
  <2>2. TypeOK'
    BY <1>2, <1>4, <2>1, TypeNext
  <2>3. LogInv' /\ ClientInv'
    BY <1>1, <1>4, <2>2, LogStep, ClientStep
  <2> QED
    BY <2>2, <2>3 DEF IInv
<1> QED
  BY <1>3, <1>4 DEF Moves

\* A request that is answered.
LEMMA AnswerKeeps ==
  ASSUME IInv, Moves, StoreInv', StacksOK', StepsInv', UNCHANGED client,
         NEW a \in Replies, Answer(a)
  PROVE  IInv'
<1>1. req' = NoRequest /\ reply' \in Replies /\ NoRequest \in Served
  BY DEF Answer, Served
<1> QED
  BY <1>1, MovesKeep

\* The invariant of what a step leaves alone.
LEMMA Kept ==
  ASSUME IInv
  PROVE  /\ StacksOK /\ StepsInv /\ StoreInv /\ TypeOK /\ reply \in Replies
         /\ UNCHANGED <<undo, redo>> => StacksOK' /\ StepsInv'
         /\ UNCHANGED <<store, model, tx>> => StoreInv'
<1>1. StacksOK /\ StepsInv /\ StoreInv /\ TypeOK /\ reply \in Replies
  BY DEF IInv, TypeOK, StacksOK, Replies
<1>2. UNCHANGED <<undo, redo>> => StacksOK'
  BY <1>1 DEF StacksOK
<1>3. UNCHANGED <<undo, redo>> => StepsInv'
  BY <1>1 DEF StepsInv
<1>4. UNCHANGED <<store, model, tx>> => StoreInv'
  BY <1>1 DEF StoreInv
<1> QED
  BY <1>1, <1>2, <1>3, <1>4

LEMMA EditOf ==
  ASSUME IInv, Plain, req.kind = "edit"
  PROVE  req.batch \in Edits /\ Once(req.batch) /\ req.session \in Session /\ store.tx <= MaxTx
<1>1. req.batch \in Batches /\ req.session \in Session /\ store.tx <= MaxTx
  BY RequestType DEF IInv
<1> QED
  BY <1>1, BatchesAssumption DEF Plain, Edits

LEMMA ServeStep ==
  ASSUME IInv, NEW s \in Session, NEW r \in Requests(s), Serve(r)
  PROVE  IInv'
<1>1. StacksOK' /\ StepsInv' /\ TypeOK /\ StoreInv /\ reply' \in Replies /\ client' = client
  BY Kept DEF Serve
<1>2. Refresh /\ UNCHANGED store
  BY DEF Serve
<1>3. StoreInv' /\ Moves
  BY <1>1, <1>2, RefreshOf, Types DEF Moves
<1>4. r \in Served
  BY DepthAssumption DEF Requests, Served
<1>5. store'.tx <= MaxTx
  BY <1>1, Types, DepthAssumption DEF Serve
<1> QED
  BY <1>1, <1>3, <1>4, <1>5, MovesKeep DEF Serve

LEMMA RetryStep ==
  ASSUME IInv, Retry
  PROVE  IInv'
<1>1. StacksOK' /\ StepsInv' /\ TypeOK /\ StoreInv /\ reply' \in Replies /\ client' = client
  BY Kept DEF Retry
<1>2. Refresh /\ UNCHANGED store
  BY DEF Retry
<1>3. StoreInv' /\ Moves
  BY <1>1, <1>2, RefreshOf, Types DEF Moves
<1>4. req' \in Served
  <2>1. /\ req \in [kind : {"edit"}, session : Session, batch : Batches, tries : 0 .. MaxTries]
        /\ req.tries < MaxTries /\ MaxTries \in Nat
    BY <1>1, RequestType, DepthAssumption DEF Retry
  <2>2. req' = [req EXCEPT !.tries = @ + 1]
    BY DEF Retry
  <2> QED
    BY <2>1, <2>2 DEF Served
<1>5. store'.tx <= MaxTx
  BY <1>1, <1>2, RequestType DEF Retry
<1> QED
  BY <1>1, <1>3, <1>4, <1>5, MovesKeep

LEMMA EditStep ==
  ASSUME IInv, Plain, Edit
  PROVE  IInv'
<1>1. StacksOK /\ StepsInv /\ TypeOK /\ StoreInv /\ client' = client
  BY Kept DEF Edit
<1>2. req.batch \in Edits /\ Once(req.batch) /\ req.session \in Session /\ store.tx <= MaxTx
      /\ Named(req.batch) \subseteq model.shape
  BY EditOf DEF Edit
<1>3. ASSUME ApplyCells(req.batch), Record(req.session, CellStep(req.batch)), Answer("ok")
      PROVE  IInv'
  <2>1. StoreInv' /\ Moves
    BY <1>1, <1>2, <1>3, ApplyOf DEF Moves
  <2>2. StacksOK' /\ StepsInv'
    BY <1>1, <1>2, <1>3, CellStepOf, RecordOf
  <2> QED
    BY <1>1, <1>3, <2>1, <2>2, AnswerKeeps DEF Replies
<1>4. ASSUME NEW a \in Replies, RefuseCells(req.batch, a), Answer(a), UNCHANGED <<undo, redo>>
      PROVE  IInv'
  <2>1. UNCHANGED <<store, model, tx, log>>
    BY <1>1, <1>2, <1>4, RefuseOf
  <2>2. StoreInv' /\ Moves /\ StacksOK' /\ StepsInv'
    BY <1>4, <2>1, Kept DEF Moves
  <2> QED
    BY <1>1, <1>4, <2>2, AnswerKeeps
<1> QED
  BY <1>3, <1>4 DEF Edit, Replies

LEMMA StructureStep ==
  ASSUME IInv, ChangeStructure
  PROVE  IInv'
<1> DEFINE shape == IF req.kind = "define" THEN model.shape \cup {req.measure}
                    ELSE model.shape \ {req.measure}
<1>1. StacksOK /\ StepsInv /\ TypeOK /\ StoreInv /\ client' = client
  BY Kept DEF ChangeStructure
<1>2. req.kind \in {"define", "delete"}
  BY DEF ChangeStructure
<1>3. req.session \in Session /\ req.measure \in Measure /\ store.tx <= MaxTx
  BY <1>1, <1>2, RequestType
<1>4. shape \in SUBSET Measure /\ NoCells \in Cells
  BY <1>1, <1>3, Types DEF NoCells, Cells
<1>5. ASSUME Adopt(shape, NoCells), Record(req.session, ShapeStep(shape, NoCells)), Answer("ok")
      PROVE  IInv'
  <2> HIDE DEF shape
  <2>1. StoreInv' /\ Moves
    BY <1>1, <1>3, <1>4, <1>5, AdoptOf DEF Moves
  <2>2. StacksOK' /\ StepsInv'
    BY <1>1, <1>3, <1>4, <1>5, ShapeStepOf, RecordOf
  <2> QED
    BY <1>1, <1>5, <2>1, <2>2, AnswerKeeps DEF Replies
<1>6. ASSUME NEW a \in Replies, Answer(a), UNCHANGED <<store, model, tx, log, undo, redo>>
      PROVE  IInv'
  <2>1. StoreInv' /\ Moves /\ StacksOK' /\ StepsInv'
    BY <1>6, Kept DEF Moves
  <2> QED
    BY <1>1, <1>6, <2>1, AnswerKeeps
<1> QED
  BY <1>5, <1>6 DEF ChangeStructure, Replies

LEMMA UndoTakes ==
  ASSUME IInv, UndoStep
  PROVE  IInv'
<1> DEFINE step == Last(From)
<1>1. StacksOK /\ StepsInv /\ TypeOK /\ StoreInv /\ client' = client /\ Answer("ok")
  BY Kept DEF UndoStep
<1>2. req.kind \in {"undo", "redo"} /\ From # <<>>
  BY DEF UndoStep
<1>3. req.session \in Session /\ store.tx <= MaxTx
  BY <1>1, <1>2, RequestType
<1>4. step \in Steps /\ StepInv(step)
  BY <1>1, <1>2, <1>3, TopOf
<1>5. ASSUME step.kind = "cells", Named(step.after) \subseteq model.shape,
             ApplyCells(Rewrites(step)), Push(step)
      PROVE  IInv'
  <2> HIDE DEF step
  <2>1. Rewrites(step) \in Edits /\ Named(Rewrites(step)) \subseteq model.shape
    BY <1>4, <1>5, RewritesOf
  <2>2. StoreInv' /\ Moves
    BY <1>1, <1>3, <1>5, <2>1, ApplyOf DEF Moves
  <2>3. StacksOK' /\ StepsInv'
    BY <1>1, <1>2, <1>3, <1>4, <1>5, PushOf
  <2> QED
    BY <1>1, <2>2, <2>3, AnswerKeeps DEF Replies
<1>6. ASSUME step.kind = "shape", Adopt(step.shape, step.cells),
             Push(ShapeStep(step.shape, step.cells))
      PROVE  IInv'
  <2> HIDE DEF step
  <2>1. step.shape \in SUBSET Measure /\ step.cells \in Cells
    BY <1>4, <1>6, StepType
  <2>2. StoreInv' /\ Moves
    BY <1>1, <1>3, <1>6, <2>1, AdoptOf DEF Moves
  <2>3. ShapeStep(step.shape, step.cells) \in Steps /\ StepInv(ShapeStep(step.shape, step.cells))
    BY <1>1, <2>1, ShapeStepOf
  <2>4. StacksOK' /\ StepsInv'
    BY <1>1, <1>2, <1>3, <1>6, <2>3, PushOf
  <2> QED
    BY <1>1, <2>2, <2>4, AnswerKeeps DEF Replies
<1> QED
  BY <1>5, <1>6 DEF UndoStep

LEMMA UndoRefusedStep ==
  ASSUME IInv, UndoRefused
  PROVE  IInv'
<1> DEFINE step == Last(From)
<1>1. StacksOK /\ StepsInv /\ TypeOK /\ StoreInv /\ client' = client /\ Pop
  BY Kept DEF UndoRefused
<1>2. req.kind \in {"undo", "redo"} /\ From # <<>>
  BY DEF UndoRefused
<1>3. req.session \in Session
  BY <1>1, <1>2, RequestType
<1>4. step \in Steps /\ StepInv(step) /\ StacksOK' /\ StepsInv'
  BY <1>1, <1>2, <1>3, TopOf, PopOf
<1>5. ASSUME NEW a \in Replies, Answer(a), UNCHANGED <<store, model, tx, log>>
      PROVE  IInv'
  <2>1. StoreInv' /\ Moves
    BY <1>5, Kept DEF Moves
  <2> QED
    BY <1>1, <1>4, <1>5, <2>1, AnswerKeeps
<1>6. ASSUME step.kind = "cells", NEW a \in {"conflict", "error"}, RefuseCells(Rewrites(step), a),
             Answer(a)
      PROVE  IInv'
  <2> HIDE DEF step
  <2>1. Rewrites(step) \in Edits /\ Once(Rewrites(step))
    BY <1>4, <1>6, RewritesOf
  <2>2. UNCHANGED <<store, model, tx, log>>
    BY <1>1, <1>6, <2>1, RefuseOf
  <2> QED
    BY <1>5, <1>6, <2>2 DEF Replies
<1> QED
  BY <1>5, <1>6 DEF UndoRefused, Replies

LEMMA RefusedStep ==
  ASSUME IInv, Refuse \/ NothingToUndo
  PROVE  IInv'
<1>1. StoreInv' /\ Moves /\ StacksOK' /\ StepsInv' /\ client' = client /\ Answer("refused")
  BY Kept DEF Refuse, NothingToUndo, Moves
<1> QED
  BY <1>1, AnswerKeeps DEF Replies

\* Versions grow along the log, so one entry has the client's, if any.
LEMMA StartOf ==
  ASSUME TypeOK, LogInv, NEW i \in DOMAIN log
  PROVE  Start(log[i].version) = i + 1
<1> DEFINE v == log[i].version
           Q(k) == log[k].version = v /\ \A j \in 1 .. k - 1 : log[j].version # v
           c == CHOOSE k \in DOMAIN log : Q(k)
<1>1. DOMAIN log = 1 .. Len(log) /\ Len(log) \in Nat /\ \A k \in DOMAIN log : log[k].version \in Nat
  BY Types DEF Entries, Versions
<1>2. \A k, j \in DOMAIN log : j < k => log[j].version # log[k].version
  BY <1>1 DEF LogInv
<1>3. Q(i)
  BY <1>1, <1>2
<1>4. c \in DOMAIN log /\ Q(c)
  BY <1>3
<1>5. Start(v) = 1 + c
  BY DEF Start
<1> HIDE DEF c
<1>6. c = i
  BY <1>1, <1>2, <1>4
<1> QED
  BY <1>1, <1>5, <1>6

\* changes_since, when it is no reload: applied to what the client has, it makes
\* every visible cell the model's.
LEMMA SentOf ==
  ASSUME IInv, ~Reloads(client.seen)
  PROVE  /\ Sent(client.cells, client.seen) \in Cells
         /\ ~client.stale =>
              /\ client.shape = model.shape \cap Visible
              /\ \A m \in Visible : Sent(client.cells, client.seen)[m] = model.cells[m]
<1> DEFINE v == client.seen
           c == client.cells
<1>1. TypeOK /\ LogInv /\ ClientInv
  BY DEF IInv
<1>2. DOMAIN log = 1 .. Len(log) /\ Len(log) \in Nat /\ c \in Cells
      /\ \A k \in DOMAIN log : log[k].cells \in Edits
  BY <1>1, Types DEF Entries
<1>3. PICK i \in DOMAIN log : log[i].version = v
  BY DEF Reloads
<1>4. Start(v) = i + 1
  BY <1>1, <1>3, StartOf
<1>5. \A j \in i + 1 .. Len(log) : ~log[j].whole
  BY <1>4 DEF Reloads
<1>6. ASSUME NEW m \in Measure, Naming(v, m) # {}
      PROVE  /\ Max(Naming(v, m)) \in DOMAIN log
             /\ Max(Naming(v, m)) \in i + 1 .. Len(log)
             /\ m \in Named(log[Max(Naming(v, m))].cells)
             /\ \A j \in Max(Naming(v, m)) + 1 .. Len(log) : m \notin Named(log[j].cells)
  <2> DEFINE S == Naming(v, m)
  <2>1. S \in SUBSET (0 .. Len(log)) /\ S # {}
        /\ (\A j \in i + 1 .. Len(log) : m \in Named(log[j].cells) => j \in S)
        /\ \A j \in S : j \in i + 1 .. Len(log) /\ m \in Named(log[j].cells)
    BY <1>2, <1>4, <1>6 DEF Naming
  <2> HIDE DEF S
  <2>2. PICK k \in S : k = Max(S) /\ \A y \in S : y <= k
    BY <1>2, <2>1, MaxOf
  <2>3. k \in i + 1 .. Len(log) /\ m \in Named(log[k].cells)
    BY <2>1, <2>2
  <2>4. k \in DOMAIN log
    BY <1>2, <2>3
  <2>5. \A j \in k + 1 .. Len(log) : m \notin Named(log[j].cells)
    BY <1>2, <2>1, <2>2, <2>3
  <2> QED
    BY <2>2, <2>3, <2>4, <2>5 DEF S
<1>7. ASSUME NEW m \in Measure
      PROVE  /\ Sent(c, v)[m] \in Value \cup {None}
             /\ m \in Visible /\ Naming(v, m) # {} => Sent(c, v)[m] = model.cells[m]
             /\ Naming(v, m) = {} => Sent(c, v)[m] = c[m]
  <2>1. CASE m \notin Visible \/ Naming(v, m) = {}
    BY <1>2, <2>1 DEF Sent, Cells
  <2>2. CASE m \in Visible /\ Naming(v, m) # {}
    <3> DEFINE k == Max(Naming(v, m))
    <3>1. k \in DOMAIN log /\ k \in i + 1 .. Len(log) /\ m \in Named(log[k].cells)
          /\ \A j \in k + 1 .. Len(log) : m \notin Named(log[j].cells)
      BY <1>6, <2>2
    <3>2. Sent(c, v)[m] = After(c, log[k].cells)[m]
      BY <2>2 DEF Sent
    <3> HIDE DEF k
    <3>3. After(NoCells, log[k].cells)[m] = model.cells[m]
      <4>1. \A j \in k + 1 .. Len(log) : ~log[j].whole
        BY <1>2, <1>5, <3>1
      <4> QED
        BY <1>1, <3>1, <4>1 DEF LogInv
    <3>4. After(c, log[k].cells) \in Cells
          /\ After(c, log[k].cells)[m] = After(NoCells, log[k].cells)[m]
      BY <1>2, <3>1, AfterOf
    <3> QED
      BY <2>2, <3>2, <3>3, <3>4 DEF Cells
  <2> QED
    BY <2>1, <2>2
<1>8. Sent(c, v) \in Cells
  BY <1>7 DEF Sent, Cells
<1>9. ASSUME ~client.stale
      PROVE  /\ client.shape = model.shape \cap Visible
             /\ \A m \in Visible : Sent(c, v)[m] = model.cells[m]
  <2>1. /\ client.shape = model.shape \cap Visible
        /\ \A m \in Visible : (\A j \in i + 1 .. Len(log) : m \notin Named(log[j].cells))
                                => c[m] = model.cells[m]
    BY <1>1, <1>3, <1>5, <1>9 DEF ClientInv
  <2>2. ASSUME NEW m \in Visible, Naming(v, m) = {}
        PROVE  Sent(c, v)[m] = model.cells[m]
    <3>1. \A j \in i + 1 .. Len(log) : m \notin Named(log[j].cells)
      BY <1>4, <2>2 DEF Naming
    <3> QED
      BY <1>7, <2>1, <2>2, <3>1, VisibleAssumption
  <2> QED
    BY <1>7, <2>1, <2>2, VisibleAssumption
<1> QED
  BY <1>8, <1>9

LEMMA ClientType ==
  ASSUME TypeOK
  PROVE  client \in Clients /\ client.stale \in BOOLEAN /\ client.cells \in Cells
<1>1. client \in Clients
  BY DEF TypeOK, Clients, Cells
<1> QED
  BY <1>1 DEF Clients

LEMMA LookStep ==
  ASSUME IInv, Look
  PROVE  IInv'
<1>1. TypeOK /\ LogInv /\ ClientInv /\ UNCHANGED <<store, model, tx, log, undo, redo, req, reply>>
  BY DEF IInv, Look
<1>2. StacksOK' /\ StepsInv' /\ StoreInv' /\ reply' \in Replies
  BY <1>1, Kept
<1>3. client \in Clients /\ tx \in Versions /\ tx \in Nat
  BY <1>1, Types, ClientType
<1>4. LogInv'
  BY <1>1 DEF LogInv
<1>5. ASSUME client' \in Clients, ClientInv' PROVE IInv'
  <2>1. TypeOK'
    BY <1>1, <1>2, <1>5, Types, TypeNext DEF TypeOK
  <2> QED
    BY <1>2, <1>4, <1>5, <2>1 DEF IInv
<1>6. CASE client.seen = tx
  <2>1. client' = client
    BY <1>6 DEF Look
  <2>2. ClientInv'
    BY <1>1, <2>1 DEF ClientInv
  <2> QED
    BY <1>3, <1>5, <2>1, <2>2
<1>7. CASE client.seen # tx /\ Reloads(client.seen)
  <2>1. client' = [client EXCEPT !.seen = tx, !.stale = TRUE]
    BY <1>7 DEF Look
  <2>2. client' \in Clients /\ client'.seen = tx /\ client'.stale
    BY <1>3, <2>1 DEF Clients
  <2>3. ClientInv'
    BY <1>1, <1>3, <2>2 DEF ClientInv
  <2> QED
    BY <1>5, <2>2, <2>3
<1>8. CASE client.seen # tx /\ ~Reloads(client.seen)
  <2> DEFINE d == Sent(client.cells, client.seen)
  <2>1. client' = [client EXCEPT !.seen = tx, !.cells = d]
    BY <1>8 DEF Look
  <2>2. d \in Cells /\ (~client.stale => /\ client.shape = model.shape \cap Visible
                                         /\ \A m \in Visible : d[m] = model.cells[m])
    BY <1>8, SentOf
  <2> HIDE DEF d
  <2>3. client' \in Clients /\ client'.seen = tx /\ client'.stale = client.stale
        /\ client'.shape = client.shape /\ client'.cells = d
    BY <1>3, <2>1, <2>2 DEF Clients
  <2>4. ClientInv'
    BY <1>1, <1>3, <2>2, <2>3 DEF ClientInv
  <2> QED
    BY <1>5, <2>3, <2>4
<1> QED
  BY <1>6, <1>7, <1>8

LEMMA FetchStep ==
  ASSUME IInv, Fetch
  PROVE  IInv'
<1>1. TypeOK /\ LogInv /\ ClientInv /\ StoreInv /\ Refresh
      /\ UNCHANGED <<store, undo, redo, req, reply>>
  BY DEF IInv, Fetch
<1>2. StacksOK' /\ StepsInv' /\ reply' \in Replies
  BY <1>1, Kept
<1>3. /\ model' \in Contents /\ tx' \in Versions /\ StoreInv'
      /\ \/ UNCHANGED <<model, tx, log>>
         \/ \E e \in Entries : LogsAs(e) /\ e.whole
  BY <1>1, RefreshOf
<1> DEFINE d == [m \in Measure |-> IF m \in Visible THEN model'.cells[m] ELSE None]
<1>4. client' = [client EXCEPT !.stale = FALSE, !.shape = model'.shape \cap Visible, !.cells = d]
  BY DEF Fetch
<1>5. d \in Cells /\ \A m \in Visible : d[m] = model'.cells[m]
  BY <1>3, VisibleAssumption DEF Contents, Cells
<1> HIDE DEF d
<1>6. client' \in Clients /\ client'.seen = client.seen /\ client'.cells = d
      /\ client'.shape = model'.shape \cap Visible
  <2>1. client \in Clients
    BY <1>1, ClientType
  <2> QED
    BY <1>4, <1>5, <2>1 DEF Clients
<1>7. req' \in Served /\ (req' # NoRequest => store'.tx <= MaxTx) /\ store' \in Stores
  BY <1>1, Types DEF TypeOK
<1>8. CASE UNCHANGED <<model, tx, log>>
  <2>1. TypeOK'
    BY <1>1, <1>2, <1>3, <1>6, <1>7, <1>8, Types, TypeNext
  <2>2. LogInv'
    BY <1>1, <1>8 DEF LogInv
  <2>3. ClientInv'
    BY <1>1, <1>5, <1>6, <1>8 DEF ClientInv
  <2> QED
    BY <1>2, <1>3, <2>1, <2>2, <2>3 DEF IInv
<1>9. ASSUME NEW e \in Entries, LogsAs(e), e.whole PROVE IInv'
  <2>1. log' \in Seq(Entries) /\ Len(log') \in 1 .. LogDepth
    BY <1>1, <1>9, LogType
  <2>2. TypeOK'
    BY <1>2, <1>3, <1>6, <1>7, <2>1, TypeNext
  <2>3. LogInv' /\ ClientInv'
    BY <1>1, <1>6, <1>9, <2>2, LogStep, ClientStep
  <2> QED
    BY <1>2, <1>3, <2>2, <2>3 DEF IInv
<1> QED
  BY <1>3, <1>8, <1>9

\* What another program stores, the model has not read yet.
LEMMA OtherOf ==
  ASSUME TypeOK, StoreInv, NEW m \in Measure, OtherWrite(m)
  PROVE  store' \in Stores /\ Fits(store)' /\ store'.tx = store.tx + 1 /\ store'.tx <= MaxTx
<1>1. store \in Stores /\ store.tx \in Nat /\ MaxTx \in Nat /\ Fits(store)
      /\ store.tx + 1 \in Versions /\ store.tx + 1 <= MaxTx
      /\ store.shape \subseteq Measure /\ store.cells \in Cells
  <2>1. store.tx < MaxTx
    BY DEF OtherWrite
  <2> QED
    BY <2>1, Types DEF StoreInv, Versions
<1>2. CASE m \in store.shape /\ \E v \in Value \ {store.cells[m]} :
             store' = [store EXCEPT !.tx = @ + 1, !.cells[m] = v]
  <2>1. PICK v \in Value : store' = [store EXCEPT !.tx = @ + 1, !.cells[m] = v]
    BY <1>2
  <2>2. store' = [tx |-> store.tx + 1, shape |-> store.shape, cells |-> [store.cells EXCEPT ![m] = v]]
    BY <1>1, <2>1 DEF Stores
  <2> QED
    BY <1>1, <1>2, <2>2 DEF Stores, Cells, Fits
<1>3. CASE store' = [tx |-> store.tx + 1, shape |-> store.shape \ {m},
                     cells |-> [store.cells EXCEPT ![m] = None]]
  BY <1>1, <1>3 DEF Stores, Cells, Fits
<1>4. CASE store' = [store EXCEPT !.tx = @ + 1, !.shape = @ \cup {m}]
  <2>1. store' = [tx |-> store.tx + 1, shape |-> store.shape \cup {m}, cells |-> store.cells]
    BY <1>1, <1>4 DEF Stores
  <2> QED
    BY <1>1, <2>1 DEF Stores, Cells, Fits
<1> QED
  BY <1>2, <1>3, <1>4 DEF OtherWrite

LEMMA OtherStep ==
  ASSUME IInv, NEW m \in Measure, OtherWrite(m)
  PROVE  IInv'
<1>1. TypeOK /\ LogInv /\ ClientInv /\ StoreInv
      /\ UNCHANGED <<model, tx, log, undo, redo, req, reply, client>>
  BY DEF IInv, OtherWrite
<1>2. StacksOK' /\ StepsInv' /\ reply' \in Replies
  BY <1>1, Kept
<1>3. store' \in Stores /\ Fits(store)' /\ store'.tx = store.tx + 1 /\ store'.tx <= MaxTx
  BY <1>1, OtherOf
<1>4. TypeOK'
  <2>1. client' \in Clients /\ req' \in Served
    BY <1>1, ClientType DEF TypeOK
  <2> QED
    BY <1>1, <1>2, <1>3, <2>1, Types, TypeNext
<1>5. StoreInv'
  <2>1. tx' = tx /\ tx \in Nat /\ store.tx \in Nat
    BY <1>1, Types
  <2> QED
    BY <1>1, <1>3, <2>1 DEF StoreInv, Fits
<1>6. LogInv' /\ ClientInv'
  BY <1>1 DEF LogInv, ClientInv
<1> QED
  BY <1>2, <1>4, <1>5, <1>6 DEF IInv

LEMMA InitHolds ==
  ASSUME Init
  PROVE  IInv
<1>1. NoCells \in Cells /\ 1 \in Versions /\ <<>> \in Edits
  BY DepthAssumption DEF NoCells, Cells, Versions, Edits
<1> DEFINE e == [version |-> 1, whole |-> FALSE, cells |-> <<>>]
<1>2. e \in Entries /\ Named(e.cells) = {}
  BY <1>1 DEF Entries, Named
<1>3. log = <<e>> /\ e.version = 1 /\ ~e.whole
  BY DEF Init
<1> HIDE DEF e
<1>4. log \in Seq(Entries) /\ Len(log) = 1 /\ DOMAIN log = {1} /\ log[1] = e /\ 1 \in 1 .. LogDepth
  BY <1>2, <1>3, DepthAssumption
<1>5. TypeOK
  <2>1. store \in [tx : Versions, shape : SUBSET Measure, cells : Cells] /\ model \in Contents
        /\ tx \in Versions
    BY <1>1 DEF Init, Contents, Cells
  <2>2. StacksOK
    BY DepthAssumption DEF Init, StacksOK
  <2>3. req \in Served /\ req = NoRequest /\ reply \in Replies
    BY DEF Init, Served, Replies
  <2>4. client \in Clients
    BY <1>1 DEF Init, Clients
  <2> QED
    BY <1>4, <2>1, <2>2, <2>3, <2>4 DEF TypeOK, Cells, Entries, StacksOK, Replies, Clients
<1>6. StoreInv
  BY DEF Init, StoreInv, Fits, NoCells
<1>7. StepsInv
  BY DEF Init, StepsInv
<1>8. LogInv
  BY <1>2, <1>3, <1>4 DEF Init, LogInv
<1>9. ClientInv
  BY DEF Init, ClientInv
<1> QED
  BY <1>5, <1>6, <1>7, <1>8, <1>9 DEF IInv

LEMMA IInvStep ==
  ASSUME IInv, Plain, [Next]_vars
  PROVE  IInv'
<1>1. CASE UNCHANGED vars
  <2>1. Moves /\ client' = client /\ StacksOK' /\ StepsInv' /\ StoreInv' /\ reply' \in Replies
    BY <1>1, Kept DEF vars, Moves
  <2>2. req' \in Served /\ (req' # NoRequest => store'.tx <= MaxTx)
    BY <1>1 DEF vars, IInv, TypeOK
  <2> QED
    BY <2>1, <2>2, MovesKeep
<1>2. CASE \E s \in Session : \E r \in Requests(s) : Serve(r)
  BY <1>2, ServeStep
<1>3. CASE \E m \in Measure : OtherWrite(m)
  BY <1>3, OtherStep
<1> QED
  BY <1>1, <1>2, <1>3, RefusedStep, EditStep, RetryStep, StructureStep, UndoTakes, UndoRefusedStep,
     LookStep, FetchStep DEF Next

-----------------------------------------------------------------------------
(* The theorems. *)

\* The inductive invariant holds in every state.
THEOREM Invariant ==
  ASSUME Plain
  PROVE  Spec => []IInv
<1>1. Init => IInv
  BY InitHolds
<1>2. IInv /\ [Next]_vars => IInv'
  BY IInvStep
<1> QED
  BY <1>1, <1>2, PTL DEF Spec

\* The variables keep their types, the log and the stacks their depths, for every
\* bound on them.
THEOREM TypeCorrect ==
  ASSUME Plain
  PROVE  Spec => []TypeOK
<1>1. IInv => TypeOK
  BY DEF IInv
<1> QED
  BY <1>1, Invariant, PTL

\* Applied together or not at all: between requests the model at the store's
\* version is what the store holds, if no batch names a cell twice (apply_cells
\* writes back in the order of the batch).
THEOREM ModelStored ==
  ASSUME Plain
  PROVE  Spec => []ModelIsStored
<1>1. IInv => ModelIsStored
  <2> SUFFICES ASSUME IInv, tx = store.tx
               PROVE  model = [shape |-> store.shape, cells |-> store.cells]
    BY DEF ModelIsStored
  <2>1. model \in Contents /\ model.shape = store.shape /\ model.cells = store.cells
    BY Types DEF IInv, StoreInv
  <2> QED
    BY <2>1 DEF Contents
<1> QED
  BY <1>1, Invariant, PTL

\* A client that has applied everything changes_since sent holds what it may see of
\* the model, for every depth of the log.
THEOREM ClientCurrent ==
  ASSUME Plain
  PROVE  Spec => []ClientFollows
<1>1. IInv => ClientFollows
  <2> SUFFICES ASSUME IInv, ~client.stale, client.seen = tx
               PROVE  /\ client.shape = model.shape \cap Visible
                      /\ \A m \in Visible : client.cells[m] = model.cells[m]
    BY DEF ClientFollows
  <2>1. Len(log) \in DOMAIN log /\ Len(log) \in Nat /\ log[Len(log)].version = tx
    BY Types DEF IInv, LogInv
  <2>2. \A j \in Len(log) + 1 .. Len(log) : FALSE
    BY <2>1
  <2> QED
    BY <2>1, <2>2 DEF IInv, ClientInv
<1> QED
  BY <1>1, Invariant, PTL

Asked ==
  /\ req.kind = "edit" /\ store' # store /\ tx' = store'.tx =>
       /\ store'.shape = store.shape
       /\ \A m \in Measure \ Named(req.batch) : store'.cells[m] = store.cells[m]
  /\ req.kind \in {"define", "delete"} /\ store' # store /\ tx' = store'.tx =>
       /\ store'.shape = IF req.kind = "define" THEN store.shape \cup {req.measure}
                         ELSE store.shape \ {req.measure}
       /\ \A m \in Measure \ {req.measure} : store'.cells[m] = store.cells[m]

\* A save changes what its request names, whatever another program saved before it.
THEOREM OnlyAsked ==
  ASSUME Plain
  PROVE  Spec => OnlyWhatIsAsked
<1>1. ASSUME IInv, [Next]_vars PROVE [Asked]_vars
  <2>1. TypeOK /\ StoreInv
    BY <1>1 DEF IInv
  <2>2. /\ store.tx \in Nat /\ tx \in Nat /\ tx <= store.tx /\ store \in Stores
        /\ model.shape \subseteq Measure /\ store.cells \in Cells /\ Fits(store)
    BY <2>1, Types DEF StoreInv
  <2>3. ASSUME NEW m \in Measure, OtherWrite(m) PROVE Asked
    <3>1. store'.tx = store.tx + 1 /\ tx' = tx
      BY <2>1, <2>3, OtherOf DEF OtherWrite
    <3> QED
      BY <2>2, <3>1 DEF Asked
  <2>4. ASSUME Edit PROVE Asked
    <3>1. req.kind = "edit"
      BY <2>4 DEF Edit
    <3>2. ASSUME ApplyCells(req.batch) PROVE Asked
      <4>1. store' = [store EXCEPT !.tx = @ + 1,
                        !.cells = [m \in Measure |-> IF m \in Named(req.batch)
                                                     THEN After(model.cells, req.batch)[m]
                                                     ELSE @[m]]]
        BY <3>2 DEF ApplyCells
      <4>2. store'.shape = store.shape
            /\ \A m \in Measure \ Named(req.batch) : store'.cells[m] = store.cells[m]
        BY <2>2, <4>1 DEF Stores
      <4> QED
        BY <3>1, <4>2 DEF Asked
    <3>3. ASSUME UNCHANGED store PROVE Asked
      BY <3>3 DEF Asked
    <3> QED
      BY <2>4, <3>2, <3>3 DEF Edit, RefuseCells
  <2>5. ASSUME ChangeStructure PROVE Asked
    <3> DEFINE shape == IF req.kind = "define" THEN model.shape \cup {req.measure}
                        ELSE model.shape \ {req.measure}
    <3>1. req.kind \in {"define", "delete"} /\ req.measure \in Measure
      BY <2>1, <2>5, RequestType DEF ChangeStructure
    <3>2. ASSUME Adopt(shape, NoCells) PROVE Asked
      <4>1. model.shape = store.shape /\ model.cells = store.cells
        BY <2>1, <3>2 DEF Adopt, Conflicts, StoreInv
      <4> HIDE DEF shape
      <4>2. store'.shape = shape
            /\ \A m \in Measure : store'.cells[m] = IF m \notin shape THEN None
                                  ELSE IF Adopted(shape, NoCells).cells[m] # model.cells[m]
                                  THEN Adopted(shape, NoCells).cells[m] ELSE store.cells[m]
        BY <3>2 DEF Adopt
      <4>3. \A m \in shape : model.cells[m] # None => Adopted(shape, NoCells).cells[m] = model.cells[m]
        BY <2>2, <3>1 DEF Adopted, shape
      <4>4. \A m \in shape : model.cells[m] = None => Adopted(shape, NoCells).cells[m] = None
        BY <2>2, <3>1 DEF Adopted, NoCells, shape
      <4>5. ASSUME NEW m \in Measure \ {req.measure} PROVE store'.cells[m] = store.cells[m]
        <5>1. m \in shape <=> m \in store.shape
          BY <4>1 DEF shape
        <5> QED
          BY <2>2, <4>1, <4>2, <4>3, <4>4, <5>1 DEF Fits
      <4> QED
        BY <3>1, <4>1, <4>2, <4>5 DEF Asked, shape
    <3>3. ASSUME UNCHANGED store PROVE Asked
      BY <3>3 DEF Asked
    <3> QED
      BY <2>5, <3>2, <3>3 DEF ChangeStructure
  <2>6. ASSUME UNCHANGED store \/ req.kind \in {"none", "undo", "redo"} PROVE Asked
    BY <2>6 DEF Asked
  <2> QED
    BY <1>1, <2>3, <2>4, <2>5, <2>6
    DEF Next, Serve, Refuse, Retry, UndoStep, UndoRefused, NothingToUndo, Look, Fetch, vars
<1>2. IInv /\ [Next]_vars => [Asked]_vars
  BY <1>1
<1>3. [][Asked]_vars => OnlyWhatIsAsked
  BY PTL DEF OnlyWhatIsAsked, Asked
<1> HIDE DEF Asked
<1> QED
  BY <1>2, <1>3, Invariant, PTL DEF Spec

Inverted ==
  req.kind \in {"undo", "redo"} /\ From # <<>> /\ req' = NoRequest /\ reply' = "ok" =>
    LET step == Last(From)
    IN /\ req.kind = "undo" /\ step.kind = "cells" /\ model = step.left => model' = step.was
       /\ req.kind = "redo" /\ step.kind = "cells" /\ model = step.was => model' = step.left
       /\ step.kind = "shape" /\ model = step.left =>
            /\ model'.shape = step.was.shape
            /\ \A m \in Measure : \/ model'.cells[m] = step.was.cells[m]
                                  \/ /\ step.was.cells[m] = None
                                     /\ model'.cells[m] = step.left.cells[m]

\* Undo takes a step back and redo makes it again, where the model is as the step
\* left it, however deep the stacks are.
THEOREM UndoInverts ==
  ASSUME Plain
  PROVE  Spec => UndoInverse
<1>1. ASSUME IInv, [Next]_vars PROVE [Inverted]_vars
  <2>1. TypeOK /\ StoreInv /\ StacksOK /\ StepsInv
    BY <1>1, Kept
  <2>2. ASSUME UndoStep PROVE Inverted
    <3> DEFINE step == Last(From)
    <3>1. req.kind \in {"undo", "redo"} /\ From # <<>>
      BY <2>2 DEF UndoStep
    <3>2. req.session \in Session /\ store.tx <= MaxTx
      BY <2>1, <3>1, RequestType
    <3>3. step \in Steps /\ StepInv(step)
      BY <2>1, <3>1, <3>2, TopOf
    <3> DEFINE Concl == /\ req.kind = "undo" /\ step.kind = "cells" /\ model = step.left => model' = step.was
                        /\ req.kind = "redo" /\ step.kind = "cells" /\ model = step.was => model' = step.left
                        /\ step.kind = "shape" /\ model = step.left =>
                             /\ model'.shape = step.was.shape
                             /\ \A m \in Measure : \/ model'.cells[m] = step.was.cells[m]
                                                   \/ /\ step.was.cells[m] = None
                                                      /\ model'.cells[m] = step.left.cells[m]
    <3>4. Concl => Inverted
      BY DEF Inverted
    <3>5. ASSUME step.kind = "cells", Named(step.after) \subseteq model.shape,
                 ApplyCells(Rewrites(step))
          PROVE  Concl
      <4> HIDE DEF step
      <4>1. Rewrites(step) \in Edits /\ Named(Rewrites(step)) \subseteq model.shape
        BY <3>3, <3>5, RewritesOf
      <4>2. model' \in Contents /\ model'.shape = model.shape
            /\ model'.cells = After(model.cells, Rewrites(step))
        BY <2>1, <3>2, <3>5, <4>1, ApplyOf
      <4>3. step.was \in Contents /\ step.left \in Contents /\ step.after \in Edits
            /\ step.was.cells \in Cells /\ step.before \in Edits
        BY <3>3, <3>5 DEF Steps, Contents, Cells
      <4>4. /\ Once(step.after) /\ step.before = Before(step.was.cells, step.after)
            /\ step.left.shape = step.was.shape
            /\ step.left.cells = After(step.was.cells, step.after)
        BY <3>3, <3>5 DEF StepInv, CellsInv
      <4>5. After(step.left.cells, step.before) = step.was.cells
        BY <4>3, <4>4, PutBackIs
      <4>6. ASSUME req.kind = "undo", model = step.left PROVE model' = step.was
        <5>1. Rewrites(step) = step.before
          BY <4>6 DEF Rewrites
        <5>2. model'.cells = step.was.cells /\ model'.shape = step.was.shape
          BY <4>2, <4>4, <4>5, <4>6, <5>1
        <5> QED
          BY <4>2, <4>3, <5>2 DEF Contents
      <4>7. ASSUME req.kind = "redo", model = step.was PROVE model' = step.left
        <5>1. Rewrites(step) = step.after
          BY <4>7 DEF Rewrites
        <5>2. model'.cells = step.left.cells /\ model'.shape = step.left.shape
          BY <4>2, <4>4, <4>7, <5>1
        <5> QED
          BY <4>2, <4>3, <5>2 DEF Contents
      <4> QED
        BY <3>5, <4>6, <4>7
    <3>6. ASSUME step.kind = "shape", Adopt(step.shape, step.cells)
          PROVE  Concl
      <4> HIDE DEF step
      <4>1. model' = Adopted(step.shape, step.cells)
        BY <3>6 DEF Adopt
      <4>2. Fits(step.was) /\ ShapeInv(step) /\ Fits(model)
        BY <2>1, <3>3, <3>6 DEF StepInv, StoreInv
      <4>3. ASSUME model = step.left, NEW m \in Measure
            PROVE  \/ model'.cells[m] = step.was.cells[m]
                   \/ /\ step.was.cells[m] = None
                      /\ model'.cells[m] = step.left.cells[m]
        <5>1. model'.cells[m] = IF m \notin step.shape THEN None
                                ELSE IF model.cells[m] # None THEN model.cells[m]
                                ELSE step.cells[m]
          BY <4>1 DEF Adopted
        <5>2. step.shape = step.was.shape
              /\ IF m \in step.left.shape
                 THEN /\ step.cells[m] = None
                      /\ step.was.cells[m] # None => step.left.cells[m] = step.was.cells[m]
                 ELSE step.cells[m] = step.was.cells[m] /\ step.left.cells[m] = None
          BY <4>2 DEF ShapeInv
        <5>3. m \notin step.was.shape => step.was.cells[m] = None
          BY <4>2 DEF Fits
        <5> QED
          BY <4>3, <5>1, <5>2, <5>3
      <4>4. model'.shape = step.was.shape
        BY <4>1, <4>2 DEF Adopted, ShapeInv
      <4> QED
        BY <3>6, <4>3, <4>4
    <3> QED
      BY <2>2, <3>4, <3>5, <3>6 DEF UndoStep
  <2>3. ASSUME req.kind \notin {"undo", "redo"} \/ From = <<>> \/ req' # NoRequest \/ reply' # "ok"
        PROVE  Inverted
    BY <2>3 DEF Inverted
  <2>4. req = NoRequest => req.kind \notin {"undo", "redo"}
    BY <2>1, RequestType
  <2>5. CASE UndoRefused
    BY <2>3, <2>5 DEF UndoRefused, Answer
  <2>6. CASE Edit \/ Retry \/ ChangeStructure \/ Refuse \/ NothingToUndo
    BY <2>3, <2>6 DEF Edit, Retry, ChangeStructure, Refuse, NothingToUndo
  <2>7. CASE \E s \in Session : \E r \in Requests(s) : Serve(r)
    BY <2>3, <2>4, <2>7 DEF Serve
  <2>8. CASE Look \/ Fetch \/ \E m \in Measure : OtherWrite(m)
    BY <2>3, <2>4, <2>8 DEF Look, Fetch, OtherWrite
  <2> QED
    BY <1>1, <2>2, <2>5, <2>6, <2>7, <2>8 DEF Next
<1>2. IInv /\ [Next]_vars => [Inverted]_vars
  BY <1>1
<1>3. [][Inverted]_vars => UndoInverse
  BY PTL DEF UndoInverse, Inverted
<1> HIDE DEF Inverted
<1> QED
  BY <1>2, <1>3, Invariant, PTL DEF Spec
=============================================================================
