-------------------------- MODULE ModelStoreProofs --------------------------
(***************************************************************************)
(* The model store is well typed, hands out no stale base, writes no cell  *)
(* it did not see, and implements VersionedStore, for any handles,         *)
(* measures, values and bounds.                                            *)
(*                                                                         *)
(* BaseIsCurrent alone is not inductive.  A Mentat load is several reads:  *)
(* what it has read so far has to be what is stored while the high-water   *)
(* is the one it began with.  Its cells are those of the stored measures,  *)
(* so no cell may be stored, or edited, of a measure there is not.  And a  *)
(* partial model has no cell it did not load.                              *)
(***************************************************************************)
EXTENDS ModelStore, TLAPS

-----------------------------------------------------------------------------
(* Types. *)

\* What a model store starts with is well typed.
LEMMA InitTypes == Init => TypeOK
<1> SUFFICES ASSUME Init PROVE TypeOK
  OBVIOUS
<1>1. ASSUME NEW v \in Value PROVE [measures |-> Measure, rest |-> FALSE, cells |-> [m \in Measure |-> v], items |-> NoItems] \in Content
  BY DEF Content, Cell, Items, NoItems
<1>2. disk \in Content
  BY <1>1 DEF Init
<1>3. New \in Content
  BY DEF Content, Cell, New, Blank, Items, NoItems
<1>4. \A h \in Handle : ~Loading(h) /\ part[h] = None
  BY DEF Init, Loading
<1> QED
  BY <1>2, <1>3, <1>4, ConstantsAssumption DEF Init, TypeOK

\* Writes of cells and of structure give a content.
LEMMA WrittenType ==
  ASSUME TypeOK, NEW h \in Handle, NEW s \in BOOLEAN, NEW measures \in SUBSET Measure, NEW W, NEW D
  PROVE  Written(h, s, measures, W, D) \in Content
<1>1. disk \in Content /\ model[h] \in Content
  BY DEF TypeOK
<1>2. [m \in Measure |-> IF m \in W THEN model[h].cells[m] ELSE IF m \in D THEN None ELSE disk.cells[m]]
        \in [Measure -> Cell]
  BY <1>1 DEF Content, Cell
<1>3. Kept(h) \in Items
  BY <1>1 DEF Kept, Content, Items
<1> QED
  BY <1>1, <1>2, <1>3 DEF Written, Content

\* What a save of either backend stores is a content.
LEMMA WritesType ==
  ASSUME TypeOK, NEW h \in Handle, NEW kind
  PROVE  MentatWrites(h, kind) \in Content /\ PgWrites(h, kind) \in Content
<1>1. disk.measures \in SUBSET Measure /\ model[h].measures \in SUBSET Measure
  BY DEF TypeOK, Content
<1>2. Whole(h, kind) \in BOOLEAN /\ Structure(h) \in BOOLEAN
  BY DEF Whole, Structure
<1>3. ((disk.measures \ (snap[h].measures \ model[h].measures)) \cup model[h].measures) \in SUBSET Measure
  BY <1>1
<1> QED
  BY <1>1, <1>2, <1>3, WrittenType, TRUE \in BOOLEAN DEF MentatWrites, PgWrites

\* A handle that ends its call holds no part of a load.
LEMMA EndsTypes ==
  ASSUME TypeOK, NEW h \in Handle, Ends(h)
  PROVE  /\ ids' \in [Handle -> 0 .. MaxTx]
         /\ pc' \in [Handle -> {"closed", "idle", "measures", "cells", "meta", "minting", "saving", "policies"}]
         /\ \A g \in Handle : Loading(g)' <=> g # h /\ Loading(g)
BY ConstantsAssumption DEF TypeOK, Ends, Goto, Loading

\* A step of the caller that leaves the store, the token and the load alone.
LEMMA QuietTypes ==
  ASSUME TypeOK, NEW h \in Handle, ~Loading(h),
         UNCHANGED <<backend, disk, dims, hw, newest, token, model, pending, part>>,
         policy' \in 0 .. MaxPolicies, ids' \in [Handle -> 0 .. MaxTx],
         NEW l \in {"closed", "idle", "saving", "policies"}, Goto(h, l)
  PROVE  TypeOK'
<1>1. pc' \in [Handle -> {"closed", "idle", "measures", "cells", "meta", "minting", "saving", "policies"}]
  BY DEF Goto, TypeOK
<1>2. \A g \in Handle : Loading(g)' <=> Loading(g)
  BY DEF Goto, TypeOK, Loading
<1> QED
  BY <1>1, <1>2 DEF TypeOK, token

\* A handle as Open finds it is well typed.
LEMMA ClosedTypes ==
  ASSUME TypeOK, NEW h \in Handle, Closed(h), UNCHANGED <<backend, disk, dims>>,
         hw' \in 1 .. MaxTx, newest' \in 1 .. MaxTx, policy' \in 0 .. MaxPolicies
  PROVE  TypeOK'
<1>1. New \in Content
  BY DEF Content, Cell, New, Blank, Items, NoItems
<1>2. pc' \in [Handle -> {"closed", "idle", "measures", "cells", "meta", "minting", "saving", "policies"}]
  BY DEF Closed, Goto, TypeOK
<1>3. \A g \in Handle : Loading(g)' <=> g # h /\ Loading(g)
  BY DEF Closed, Goto, TypeOK, Loading
<1>4. \A g \in Handle : part'[g] = IF g = h THEN None ELSE part[g]
  BY DEF Closed, TypeOK
<1>5. part' \in [Handle -> Partial \cup {None}]
  BY DEF Closed, TypeOK
<1>6. \A g \in Handle : IF Loading(g)' THEN part'[g] \in Partial ELSE part'[g] = None
  BY <1>3, <1>4 DEF TypeOK
<1>7. \A g \in Handle : loadedTx'[g] = None <=> snap'[g] = None
  BY DEF Closed, TypeOK
<1>8. /\ loadedTx' \in [Handle -> 1 .. MaxTx \cup {None}]
      /\ snap' \in [Handle -> Content \cup {None}]
      /\ scope' \in [Handle -> SUBSET Measure]
      /\ ids' \in [Handle -> 0 .. MaxTx]
      /\ model' \in [Handle -> Content]
      /\ pending' \in [Handle -> 0 .. MaxPending]
  BY <1>1, ConstantsAssumption DEF Closed, TypeOK
<1> QED
  BY <1>2, <1>5, <1>6, <1>7, <1>8 DEF TypeOK

\* A load that ends gives its handle a model and a mark.
LEMMA LoadedTypes ==
  ASSUME TypeOK, NEW h \in Handle, NEW tx \in 1 .. MaxTx, NEW S \in SUBSET Measure, NEW c \in Content,
         Loaded(h, tx, S, c), disk' \in Content, UNCHANGED <<backend, dims, hw, newest, policy>>
  PROVE  TypeOK'
<1>1. \A g \in Handle : Loading(g)' <=> g # h /\ Loading(g)
  BY EndsTypes DEF Loaded
<1>2. \A g \in Handle : part'[g] = IF g = h THEN None ELSE part[g]
  BY DEF Loaded, TypeOK
<1>3. part' \in [Handle -> Partial \cup {None}]
  BY DEF Loaded, TypeOK
<1>4. \A g \in Handle : IF Loading(g)' THEN part'[g] \in Partial ELSE part'[g] = None
  BY <1>1, <1>2 DEF TypeOK
<1>5. tx # None /\ c # None
  BY ConstantsAssumption, ViewsAssumption
<1>6. \A g \in Handle : loadedTx'[g] = None <=> snap'[g] = None
  BY <1>5 DEF Loaded, TypeOK
<1>7. /\ loadedTx' \in [Handle -> 1 .. MaxTx \cup {None}]
      /\ snap' \in [Handle -> Content \cup {None}]
      /\ scope' \in [Handle -> SUBSET Measure]
      /\ model' \in [Handle -> Content]
      /\ pending' \in [Handle -> 0 .. MaxPending]
  BY ConstantsAssumption DEF Loaded, TypeOK
<1> QED
  BY <1>3, <1>4, <1>6, <1>7, EndsTypes DEF TypeOK, Loaded

\* A save that is committed stores a content, and the handle has its mark.
LEMMA CommitTypes ==
  ASSUME TypeOK, NEW h \in Handle, ~Loading(h), NEW c \in Content, NEW tx \in 1 .. MaxTx,
         newest' \in 1 .. MaxTx, Commit(h, c, tx)
  PROVE  TypeOK'
<1>1. \A g \in Handle : Loading(g)' <=> Loading(g)
  BY EndsTypes DEF Commit
<1>2. tx # None /\ model[h] # None
  BY ConstantsAssumption, ViewsAssumption DEF TypeOK
<1>3. \A g \in Handle : loadedTx'[g] = None <=> snap'[g] = None
  BY <1>2 DEF Commit, TypeOK
<1>4. /\ loadedTx' \in [Handle -> 1 .. MaxTx \cup {None}]
      /\ snap' \in [Handle -> Content \cup {None}]
      /\ pending' \in [Handle -> 0 .. MaxPending]
      /\ hw' \in 1 .. MaxTx /\ disk' \in Content
      /\ UNCHANGED <<backend, dims, policy, scope, model, part>>
  BY ConstantsAssumption DEF Commit, TypeOK
<1> QED
  BY <1>1, <1>3, <1>4, EndsTypes DEF TypeOK, Commit

\* A read of a Mentat load adds to what the load holds.
LEMMA ReadTypes ==
  ASSUME TypeOK, NEW h \in Handle, NEW p \in Partial, part' = [part EXCEPT ![h] = p],
         NEW l \in {"measures", "cells", "meta", "minting"}, Goto(h, l),
         UNCHANGED <<store, token, ids, model, pending>>
  PROVE  TypeOK'
<1>1. pc' \in [Handle -> {"closed", "idle", "measures", "cells", "meta", "minting", "saving", "policies"}]
  BY DEF Goto, TypeOK
<1>2. \A g \in Handle : Loading(g)' <=> g = h \/ Loading(g)
  BY DEF Goto, TypeOK, Loading
<1>3. part' \in [Handle -> Partial \cup {None}]
  BY DEF TypeOK
<1>4. \A g \in Handle : part'[g] = IF g = h THEN p ELSE part[g]
  BY DEF TypeOK
<1> QED
  BY <1>1, <1>2, <1>3, <1>4 DEF TypeOK, store, token

\* An edit of the model in memory.
LEMMA EditedTypes ==
  ASSUME TypeOK, NEW h \in Handle, NEW c \in Content, Edited(h, c)
  PROVE  TypeOK'
<1>1. model' \in [Handle -> Content] /\ pending' \in [Handle -> 0 .. MaxPending]
  BY ConstantsAssumption DEF Edited, TypeOK
<1>2. UNCHANGED <<backend, disk, dims, hw, newest, policy, loadedTx, snap, scope, ids, pc, part>>
  BY DEF Edited, store, token
<1> QED
  BY <1>1, <1>2 DEF TypeOK, Loading

\* The items minted join those of the model that was read, field by field.
LEMMA JoinedType ==
  ASSUME NEW p \in Partial, NEW minted \in Items
  PROVE  /\ Joined(p, minted) \in Content
         /\ Joined(p, minted).measures = p.read.measures /\ Joined(p, minted).rest = p.read.rest
         /\ Joined(p, minted).cells = p.read.cells
         /\ \A i \in ItemId : Joined(p, minted).items[i] =
              IF minted[i] \in p.new THEN minted[i] ELSE p.read.items[i]
BY DEF Joined, Partial, Content, Items

\* Every read of a load keeps the types, the last one as Loaded does.
LEMMA LoadTypes ==
  ASSUME TypeOK, NEW h \in Handle, Load(h)
  PROVE  TypeOK'
<1> Blank \in Content
  BY DEF Blank, Content, Cell, Items, NoItems
<1> disk \in Content /\ hw \in 1 .. MaxTx
  BY DEF TypeOK
<1>1. ASSUME NEW S \in SUBSET Measure, NEW all \in BOOLEAN, BeginLoad(h, S, all)
      PROVE  TypeOK'
  <2> DEFINE p == [tx |-> hw, all |-> all, scope |-> S, read |-> Blank, new |-> {}]
  <2>1. p \in Partial
    BY DEF Partial
  <2> QED
    BY <1>1, <2>1, ReadTypes DEF BeginLoad
<1>2. CASE LoadMeasures(h)
  <2> DEFINE p == [part[h] EXCEPT !.read.measures = disk.measures]
  <2>1. part[h] \in Partial
    BY <1>2 DEF LoadMeasures, TypeOK, Loading
  <2>2. p \in Partial
    BY <2>1 DEF Partial, Content
  <2>3. part' = [part EXCEPT ![h] = p]
    BY <1>2 DEF LoadMeasures, TypeOK
  <2> QED
    BY <1>2, <2>2, <2>3, ReadTypes DEF LoadMeasures
<1>3. CASE LoadCells(h)
  <2> DEFINE c == [part[h].read EXCEPT !.cells = Cells(disk, part[h].scope \cap disk.measures)]
             p == [part[h] EXCEPT !.read = c]
  <2>1. part[h] \in Partial
    BY <1>3 DEF LoadCells, TypeOK, Loading
  <2>2. c \in Content
    BY <2>1 DEF Partial, Content, Cells, Cell
  <2>3. p \in Partial
    BY <2>1, <2>2 DEF Partial
  <2>4. CASE Unreadable(disk, part[h].read.measures, part[h].scope)
    <3>1. /\ part' = [part EXCEPT ![h] = None] /\ Ends(h)
          /\ UNCHANGED <<store, token, model, pending>>
      BY <1>3, <2>4 DEF LoadCells
    <3>2. part' \in [Handle -> Partial \cup {None}]
      BY <3>1 DEF TypeOK
    <3>3. \A g \in Handle : part'[g] = IF g = h THEN None ELSE part[g]
      BY <3>1 DEF TypeOK
    <3> QED
      BY <3>1, <3>2, <3>3, EndsTypes DEF TypeOK, store, token
  <2>5. CASE ~Unreadable(disk, part[h].read.measures, part[h].scope) /\ part[h].all
    <3>1. part' = [part EXCEPT ![h] = p]
      BY <1>3, <2>5 DEF LoadCells, TypeOK
    <3> QED
      BY <1>3, <2>3, <2>5, <3>1, ReadTypes DEF LoadCells
  <2>6. CASE ~Unreadable(disk, part[h].read.measures, part[h].scope) /\ ~part[h].all
    <3>1. Loaded(h, part[h].tx, part[h].scope, c) /\ UNCHANGED <<backend, disk, dims, hw, newest, policy>>
      BY <1>3, <2>6 DEF LoadCells, store
    <3>2. part[h].tx \in 1 .. MaxTx /\ part[h].scope \in SUBSET Measure
      BY <2>1 DEF Partial
    <3> HIDE DEF c
    <3> QED
      BY <2>2, <3>1, <3>2, LoadedTypes
  <2> QED
    BY <2>4, <2>5, <2>6
<1>4. CASE LoadMeta(h)
  <2> DEFINE c == [part[h].read EXCEPT !.rest = disk.rest]
             p == [part[h] EXCEPT !.read = c]
  <2>1. part[h] \in Partial
    BY <1>4 DEF LoadMeta, TypeOK, Loading
  <2>2. c \in Content
    BY <2>1 DEF Partial, Content
  <2>3. p \in Partial
    BY <2>1, <2>2 DEF Partial
  <2>4. CASE part[h].all
    <3>1. Loaded(h, part[h].tx, Measure, c) /\ UNCHANGED <<backend, disk, dims, hw, newest, policy>>
      BY <1>4, <2>4 DEF LoadMeta, store
    <3>2. part[h].tx \in 1 .. MaxTx /\ Measure \in SUBSET Measure
      BY <2>1 DEF Partial
    <3> HIDE DEF c
    <3> QED
      BY <2>2, <3>1, <3>2, LoadedTypes
  <2>5. CASE ~part[h].all
    <3>1. part' = [part EXCEPT ![h] = p]
      BY <1>4, <2>5 DEF LoadMeta, TypeOK
    <3> QED
      BY <1>4, <2>3, <2>5, <3>1, ReadTypes DEF LoadMeta
  <2> QED
    BY <2>4, <2>5
<1>5. ASSUME NEW S \in SUBSET Measure, LoadPg(h, S)
      PROVE  TypeOK'
  <2> DEFINE c == [disk EXCEPT !.cells = Cells(disk, S)]
  <2>1. c \in Content
    BY DEF Content, Cells, Cell
  <2>2. CASE Unreadable(disk, disk.measures, S)
    <3>1. ~Loading(h) /\ Goto(h, "idle") /\ Ends(h)
      BY <1>5, <2>2 DEF LoadPg, Loading, Ends
    <3>2. UNCHANGED <<backend, disk, dims, hw, newest, policy, token, model, pending, part>>
      BY <1>5, <2>2 DEF LoadPg, store
    <3>3. policy' \in 0 .. MaxPolicies
      BY <3>2 DEF TypeOK
    <3> QED
      BY <3>1, <3>2, <3>3, EndsTypes, QuietTypes
  <2>3. CASE ~Unreadable(disk, disk.measures, S) /\ Unknown(S) = {}
    <3>1. Loaded(h, hw, S, c) /\ UNCHANGED <<backend, disk, dims, hw, newest, policy>>
      BY <1>5, <2>3 DEF LoadPg, store
    <3> HIDE DEF c
    <3> QED
      BY <2>1, <3>1, LoadedTypes
  <2>4. CASE ~Unreadable(disk, disk.measures, S) /\ Unknown(S) # {}
    <3> DEFINE p == [tx |-> hw, all |-> FALSE, scope |-> S, read |-> c, new |-> Unknown(S)]
    <3>1. Unknown(S) \in SUBSET Name
      BY DEF Unknown, TypeOK
    <3> HIDE DEF c
    <3>2. p \in Partial
      BY <2>1, <3>1 DEF Partial
    <3>3. /\ part' = [part EXCEPT ![h] = p] /\ Goto(h, "minting")
          /\ UNCHANGED <<store, token, ids, model, pending>>
      BY <1>5, <2>4 DEF LoadPg, c
    <3> HIDE DEF p
    <3> QED
      BY <3>2, <3>3, ReadTypes
  <2> QED
    BY <2>2, <2>3, <2>4
<1>6. CASE Mint(h)
  <2>1. part[h] \in Partial
    BY <1>6 DEF Mint, TypeOK, Loading
  <2>2. PICK minted \in Items :
          /\ disk' = [disk EXCEPT !.items = minted]
          /\ Loaded(h, part[h].tx, part[h].scope, Joined(part[h], minted))
    BY <1>6 DEF Mint
  <2>3. disk' \in Content /\ UNCHANGED <<backend, dims, hw, newest, policy>>
    BY <1>6, <2>2 DEF Mint, Content
  <2>4. Joined(part[h], minted) \in Content
    BY <2>1, JoinedType
  <2>5. part[h].tx \in 1 .. MaxTx /\ part[h].scope \in SUBSET Measure
    BY <2>1 DEF Partial
  <2> QED
    BY <2>2, <2>3, <2>4, <2>5, LoadedTypes
<1>7. CASE MintFails(h)
  <2>1. PICK minted \in Items : disk' = [disk EXCEPT !.items = minted]
    BY <1>7 DEF MintFails
  <2>2. disk' \in Content
    BY <2>1 DEF Content
  <2>3. /\ part' = [part EXCEPT ![h] = None] /\ Ends(h)
        /\ UNCHANGED <<backend, dims, hw, newest, policy, token, model, pending>>
    BY <1>7 DEF MintFails
  <2>4. part' \in [Handle -> Partial \cup {None}]
    BY <2>3 DEF TypeOK
  <2>5. \A g \in Handle : part'[g] = IF g = h THEN None ELSE part[g]
    BY <2>3 DEF TypeOK
  <2> QED
    BY <2>2, <2>3, <2>4, <2>5, EndsTypes DEF TypeOK, token
<1> QED
  BY <1>1, <1>2, <1>3, <1>4, <1>5, <1>6, <1>7, ConstantsAssumption DEF Load

\* Every edit leaves a content, and Discard one the handle had.
LEMMA EditTypes ==
  ASSUME TypeOK, NEW h \in Handle, Edit(h)
  PROVE  TypeOK'
<1>1. model[h] \in Content
  BY DEF TypeOK
<1>2. ASSUME NEW m \in Measure, NEW v \in Value \cup {None}, SetCell(h, m, v)
      PROVE  TypeOK'
  <2>1. [model[h] EXCEPT !.cells[m] = v] \in Content
    BY <1>1 DEF Content, Cell
  <2> QED
    BY <1>2, <2>1, EditedTypes DEF SetCell
<1>3. ASSUME NEW m \in Measure, AddMeasure(h, m)
      PROVE  TypeOK'
  <2>1. [model[h] EXCEPT !.measures = @ \cup {m}] \in Content
    BY <1>1 DEF Content
  <2> QED
    BY <1>3, <2>1, EditedTypes DEF AddMeasure
<1>4. ASSUME NEW m \in Measure, DropMeasure(h, m)
      PROVE  TypeOK'
  <2>1. [model[h] EXCEPT !.measures = @ \ {m}, !.cells[m] = None] \in Content
    BY <1>1 DEF Content, Cell
  <2> QED
    BY <1>4, <2>1, EditedTypes DEF DropMeasure
<1>5. ASSUME NEW n \in Name, AddItem(h, n)
      PROVE  TypeOK'
  <2>1. \A i \in ItemId : [model[h] EXCEPT !.items[i] = n] \in Content
    BY <1>1 DEF Content, Items
  <2> QED
    BY <1>5, <2>1, EditedTypes DEF AddItem
<1>6. ASSUME NEW i \in ItemId, DropItem(h, i)
      PROVE  TypeOK'
  <2>1. [model[h] EXCEPT !.items[i] = None] \in Content
    BY <1>1 DEF Content, Items
  <2> QED
    BY <1>6, <2>1, EditedTypes DEF DropItem
<1>7. CASE EditRest(h)
  <2>1. [model[h] EXCEPT !.rest = ~@] \in Content
    BY <1>1 DEF Content
  <2> QED
    BY <1>7, <2>1, EditedTypes DEF EditRest
<1>8. CASE Discard(h)
  <2>1. New \in Content
    BY DEF Content, Cell, New, Blank, Items, NoItems
  <2>2. model' \in [Handle -> Content] /\ pending' \in [Handle -> 0 .. MaxPending]
    BY <1>8, <2>1, ConstantsAssumption DEF Discard, TypeOK
  <2>3. UNCHANGED <<backend, disk, dims, hw, newest, policy, loadedTx, snap, scope, ids, pc, part>>
    BY <1>8 DEF Discard, store, token
  <2> QED
    BY <2>2, <2>3 DEF TypeOK, Loading
<1> QED
  BY <1>2, <1>3, <1>4, <1>7, <1>8, <1>5, <1>6 DEF Edit

\* A refused call changes nothing of the store's, the token or the model.
LEMMA RefuseTypes ==
  ASSUME TypeOK, NEW h \in Handle, ~Loading(h), Refuse(h)
  PROVE  TypeOK'
<1>1. Goto(h, "idle") /\ Ends(h) /\ policy' = policy
  BY DEF Refuse, Ends, store
<1>2. UNCHANGED <<backend, disk, dims, hw, newest, token, model, pending, part>>
  BY DEF Refuse, store
<1>3. policy' \in 0 .. MaxPolicies
  BY <1>1 DEF TypeOK
<1> QED
  BY <1>1, <1>2, <1>3, EndsTypes, QuietTypes

\* Saves, of a model or of policies, their refusals and failures.
LEMMA WriteTypes ==
  ASSUME TypeOK, NEW h \in Handle, Write(h)
  PROVE  TypeOK'
<1>1. ASSUME NEW what \in {"saving", "policies"}, FreshForWrite(h, what)
      PROVE  TypeOK'
  <2>1. ~Loading(h) /\ Goto(h, what)
    BY <1>1 DEF FreshForWrite, Loading
  <2>2. UNCHANGED <<backend, disk, dims, hw, newest, policy, token, model, pending, part>>
    BY <1>1 DEF FreshForWrite, store
  <2>3. policy' \in 0 .. MaxPolicies
    BY <2>2 DEF TypeOK
  <2>4. ids' \in [Handle -> 0 .. MaxTx]
    BY <1>1 DEF FreshForWrite, TypeOK
  <2> QED
    BY <2>1, <2>2, <2>3, <2>4, QuietTypes
<1>2. ASSUME NEW kind \in {"model", "changes"}, SaveMentat(h, kind)
      PROVE  TypeOK'
  <2>1. ~Loading(h)
    BY <1>2 DEF SaveMentat, Loading
  <2>2. CASE Moved(h)
    BY <1>2, <2>1, <2>2, RefuseTypes DEF SaveMentat
  <2>3. CASE ~Moved(h)
    <3> DEFINE c == MentatWrites(h, kind)
               tx == IF c = disk THEN hw ELSE ids[h] + 1
    <3>1. newest' \in 1 .. MaxTx /\ tx \in 1 .. MaxTx
      BY <1>2, <2>3, ConstantsAssumption DEF SaveMentat, TypeOK
    <3>2. c \in Content
      BY WritesType
    <3>3. Commit(h, c, tx)
      BY <1>2, <2>3 DEF SaveMentat
    <3> HIDE DEF c, tx
    <3> QED
      BY <2>1, <3>1, <3>2, <3>3, CommitTypes
  <2> QED
    BY <2>2, <2>3
<1>3. ASSUME NEW kind \in {"model", "changes"}, SavePg(h, kind)
      PROVE  TypeOK'
  <2>1. ~Loading(h)
    BY <1>3 DEF SavePg, Loading
  <2>2. CASE Refuse(h)
    BY <2>1, <2>2, RefuseTypes
  <2>4. CASE newest' = hw + 1 /\ Commit(h, PgWrites(h, kind), hw + 1)
    <3>1. hw + 1 \in 1 .. MaxTx
      BY <1>3, ConstantsAssumption DEF SavePg, TypeOK
    <3> QED
      BY <2>1, <2>4, <3>1, WritesType, CommitTypes
  <2> QED
    BY <1>3, <2>2, <2>4 DEF SavePg
<1>4. CASE SaveFails(h)
  BY <1>4, RefuseTypes DEF SaveFails, Loading
<1>5. CASE SavePolicies(h)
  <2>1. /\ hw' \in 1 .. MaxTx /\ newest' \in 1 .. MaxTx /\ policy' \in 0 .. MaxPolicies
        /\ UNCHANGED <<backend, disk, dims>>
    BY <1>5, ConstantsAssumption DEF SavePolicies, TypeOK
  <2>2. CASE "policyLoaded" \notin Env
    BY <1>5, <2>1, <2>2, ClosedTypes DEF SavePolicies
  <2>3. CASE "policyLoaded" \in Env
    <3>1. /\ loadedTx' = [loadedTx EXCEPT ![h] = IF @ = None THEN None ELSE hw'] /\ Ends(h)
          /\ UNCHANGED <<snap, scope, model, pending, part>>
      BY <1>5, <2>3 DEF SavePolicies
    <3>2. loadedTx' \in [Handle -> 1 .. MaxTx \cup {None}]
      BY <2>1, <3>1 DEF TypeOK
    <3>3. \A g \in Handle : loadedTx'[g] = None <=> snap'[g] = None
      BY <2>1, <3>1, ConstantsAssumption DEF TypeOK
    <3>4. \A g \in Handle : Loading(g)' <=> Loading(g)
      BY <1>5, <3>1, EndsTypes DEF SavePolicies, Loading
    <3> QED
      BY <2>1, <3>1, <3>2, <3>3, <3>4, EndsTypes DEF TypeOK
  <2> QED
    BY <2>2, <2>3
<1>6. CASE SetPoliciesPg(h)
  <2>1. ~Loading(h) /\ Goto(h, "idle") /\ Ends(h)
    BY <1>6 DEF SetPoliciesPg, Loading, Ends
  <2>2. UNCHANGED <<backend, disk, dims, hw, newest, policy, token, model, pending, part>>
    BY <1>6 DEF SetPoliciesPg, store
  <2>3. policy' \in 0 .. MaxPolicies
    BY <2>2 DEF TypeOK
  <2> QED
    BY <2>1, <2>2, <2>3, EndsTypes, QuietTypes
<1> QED
  BY <1>1, <1>2, <1>3, <1>4, <1>5, <1>6 DEF Write, Save

\* Every step of any process keeps the types.
LEMMA NextTypes == TypeOK /\ [Next]_vars => TypeOK'
<1> SUFFICES ASSUME TypeOK, [Next]_vars PROVE TypeOK'
  OBVIOUS
<1>1. ASSUME NEW h \in Handle, Open(h) PROVE TypeOK'
  <2>1. ~Loading(h) /\ Goto(h, "idle")
    BY <1>1 DEF Open, Loading
  <2>2. UNCHANGED <<backend, disk, dims, hw, newest, policy, token, ids, model, pending, part>>
    BY <1>1 DEF Open, store
  <2>3. policy' \in 0 .. MaxPolicies /\ ids' \in [Handle -> 0 .. MaxTx]
    BY <2>2 DEF TypeOK
  <2> QED
    BY <2>1, <2>2, <2>3, QuietTypes
<1>2. ASSUME NEW h \in Handle, Close(h) PROVE TypeOK'
  <2>1. /\ Closed(h) /\ UNCHANGED <<backend, disk, dims>>
        /\ hw' \in 1 .. MaxTx /\ newest' \in 1 .. MaxTx /\ policy' \in 0 .. MaxPolicies
    BY <1>2 DEF Close, store, TypeOK
  <2> QED
    BY <2>1, ClosedTypes
<1>3. ASSUME NEW m \in Measure, NEW v \in FactValue, WriteFact(m, v) PROVE TypeOK'
  <2>1. disk' \in Content
    BY <1>3 DEF WriteFact, TypeOK, Content, Cell
  <2> QED
    BY <1>3, <2>1 DEF WriteFact, TypeOK, Loading, token
<1>4. ASSUME NEW N \in SUBSET Name, WriteRows(N) PROVE TypeOK'
  BY <1>4 DEF WriteRows, TypeOK, Loading, token
<1>5. CASE UNCHANGED vars
  BY <1>5 DEF vars, store, token, TypeOK, Loading
<1> QED
  BY <1>1, <1>2, <1>3, <1>4, <1>5, LoadTypes, EditTypes, WriteTypes DEF Next

\* The store, its version and every handle are well typed, whatever the environment
\* does: a handle holds a snapshot exactly when it holds a mark to check its saves by.
THEOREM TypeCorrect == Spec => []TypeOK
BY InitTypes, NextTypes, PTL DEF Spec

-----------------------------------------------------------------------------
(* The inductive invariant. *)

\* What the theorems assume of the environment: none of the four histories that the
\* code does not guard against (ModelStore_race and _binding).
Orderly == Env \cap {"race", "policyLoaded", "partialDrop", "dropBound"} = {}

\* No cell of a measure there is not.
Own(c) == \A m \in Measure \ c.measures : c.cells[m] = None

\* What c has of the structure and of the cells of S is what is stored, and so is
\* each item it has.
Agrees(c, S) ==
  /\ c.measures = disk.measures /\ c.rest = disk.rest
  /\ \A m \in S \ InFacts : c.cells[m] = disk.cells[m]
  /\ \A i \in ItemId : c.items[i] \in {None, disk.items[i]}

\* What a Mentat load has read is what is stored, while its mark is the store's.
PartsInv(h) ==
  LET p == part[h] IN
  /\ p.all => p.scope = Measure
  /\ p.tx = hw =>
       /\ pc[h] # "measures" => p.read.measures = disk.measures
       /\ pc[h] = "cells" /\ ~p.all => p.read.rest = disk.rest
       /\ pc[h] = "meta" /\ p.all => \A m \in Measure : p.read.cells[m] = disk.cells[m]
  /\ IF pc[h] = "meta" /\ p.all THEN Own(p.read) ELSE \A m \in Measure : p.read.cells[m] = None
  /\ \A i \in ItemId : p.read.items[i] = None

\* And so is the snapshot of a Postgres load that is about to mint items.
SnapshotInv(h) ==
  LET p == part[h] IN
  /\ p.tx = hw => Agrees(p.read, p.scope)
  /\ Own(p.read)
  /\ \A m \in Measure \ p.scope : p.read.cells[m] = None

ReadInv(h) ==
  /\ part[h].tx <= hw
  /\ IF Pg THEN SnapshotInv(h) ELSE PartsInv(h)

\* The token of a handle: how far a partial model reaches, and its base.
TokenInv(h) ==
  /\ loadedTx[h] <= hw
  /\ loadedTx[h] = hw => Agrees(snap[h], scope[h])
  /\ Own(snap[h])
  /\ \A m \in Measure \ scope[h] : snap[h].cells[m] = None /\ model[h].cells[m] = None
  /\ snap[h].measures \ scope[h] \subseteq model[h].measures

HandleInv(h) ==
  /\ IF Pg THEN pc[h] \in {"closed", "idle", "minting"} ELSE pc[h] # "minting"
  /\ Own(model[h])
  /\ IF loadedTx[h] = None THEN scope[h] = Measure ELSE TokenInv(h)
  /\ Loading(h) => ReadInv(h)

StoreInv ==
  /\ hw <= newest
  /\ Own(disk)
  /\ Pg => Bound \subseteq disk.measures

IInv == TypeOK /\ StoreInv /\ \A h \in Handle : HandleInv(h)

\* The bases of all handles are current.
LEMMA BasesCurrent == IInv => BaseIsCurrent
<1> SUFFICES ASSUME IInv, NEW h \in Handle, loadedTx[h] = hw
             PROVE  Agrees(snap[h], scope[h])
  BY DEF BaseIsCurrent, Agrees
<1>1. loadedTx[h] # None
  BY ConstantsAssumption DEF IInv, TypeOK
<1> QED
  BY <1>1 DEF IInv, HandleInv, TokenInv

\* An empty store's handles hold nothing.
LEMMA InitIInv == Init => IInv
<1> SUFFICES ASSUME Init PROVE IInv
  OBVIOUS
<1>1. TypeOK
  BY InitTypes
<1>2. disk.measures = Measure
  BY DEF Init
<1>3. StoreInv
  BY <1>2, ConstantsAssumption DEF Init, StoreInv, Own
<1>4. ASSUME NEW h \in Handle PROVE HandleInv(h)
  <2>1. Own(New)
    BY DEF Own, New, Blank
  <2> QED
    BY <2>1 DEF Init, HandleInv, Loading
<1> QED
  BY <1>1, <1>3, <1>4 DEF IInv

-----------------------------------------------------------------------------
(* Frames. *)

\* Whatever another handle does moves the store's mark, or leaves the model as it is.
StoreKept ==
  /\ backend' = backend
  /\ \/ hw' > hw
     \/ /\ hw' = hw
        /\ disk'.measures = disk.measures /\ disk'.rest = disk.rest
        /\ \A m \in Measure \ InFacts : disk'.cells[m] = disk.cells[m]
        /\ \A i \in ItemId : disk'.items[i] = disk.items[i] \/ disk.items[i] = None

\* Nothing of g's changes.
Still(g) ==
  /\ loadedTx'[g] = loadedTx[g] /\ snap'[g] = snap[g] /\ scope'[g] = scope[g]
  /\ model'[g] = model[g] /\ pc'[g] = pc[g] /\ part'[g] = part[g]

\* Another handle keeps its invariant.
LEMMA OtherKeeps ==
  ASSUME TypeOK, TypeOK', NEW g \in Handle, HandleInv(g), StoreKept, Still(g)
  PROVE  HandleInv(g)'
<1>1. hw \in Int /\ hw' \in Int /\ (loadedTx[g] # None => loadedTx[g] \in Int)
  BY DEF TypeOK
<1>2. InFacts' = InFacts /\ Pg' = Pg
  BY DEF StoreKept, InFacts, Pg
<1>3. (Loading(g)' <=> Loading(g)) /\ pc'[g] = pc[g]
  BY DEF Still, Loading
<1>4. Own(model[g])' <=> Own(model[g])
  BY DEF Still, Own
<1>5. ASSUME loadedTx[g] # None PROVE TokenInv(g)'
  <2>1. TokenInv(g)
    BY <1>5 DEF HandleInv
  <2>2. loadedTx'[g] <= hw'
    BY <1>1, <1>5, <2>1 DEF TokenInv, StoreKept, Still
  <2>3. ASSUME loadedTx'[g] = hw' PROVE Agrees(snap[g], scope[g])'
    <3>1. hw' = hw /\ loadedTx[g] = hw
      BY <1>1, <1>5, <2>1, <2>3 DEF TokenInv, StoreKept, Still
    <3>2. Agrees(snap[g], scope[g])
      BY <2>1, <3>1 DEF TokenInv
    <3>3. scope[g] \subseteq Measure
      BY DEF TypeOK
    <3> QED
      BY <1>1, <1>2, <3>1, <3>2, <3>3 DEF Agrees, StoreKept, Still
  <2> QED
    BY <2>1, <2>2, <2>3 DEF TokenInv, Own, Still
<1>6. ASSUME Loading(g) PROVE ReadInv(g)'
  <2>1. ReadInv(g)
    BY <1>6 DEF HandleInv
  <2>2. part[g].tx \in Int
    BY <1>6 DEF TypeOK, Partial
  <2>3. part'[g] = part[g] /\ part[g].tx <= hw'
    BY <1>1, <2>1, <2>2 DEF ReadInv, Still, StoreKept
  <2>4. part[g].tx = hw' =>
          /\ hw' = hw
          /\ disk'.measures = disk.measures /\ disk'.rest = disk.rest
          /\ \A m \in Measure \ InFacts : disk'.cells[m] = disk.cells[m]
          /\ \A i \in ItemId : disk'.items[i] = disk.items[i] \/ disk.items[i] = None
    BY <1>1, <2>1, <2>2 DEF ReadInv, StoreKept
  <2>5. CASE Pg
    <3>1. part[g].tx = hw' => Agrees(part[g].read, part[g].scope)'
      <4>1. part[g].scope \subseteq Measure
        BY <1>6 DEF TypeOK, Partial
      <4> QED
        BY <1>2, <2>1, <2>3, <2>4, <2>5, <4>1 DEF ReadInv, SnapshotInv, Agrees
    <3> QED
      BY <1>2, <2>1, <2>3, <2>5, <3>1 DEF ReadInv, SnapshotInv, Own
  <2>6. CASE ~Pg
    <3>1. InFacts = {}
      BY <2>6 DEF InFacts
    <3> QED
      BY <1>2, <1>3, <2>1, <2>3, <2>4, <2>6, <3>1 DEF ReadInv, PartsInv, Own
  <2> QED
    BY <2>5, <2>6
<1> QED
  BY <1>2, <1>3, <1>4, <1>5, <1>6 DEF HandleInv, Still

\* A step of h keeps the invariant if it keeps the store's and its own.
LEMMA StepOf ==
  ASSUME IInv, TypeOK', StoreInv', StoreKept, NEW h \in Handle, HandleInv(h)',
         \A g \in Handle \ {h} : Still(g)
  PROVE  IInv'
<1>1. ASSUME NEW g \in Handle PROVE HandleInv(g)'
  <2>1. CASE g = h
    BY <2>1
  <2>2. CASE g # h
    BY <2>2, OtherKeeps DEF IInv
  <2> QED
    BY <2>1, <2>2
<1> QED
  BY <1>1 DEF IInv

\* A step that leaves the store alone.
LEMMA StoreStill ==
  ASSUME StoreInv, UNCHANGED <<backend, disk, hw, newest>>
  PROVE  StoreInv' /\ StoreKept
<1>1. Pg' = Pg /\ InFacts' = InFacts
  BY DEF Pg, InFacts
<1> QED
  BY <1>1 DEF StoreInv, StoreKept, Own

\* A call that reads nothing, edits nothing and writes no model.
LEMMA QuietKeeps ==
  ASSUME IInv, TypeOK', NEW h \in Handle, ~Loading(h),
         UNCHANGED <<backend, disk, hw, newest, token, model, part>>,
         NEW l \in {"closed", "idle", "saving", "policies"}, Goto(h, l),
         Pg => l \in {"closed", "idle"}
  PROVE  IInv'
<1>1. StoreInv' /\ StoreKept
  BY StoreStill DEF IInv
<1>2. \A g \in Handle \ {h} : Still(g)
  BY DEF IInv, TypeOK, Goto, Still, token
<1>3. pc'[h] = l /\ ~Loading(h)'
  BY DEF IInv, TypeOK, Goto, Loading
<1>4. Pg' = Pg /\ InFacts' = InFacts /\ UNCHANGED <<loadedTx, snap, scope>>
  BY DEF Pg, InFacts, token
<1>5. HandleInv(h)
  BY DEF IInv
<1>6. HandleInv(h)'
  BY <1>3, <1>4, <1>5 DEF HandleInv, TokenInv, Agrees, Own
<1> QED
  BY <1>1, <1>2, <1>6, StepOf

\* A handle that is closed holds nothing.
LEMMA ClosedKeeps ==
  ASSUME IInv, TypeOK', StoreInv', StoreKept, NEW h \in Handle, Closed(h)
  PROVE  IInv'
<1>1. \A g \in Handle \ {h} : Still(g)
  BY DEF IInv, TypeOK, Closed, Goto, Still
<1>2. Own(New)
  BY DEF Own, New, Blank
<1>3. /\ pc'[h] = "closed" /\ model'[h] = New
      /\ loadedTx'[h] = None /\ scope'[h] = Measure
  BY DEF IInv, TypeOK, Closed, Goto
<1>4. HandleInv(h)'
  BY <1>2, <1>3 DEF HandleInv, Loading, Own
<1> QED
  BY <1>1, <1>4, StepOf

-----------------------------------------------------------------------------
(* Loads. *)

\* A load that read under its mark what is stored gives its handle a current base.
LEMMA LoadedKeeps ==
  ASSUME IInv, TypeOK', NEW h \in Handle, NEW tx \in 1 .. MaxTx, NEW S \in SUBSET Measure, NEW c \in Content,
         Loaded(h, tx, S, c), UNCHANGED <<backend, hw>>, StoreInv', StoreKept, tx <= hw, Own(c),
         \A m \in Measure \ S : c.cells[m] = None,
         tx = hw => /\ c.measures = disk'.measures /\ c.rest = disk'.rest
                    /\ \A m \in S \ InFacts : c.cells[m] = disk'.cells[m]
                    /\ \A i \in ItemId : c.items[i] \in {None, disk'.items[i]}
  PROVE  IInv'
<1>1. UNCHANGED <<backend, hw>>
  OBVIOUS
<1>2. StoreInv' /\ StoreKept
  OBVIOUS
<1>3. \A g \in Handle \ {h} : Still(g)
  BY DEF IInv, TypeOK, Loaded, Ends, Goto, Still
<1>4. /\ pc'[h] = "idle" /\ model'[h] = c /\ snap'[h] = c
      /\ loadedTx'[h] = tx /\ scope'[h] = S
  BY DEF IInv, TypeOK, Loaded, Ends, Goto
<1>5. tx # None
  BY ConstantsAssumption
<1>6. Pg' = Pg /\ InFacts' = InFacts
  BY <1>1 DEF Pg, InFacts
<1>7. TokenInv(h)'
  BY <1>1, <1>4, <1>6 DEF TokenInv, Agrees, Own, Content
<1>8. HandleInv(h)'
  BY <1>4, <1>5, <1>7 DEF HandleInv, Loading, Own
<1> QED
  BY <1>2, <1>3, <1>8, StepOf

\* A load that has read under its mark what is stored now, and stores nothing.
LEMMA CurrentKeeps ==
  ASSUME IInv, TypeOK', NEW h \in Handle, NEW tx \in 1 .. MaxTx, NEW S \in SUBSET Measure, NEW c \in Content,
         Loaded(h, tx, S, c), UNCHANGED <<backend, disk, hw, newest>>, tx <= hw, tx = hw => Agrees(c, S), Own(c),
         \A m \in Measure \ S : c.cells[m] = None
  PROVE  IInv'
<1>1. StoreInv' /\ StoreKept
  BY StoreStill DEF IInv
<1> QED
  BY <1>1, LoadedKeeps DEF Agrees

\* What is stored once items were minted, or were not.
MintedIn(minted) ==
  /\ disk'.measures = disk.measures /\ disk'.rest = disk.rest /\ disk'.cells = disk.cells
  /\ disk'.items = minted
  /\ \A i \in ItemId : minted[i] = disk.items[i] \/ disk.items[i] = None

\* Minting leaves every item there is, and the rest of what is stored.
LEMMA MintKeeps ==
  ASSUME TypeOK, StoreInv, UNCHANGED <<backend, hw, newest>>, NEW new, NEW minted \in Items,
         minted = disk.items \/ Minted(disk.items, new, minted), disk' = [disk EXCEPT !.items = minted]
  PROVE  MintedIn(minted) /\ StoreInv' /\ StoreKept
<1>1. MintedIn(minted)
  BY DEF MintedIn, Minted, TypeOK, Content
<1>2. Pg' = Pg
  BY DEF Pg
<1> QED
  BY <1>1, <1>2 DEF MintedIn, StoreInv, StoreKept, Own

\* A read of a load: what it holds is right of what is stored now.
LEMMA ReadKeeps ==
  ASSUME IInv, TypeOK', NEW h \in Handle, NEW p \in Partial, part' = [part EXCEPT ![h] = p],
         NEW l \in {"measures", "cells", "meta", "minting"}, Goto(h, l), Pg <=> l = "minting",
         UNCHANGED <<store, token, ids, model, pending>>,
         ReadInv(h)'
  PROVE  IInv'
<1>1. UNCHANGED <<backend, disk, hw, newest, loadedTx, snap, scope, model>>
  BY DEF store, token
<1>2. StoreInv' /\ StoreKept
  BY <1>1, StoreStill DEF IInv
<1>3. \A g \in Handle \ {h} : Still(g)
  BY <1>1 DEF IInv, TypeOK, Goto, Still
<1>4. Pg' = Pg /\ InFacts' = InFacts
  BY <1>1 DEF Pg, InFacts
<1>5. HandleInv(h)
  BY DEF IInv
<1>6. pc'[h] = l
  BY DEF IInv, TypeOK, Goto
<1>7. HandleInv(h)'
  BY <1>1, <1>4, <1>5, <1>6 DEF HandleInv, TokenInv, Agrees, Own
<1> QED
  BY <1>2, <1>3, <1>7, StepOf

\* The reads of a Mentat load in their order, and the one snapshot of a Postgres load.
LEMMA LoadKeeps ==
  ASSUME IInv, NEW h \in Handle, Load(h)
  PROVE  IInv'
<1> TypeOK /\ TypeOK' /\ StoreInv /\ HandleInv(h)
  BY LoadTypes DEF IInv
<1> disk \in Content /\ hw \in 1 .. MaxTx /\ hw \in Int
  BY DEF TypeOK
<1>1. ASSUME NEW S \in SUBSET Measure, NEW all \in BOOLEAN, all => S = Measure, BeginLoad(h, S, all)
      PROVE  IInv'
  <2> DEFINE p == [tx |-> hw, all |-> all, scope |-> S, read |-> Blank, new |-> {}]
  <2>1. p \in Partial
    BY DEF Partial, Blank, Content, Cell, Items, NoItems
  <2>2. part'[h] = p /\ pc'[h] = "measures" /\ hw' = hw /\ ~Pg'
    BY <1>1 DEF BeginLoad, TypeOK, Goto, store, Pg
  <2>3. ReadInv(h)'
    BY <1>1, <2>2 DEF ReadInv, PartsInv, Blank, NoItems
  <2> QED
    BY <1>1, <2>1, <2>3, ReadKeeps DEF BeginLoad
<1>2. CASE LoadMeasures(h)
  <2> DEFINE p == [part[h] EXCEPT !.read.measures = disk.measures]
  <2>1. part[h] \in Partial /\ Loading(h)
    BY <1>2 DEF LoadMeasures, TypeOK, Loading
  <2>2. p \in Partial
    BY <2>1 DEF Partial, Content
  <2>3. part' = [part EXCEPT ![h] = p]
    BY <1>2 DEF LoadMeasures, TypeOK
  <2>4. part'[h] = p /\ disk' = disk /\ hw' = hw /\ Pg' = Pg
    BY <1>2, <2>3 DEF LoadMeasures, TypeOK, store, Pg
  <2>5. pc'[h] = IF part[h].all THEN "cells" ELSE "meta"
    BY <1>2 DEF LoadMeasures, TypeOK, Goto
  <2>6. /\ p.tx = part[h].tx /\ p.all = part[h].all /\ p.scope = part[h].scope
        /\ p.read.cells = part[h].read.cells /\ p.read.measures = disk.measures
        /\ p.read.items = part[h].read.items
    BY <2>1 DEF Partial, Content
  <2>7. ReadInv(h) /\ pc[h] = "measures"
    BY <1>2, <2>1 DEF HandleInv, LoadMeasures
  <2>9. ~Pg
    BY <1>2 DEF HandleInv, LoadMeasures
  <2>8. ReadInv(h)'
    BY <2>4, <2>5, <2>6, <2>7, <2>9 DEF ReadInv, PartsInv
  <2> QED
    BY <1>2, <2>2, <2>3, <2>8, <2>9, ReadKeeps DEF LoadMeasures
<1>3. CASE LoadCells(h)
  <2> DEFINE c == [part[h].read EXCEPT !.cells = Cells(disk, part[h].scope \cap disk.measures)]
             p == [part[h] EXCEPT !.read = c]
  <2>1. part[h] \in Partial /\ Loading(h) /\ pc[h] = "cells"
    BY <1>3 DEF LoadCells, TypeOK, Loading
  <2>2. c \in Content
    BY <2>1 DEF Partial, Content, Cells, Cell
  <2>3. /\ c.measures = part[h].read.measures /\ c.rest = part[h].read.rest /\ c.items = part[h].read.items
        /\ \A m \in Measure : c.cells[m] = IF m \in part[h].scope \cap disk.measures THEN disk.cells[m] ELSE None
    BY <2>1 DEF Partial, Content, Cells
  <2>4. ReadInv(h) /\ ~Pg /\ InFacts = {}
    BY <1>3, <2>1 DEF HandleInv, LoadCells, InFacts
  <2>5. CASE Unreadable(disk, part[h].read.measures, part[h].scope)
    <3>1. /\ part' = [part EXCEPT ![h] = None] /\ Ends(h)
          /\ UNCHANGED <<store, token, model, pending>>
      BY <1>3, <2>5 DEF LoadCells
    <3>2. UNCHANGED <<backend, disk, hw, newest, loadedTx, snap, scope, model>>
      BY <3>1 DEF store, token
    <3>3. StoreInv' /\ StoreKept
      BY <3>2, StoreStill
    <3>4. \A g \in Handle \ {h} : Still(g)
      BY <3>1, <3>2 DEF TypeOK, Ends, Goto, Still
    <3>5. pc'[h] = "idle"
      BY <3>1 DEF TypeOK, Ends, Goto
    <3>6. Pg' = Pg /\ InFacts' = InFacts
      BY <3>2 DEF Pg, InFacts
    <3>7. HandleInv(h)'
      BY <3>2, <3>5, <3>6 DEF HandleInv, TokenInv, Agrees, Own, Loading
    <3> QED
      BY <3>3, <3>4, <3>7, StepOf
  <2>6. CASE ~Unreadable(disk, part[h].read.measures, part[h].scope)
    <3>1. Own(c)
      <4> SUFFICES ASSUME NEW m \in Measure, m \notin part[h].read.measures, m \in part[h].scope, m \in disk.measures
                   PROVE  disk.cells[m] = None
        BY <2>3 DEF Own
      <4> QED
        BY <2>4, <2>6 DEF Unreadable
    <3>2. \A m \in Measure : m \in part[h].scope => c.cells[m] = disk.cells[m]
      BY <2>3 DEF StoreInv, Own
    <3>3. CASE part[h].all
      <4>1. part' = [part EXCEPT ![h] = p]
        BY <1>3, <2>6, <3>3 DEF LoadCells, TypeOK
      <4>2. p \in Partial
        BY <2>1, <2>2 DEF Partial
      <4>3. pc'[h] = "meta" /\ part'[h] = p /\ disk' = disk /\ hw' = hw /\ ~Pg'
        BY <1>3, <2>4, <2>6, <3>3, <4>1 DEF LoadCells, TypeOK, Goto, store, Pg
      <4>4. p.tx = part[h].tx /\ p.all = part[h].all /\ p.scope = part[h].scope /\ p.read = c
        BY <2>1 DEF Partial
      <4> HIDE DEF c, p
      <4>5. ReadInv(h)'
        BY <2>1, <2>3, <2>4, <3>1, <3>2, <3>3, <4>3, <4>4 DEF ReadInv, PartsInv, Own
      <4> QED
        BY <1>3, <2>4, <2>6, <3>3, <4>1, <4>2, <4>5, ReadKeeps DEF LoadCells, p
    <3>4. CASE ~part[h].all
      <4>1. Loaded(h, part[h].tx, part[h].scope, c) /\ UNCHANGED <<backend, disk, hw, newest>>
        BY <1>3, <2>6, <3>4 DEF LoadCells, store
      <4>2. part[h].tx \in 1 .. MaxTx /\ part[h].scope \in SUBSET Measure
        BY <2>1 DEF Partial
      <4> HIDE DEF c
      <4>3. part[h].tx <= hw /\ (part[h].tx = hw => Agrees(c, part[h].scope))
        BY <2>1, <2>3, <2>4, <3>2, <3>4, <4>2 DEF ReadInv, PartsInv, Agrees
      <4>4. \A m \in Measure \ part[h].scope : c.cells[m] = None
        BY <2>3
      <4> QED
        BY <2>2, <3>1, <4>1, <4>2, <4>3, <4>4, CurrentKeeps
    <3> QED
      BY <3>3, <3>4
  <2> QED
    BY <2>5, <2>6
<1>4. CASE LoadMeta(h)
  <2> DEFINE c == [part[h].read EXCEPT !.rest = disk.rest]
             p == [part[h] EXCEPT !.read = c]
  <2>1. part[h] \in Partial /\ Loading(h) /\ pc[h] = "meta"
    BY <1>4 DEF LoadMeta, TypeOK, Loading
  <2>2. c \in Content
    BY <2>1 DEF Partial, Content
  <2>3. /\ c.measures = part[h].read.measures /\ c.rest = disk.rest
        /\ c.cells = part[h].read.cells /\ c.items = part[h].read.items
    BY <2>1 DEF Partial, Content
  <2>4. ReadInv(h) /\ ~Pg
    BY <1>4, <2>1 DEF HandleInv, LoadMeta
  <2>5. CASE part[h].all
    <3>1. Loaded(h, part[h].tx, Measure, c) /\ UNCHANGED <<backend, disk, hw, newest>>
      BY <1>4, <2>5 DEF LoadMeta, store
    <3>2. part[h].tx \in 1 .. MaxTx /\ Measure \in SUBSET Measure
      BY <2>1 DEF Partial
    <3> HIDE DEF c
    <3>3. part[h].tx <= hw /\ (part[h].tx = hw => Agrees(c, Measure)) /\ Own(c)
      BY <2>1, <2>3, <2>4, <2>5 DEF ReadInv, PartsInv, Agrees, Own
    <3> QED
      BY <2>2, <3>1, <3>2, <3>3, CurrentKeeps
  <2>6. CASE ~part[h].all
    <3>1. part' = [part EXCEPT ![h] = p]
      BY <1>4, <2>6 DEF LoadMeta, TypeOK
    <3>2. p \in Partial
      BY <2>1, <2>2 DEF Partial
    <3>3. pc'[h] = "cells" /\ part'[h] = p /\ disk' = disk /\ hw' = hw /\ ~Pg'
      BY <1>4, <2>4, <2>6, <3>1 DEF LoadMeta, TypeOK, Goto, store, Pg
    <3>4. p.tx = part[h].tx /\ p.all = part[h].all /\ p.scope = part[h].scope /\ p.read = c
      BY <2>1 DEF Partial
    <3> HIDE DEF c, p
    <3>5. ReadInv(h)'
      BY <2>1, <2>3, <2>4, <2>6, <3>3, <3>4 DEF ReadInv, PartsInv
    <3> QED
      BY <1>4, <2>4, <2>6, <3>1, <3>2, <3>5, ReadKeeps DEF LoadMeta, p
  <2> QED
    BY <2>5, <2>6
<1>5. ASSUME NEW S \in SUBSET Measure, LoadPg(h, S)
      PROVE  IInv'
  <2> DEFINE c == [disk EXCEPT !.cells = Cells(disk, S)]
  <2>1. c \in Content
    BY DEF Content, Cells, Cell
  <2>2. /\ c.measures = disk.measures /\ c.rest = disk.rest /\ c.items = disk.items
        /\ \A m \in Measure : c.cells[m] = IF m \in S THEN disk.cells[m] ELSE None
    BY DEF Content, Cells
  <2> Agrees(c, S) /\ Own(c) /\ \A m \in Measure \ S : c.cells[m] = None
    BY <2>2 DEF Agrees, Own, StoreInv
  <2>3. CASE Unreadable(disk, disk.measures, S)
    <3>1. ~Loading(h) /\ Goto(h, "idle")
      BY <1>5, <2>3 DEF LoadPg, Loading, Ends
    <3>2. UNCHANGED <<backend, disk, hw, newest, token, model, part>>
      BY <1>5, <2>3 DEF LoadPg, store
    <3> QED
      BY <3>1, <3>2, QuietKeeps
  <2>4. CASE ~Unreadable(disk, disk.measures, S) /\ Unknown(S) = {}
    <3>1. Loaded(h, hw, S, c) /\ UNCHANGED <<backend, disk, hw, newest>>
      BY <1>5, <2>4 DEF LoadPg, store
    <3> HIDE DEF c
    <3> QED
      BY <2>1, <3>1, CurrentKeeps
  <2>5. CASE ~Unreadable(disk, disk.measures, S) /\ Unknown(S) # {}
    <3> DEFINE p == [tx |-> hw, all |-> FALSE, scope |-> S, read |-> c, new |-> Unknown(S)]
    <3>1. Unknown(S) \in SUBSET Name
      BY DEF Unknown, TypeOK
    <3> HIDE DEF c
    <3>2. p \in Partial
      BY <2>1, <3>1 DEF Partial
    <3>3. /\ part' = [part EXCEPT ![h] = p] /\ Goto(h, "minting") /\ Pg
          /\ UNCHANGED <<store, token, ids, model, pending>>
      BY <1>5, <2>5 DEF LoadPg, c
    <3>4. part'[h] = p /\ UNCHANGED <<disk, hw, backend>>
      BY <3>3 DEF TypeOK, store
    <3>5. ReadInv(h)'
      BY <3>3, <3>4 DEF ReadInv, SnapshotInv, Agrees, Own, Pg, InFacts
    <3> HIDE DEF p
    <3> QED
      BY <3>2, <3>3, <3>5, ReadKeeps
  <2> QED
    BY <2>3, <2>4, <2>5
<1>6. CASE Mint(h)
  <2>1. part[h] \in Partial /\ Loading(h)
    BY <1>6 DEF Mint, TypeOK, Loading
  <2>2. PICK minted \in Items :
          /\ Minted(disk.items, part[h].new, minted) /\ disk' = [disk EXCEPT !.items = minted]
          /\ Loaded(h, part[h].tx, part[h].scope, Joined(part[h], minted))
    BY <1>6 DEF Mint
  <2> DEFINE c == Joined(part[h], minted)
  <2>3. /\ c \in Content /\ c.measures = part[h].read.measures /\ c.rest = part[h].read.rest
        /\ c.cells = part[h].read.cells
        /\ \A i \in ItemId : c.items[i] \in {minted[i], part[h].read.items[i]}
    BY <2>1, JoinedType
  <2>4. part[h].tx \in 1 .. MaxTx /\ part[h].scope \in SUBSET Measure
    BY <2>1 DEF Partial
  <2>5. StoreInv' /\ StoreKept /\ UNCHANGED <<backend, hw>> /\ MintedIn(minted)
    BY <1>6, <2>2, MintKeeps DEF Mint
  <2>6. ReadInv(h) /\ Pg
    BY <1>6, <2>1 DEF HandleInv, Mint
  <2> HIDE DEF c
  <2>7. part[h].tx <= hw /\ Own(c) /\ \A m \in Measure \ part[h].scope : c.cells[m] = None
    BY <2>3, <2>6 DEF ReadInv, SnapshotInv, Own
  <2>8. part[h].tx = hw =>
          /\ c.measures = disk'.measures /\ c.rest = disk'.rest
          /\ \A m \in part[h].scope \ InFacts : c.cells[m] = disk'.cells[m]
          /\ \A i \in ItemId : c.items[i] \in {None, disk'.items[i]}
    BY <2>3, <2>5, <2>6 DEF ReadInv, SnapshotInv, Agrees, MintedIn
  <2>9. Loaded(h, part[h].tx, part[h].scope, c)
    BY <2>2 DEF c
  <2> QED
    BY <2>3, <2>4, <2>5, <2>7, <2>8, <2>9, LoadedKeeps
<1>7. CASE MintFails(h)
  <2>1. PICK minted \in Items :
          /\ minted = disk.items \/ Minted(disk.items, part[h].new, minted)
          /\ disk' = [disk EXCEPT !.items = minted]
    BY <1>7 DEF MintFails
  <2>2. /\ part' = [part EXCEPT ![h] = None] /\ Ends(h)
        /\ UNCHANGED <<backend, hw, newest, loadedTx, snap, scope, model>>
    BY <1>7 DEF MintFails, token
  <2>3. StoreInv' /\ StoreKept /\ MintedIn(minted)
    BY <2>1, <2>2, MintKeeps
  <2>4. \A g \in Handle \ {h} : Still(g)
    BY <2>2 DEF TypeOK, Ends, Goto, Still
  <2>5. pc'[h] = "idle" /\ Pg' = Pg /\ InFacts' = InFacts
    BY <2>2 DEF TypeOK, Ends, Goto, Pg, InFacts
  <2>6. loadedTx[h] # None => TokenInv(h)'
    <3> SUFFICES ASSUME loadedTx[h] # None PROVE TokenInv(h)'
      OBVIOUS
    <3>1. TokenInv(h) /\ scope[h] \subseteq Measure
      BY DEF HandleInv, TypeOK
    <3>2. Agrees(snap[h], scope[h]) => Agrees(snap[h], scope[h])'
      BY <2>2, <2>3, <2>5, <3>1 DEF Agrees, MintedIn
    <3> QED
      BY <2>2, <3>1, <3>2 DEF TokenInv, Own
  <2>7. HandleInv(h)'
    BY <2>2, <2>5, <2>6 DEF HandleInv, Own, Loading
  <2> QED
    BY <2>3, <2>4, <2>7, StepOf
<1> QED
  BY <1>1, <1>2, <1>3, <1>4, <1>5, <1>6, <1>7, ConstantsAssumption DEF Load

-----------------------------------------------------------------------------
(* Edits. *)

\* An edit within the scope leaves the token as it is.
LEMMA EditedKeeps ==
  ASSUME IInv, TypeOK', NEW h \in Handle, NEW c \in Content, Edited(h, c), Own(c),
         \A m \in Measure \ scope[h] : model[h].cells[m] = None => c.cells[m] = None,
         model[h].measures \ scope[h] \subseteq c.measures
  PROVE  IInv'
<1>1. UNCHANGED <<backend, disk, hw, newest, loadedTx, snap, scope, pc, part>>
  BY DEF Edited, store, token
<1>2. StoreInv' /\ StoreKept
  BY <1>1, StoreStill DEF IInv
<1>3. /\ \A g \in Handle \ {h} : Still(g)
      /\ model'[h] = c /\ pc[h] = "idle"
  BY <1>1 DEF IInv, TypeOK, Edited, Still
<1>4. Pg' = Pg /\ InFacts' = InFacts
  BY <1>1 DEF Pg, InFacts
<1>5. HandleInv(h)
  BY DEF IInv
<1>6. TokenInv(h) => TokenInv(h)'
  BY <1>1, <1>3, <1>4 DEF TokenInv, Agrees, Own
<1>7. HandleInv(h)'
  BY <1>1, <1>3, <1>4, <1>5, <1>6 DEF HandleInv, Own, Loading
<1> QED
  BY <1>2, <1>3, <1>7, StepOf

\* Every edit, and putting the edits aside.
LEMMA EditKeeps ==
  ASSUME IInv, Orderly, NEW h \in Handle, Edit(h)
  PROVE  IInv'
<1> TypeOK /\ TypeOK' /\ HandleInv(h)
  BY EditTypes DEF IInv
<1> model[h] \in Content /\ Own(model[h])
  BY DEF TypeOK, HandleInv
<1>1. ASSUME NEW m \in Measure, NEW v \in Value \cup {None}, SetCell(h, m, v)
      PROVE  IInv'
  <2> DEFINE c == [model[h] EXCEPT !.cells[m] = v]
  <2>1. c \in Content
    BY DEF Content, Cell
  <2>2. /\ c.measures = model[h].measures
        /\ \A n \in Measure : c.cells[n] = IF n = m THEN v ELSE model[h].cells[n]
    BY DEF Content
  <2>3. m \in model[h].measures /\ m \in scope[h] /\ Edited(h, c)
    BY <1>1 DEF SetCell
  <2> HIDE DEF c
  <2>4. Own(c)
    BY <2>2, <2>3 DEF Own
  <2> QED
    BY <2>1, <2>2, <2>3, <2>4, EditedKeeps
<1>2. ASSUME NEW m \in Measure, AddMeasure(h, m)
      PROVE  IInv'
  <2> DEFINE c == [model[h] EXCEPT !.measures = @ \cup {m}]
  <2>1. c \in Content
    BY DEF Content
  <2>2. c.measures = model[h].measures \cup {m} /\ c.cells = model[h].cells
    BY DEF Content
  <2>3. Edited(h, c)
    BY <1>2 DEF AddMeasure
  <2> HIDE DEF c
  <2>4. Own(c)
    BY <2>2 DEF Own
  <2> QED
    BY <2>1, <2>2, <2>3, <2>4, EditedKeeps
<1>3. ASSUME NEW m \in Measure, DropMeasure(h, m)
      PROVE  IInv'
  <2> DEFINE c == [model[h] EXCEPT !.measures = @ \ {m}, !.cells[m] = None]
  <2>1. c \in Content
    BY DEF Content, Cell
  <2>2. /\ c.measures = model[h].measures \ {m}
        /\ \A n \in Measure : c.cells[n] = IF n = m THEN None ELSE model[h].cells[n]
    BY DEF Content
  <2>3. m \in scope[h] /\ Edited(h, c)
    BY <1>3 DEF DropMeasure, Orderly
  <2> HIDE DEF c
  <2>4. Own(c)
    BY <2>2 DEF Own
  <2> QED
    BY <2>1, <2>2, <2>3, <2>4, EditedKeeps
<1>4. ASSUME NEW i \in ItemId, NEW n \in Name \cup {None}, Edited(h, [model[h] EXCEPT !.items[i] = n])
      PROVE  IInv'
  <2> DEFINE c == [model[h] EXCEPT !.items[i] = n]
  <2>1. c \in Content
    BY DEF Content, Items
  <2>2. c.measures = model[h].measures /\ c.cells = model[h].cells
    BY DEF Content
  <2>3. Edited(h, c)
    BY <1>4
  <2> HIDE DEF c
  <2>4. Own(c)
    BY <2>2 DEF Own
  <2> QED
    BY <2>1, <2>2, <2>3, <2>4, EditedKeeps
<1>5. CASE EditRest(h)
  <2> DEFINE c == [model[h] EXCEPT !.rest = ~@]
  <2>1. c \in Content
    BY DEF Content
  <2>2. c.measures = model[h].measures /\ c.cells = model[h].cells
    BY DEF Content
  <2>3. Edited(h, c)
    BY <1>5 DEF EditRest
  <2> HIDE DEF c
  <2>4. Own(c)
    BY <2>2 DEF Own
  <2> QED
    BY <2>1, <2>2, <2>3, <2>4, EditedKeeps
<1>6. CASE Discard(h)
  <2>1. UNCHANGED <<backend, disk, hw, newest, loadedTx, snap, scope, pc, part>>
    BY <1>6 DEF Discard, store, token
  <2>2. StoreInv' /\ StoreKept
    BY <2>1, StoreStill DEF IInv
  <2>3. /\ \A g \in Handle \ {h} : Still(g)
        /\ model'[h] = (IF snap[h] = None THEN New ELSE snap[h]) /\ pc[h] = "idle"
    BY <1>6, <2>1 DEF TypeOK, Discard, Still
  <2>4. Pg' = Pg /\ InFacts' = InFacts
    BY <2>1 DEF Pg, InFacts
  <2>5. loadedTx[h] = None <=> snap[h] = None
    BY DEF TypeOK
  <2>6. Own(New)
    BY DEF Own, New, Blank
  <2>7. Own(model'[h])
    BY <2>3, <2>5, <2>6 DEF HandleInv, TokenInv
  <2>8. loadedTx[h] # None => TokenInv(h)'
    BY <2>1, <2>3, <2>4, <2>5 DEF HandleInv, TokenInv, Agrees, Own
  <2>9. HandleInv(h)'
    BY <2>1, <2>3, <2>4, <2>7, <2>8 DEF HandleInv, Own, Loading
  <2> QED
    BY <2>2, <2>3, <2>9, StepOf
<1>7. (\E n \in Name : AddItem(h, n)) \/ (\E i \in ItemId : DropItem(h, i)) => IInv'
  BY <1>4 DEF AddItem, DropItem
<1> QED
  BY <1>1, <1>2, <1>3, <1>5, <1>6, <1>7 DEF Edit

-----------------------------------------------------------------------------
(* Saves. *)

\* What a save leaves stored: the handle's structure, its cells where it looked, no
\* cell of another measure, its items, and no cell changed, or item dropped, that the
\* handle did not see.
Sound(h, c) ==
  /\ c.measures = model[h].measures /\ c.rest = model[h].rest
  /\ \A m \in scope[h] \ InFacts : c.cells[m] = model[h].cells[m]
  /\ Own(c)
  /\ Pg => Bound \subseteq c.measures
  /\ \A i \in ItemId : model[h].items[i] \in {None, c.items[i]}
  /\ loadedTx[h] # None =>
       /\ \A m \in Measure : c.cells[m] # disk.cells[m] => m \in scope[h] /\ snap[h].cells[m] = disk.cells[m]
       /\ \A i \in ItemId : disk.items[i] # None /\ c.items[i] = None => snap[h].items[i] = disk.items[i]

\* The items of a save, with the structure or without it.
ItemsSound(h, items) ==
  /\ \A i \in ItemId : model[h].items[i] \in {None, items[i]}
  /\ snap[h] # None =>
       \A i \in ItemId : disk.items[i] # None /\ items[i] = None => snap[h].items[i] = disk.items[i]

LEMMA ItemsKept ==
  ASSUME NEW h \in Handle, snap[h] # None => Agrees(snap[h], scope[h]),
         model[h] \in Content, disk \in Content
  PROVE  /\ ItemsSound(h, Kept(h))
         /\ snap[h] # None /\ ~Structure(h) => ItemsSound(h, disk.items)
<1>1. ItemsSound(h, Kept(h))
  BY DEF ItemsSound, Kept, Agrees
<1>2. snap[h] # None /\ ~Structure(h) => ItemsSound(h, disk.items)
  BY DEF ItemsSound, Structure, Agrees
<1> QED
  BY <1>1, <1>2

\* A Mentat save that passes the conflict check, of the model or of the changes.
LEMMA MentatSound ==
  ASSUME IInv, NEW h \in Handle, NEW kind \in {"model", "changes"}, ~Pg, ~Moved(h)
  PROVE  Sound(h, MentatWrites(h, kind))
<1> DEFINE c == MentatWrites(h, kind)
<1> TypeOK /\ HandleInv(h) /\ Own(disk)
  BY DEF IInv, StoreInv
<1>1. /\ InFacts = {} /\ Own(model[h])
      /\ loadedTx[h] = None => scope[h] = Measure
      /\ loadedTx[h] # None => TokenInv(h) /\ Agrees(snap[h], scope[h])
      /\ loadedTx[h] = None <=> snap[h] = None
  BY DEF HandleInv, TokenInv, Moved, InFacts, TypeOK
<1>2. /\ ItemsSound(h, Kept(h))
      /\ snap[h] # None /\ ~Structure(h) => ItemsSound(h, disk.items)
  BY <1>1, ItemsKept DEF TypeOK
<1>3. scope[h] \subseteq Measure /\ disk.measures \subseteq Measure
  BY DEF TypeOK, Content
<1>4. CASE Whole(h, kind)
  <2>1. /\ c.measures = model[h].measures /\ c.rest = model[h].rest /\ c.items = Kept(h)
        /\ \A m \in Measure : c.cells[m] = IF model[h].cells[m] # None THEN model[h].cells[m]
                                           ELSE IF m \in scope[h] THEN None ELSE disk.cells[m]
    <3>1. c = Written(h, TRUE, model[h].measures, {m \in Measure : model[h].cells[m] # None}, scope[h])
      BY <1>4 DEF MentatWrites
    <3> HIDE DEF c
    <3> QED
      BY <3>1 DEF Written
  <2> HIDE DEF c
  <2>2. \A m \in scope[h] : c.cells[m] = model[h].cells[m]
    BY <1>3, <2>1
  <2>3. Own(c)
    <3> SUFFICES ASSUME NEW m \in Measure, m \notin model[h].measures PROVE c.cells[m] = None
      BY <2>1 DEF Own
    <3>1. model[h].cells[m] = None
      BY <1>1 DEF Own
    <3>2. m \in scope[h] \/ m \notin disk.measures
      BY <1>1 DEF TokenInv, Agrees
    <3> QED
      BY <2>1, <3>1, <3>2 DEF Own
  <2>4. ASSUME loadedTx[h] # None, NEW m \in Measure, c.cells[m] # disk.cells[m]
        PROVE  m \in scope[h] /\ snap[h].cells[m] = disk.cells[m]
    BY <1>1, <2>1, <2>4 DEF TokenInv, Agrees
  <2> QED
    BY <1>1, <1>2, <2>1, <2>2, <2>3, <2>4 DEF Sound, ItemsSound, c
<1>5. CASE ~Whole(h, kind)
  <2> DEFINE D == IF Structure(h) THEN disk.measures \ model[h].measures ELSE {}
  <2>1. loadedTx[h] # None /\ TokenInv(h) /\ Agrees(snap[h], scope[h])
    BY <1>1, <1>5 DEF Whole
  <2>2. /\ c.measures = IF Structure(h) THEN model[h].measures ELSE disk.measures
        /\ c.rest = IF Structure(h) THEN model[h].rest ELSE disk.rest
        /\ c.items = IF Structure(h) THEN Kept(h) ELSE disk.items
        /\ \A m \in Measure : c.cells[m] = IF m \in Named(h) THEN model[h].cells[m]
                                           ELSE IF m \in D THEN None ELSE disk.cells[m]
    <3>1. c = Written(h, Structure(h), model[h].measures, Named(h), D)
      BY <1>5 DEF MentatWrites
    <3> HIDE DEF c, D
    <3> QED
      BY <3>1 DEF Written
  <2> HIDE DEF c
  <2>3. c.measures = model[h].measures /\ c.rest = model[h].rest
    BY <2>1, <2>2 DEF Agrees, Structure
  <2>4. \A m \in Measure : m \notin Named(h) => snap[h].cells[m] = model[h].cells[m]
    BY DEF Named
  <2>5. \A m \in D : m \in Measure /\ m \in scope[h] /\ m \notin model[h].measures
    BY <1>3, <2>1 DEF TokenInv, Agrees
  <2>6. \A m \in scope[h] : c.cells[m] = model[h].cells[m]
    BY <1>1, <1>3, <2>1, <2>2, <2>4, <2>5 DEF Agrees, Own
  <2>7. Own(c)
    <3> SUFFICES ASSUME NEW m \in Measure, m \notin model[h].measures PROVE c.cells[m] = None
      BY <2>3 DEF Own
    <3>1. model[h].cells[m] = None
      BY <1>1 DEF Own
    <3>2. m \in D \/ m \notin disk.measures
      BY <2>1 DEF Agrees, Structure
    <3> QED
      BY <2>2, <3>1, <3>2 DEF Own
  <2>8. ASSUME NEW m \in Measure, c.cells[m] # disk.cells[m]
        PROVE  m \in scope[h] /\ snap[h].cells[m] = disk.cells[m]
    <3>1. m \in Named(h) \/ m \in D
      BY <2>2, <2>8
    <3>2. m \in Named(h) => m \in scope[h]
      BY <2>1 DEF TokenInv, Named
    <3> QED
      BY <1>1, <2>1, <2>5, <3>1, <3>2 DEF Agrees
  <2> QED
    BY <1>1, <1>2, <2>1, <2>2, <2>3, <2>6, <2>7, <2>8 DEF Sound, ItemsSound, c
<1> QED
  BY <1>4, <1>5

\* A Postgres save that passes the conflict check and the check of the bound cells.
LEMMA PgSound ==
  ASSUME IInv, NEW h \in Handle, NEW kind \in {"model", "changes"}, Pg, ~Moved(h),
         Bound \subseteq model[h].measures, snap[h] # None => Blocked(h) = {}
  PROVE  Sound(h, PgWrites(h, kind))
<1> DEFINE c == PgWrites(h, kind)
<1> TypeOK /\ HandleInv(h) /\ Own(disk)
  BY DEF IInv, StoreInv
<1>1. /\ InFacts = Bound /\ Own(model[h])
      /\ loadedTx[h] = None <=> snap[h] = None
      /\ loadedTx[h] # None => TokenInv(h) /\ Agrees(snap[h], scope[h])
  BY DEF HandleInv, TokenInv, Moved, InFacts, TypeOK
<1>2. /\ ItemsSound(h, Kept(h))
      /\ snap[h] # None /\ ~Structure(h) => ItemsSound(h, disk.items)
  BY <1>1, ItemsKept DEF TypeOK
<1>3. scope[h] \subseteq Measure /\ disk.measures \subseteq Measure /\ Bound \subseteq Measure
  BY ConstantsAssumption DEF TypeOK, Content
<1>4. CASE snap[h] = None
  <2>1. /\ c.measures = model[h].measures /\ c.rest = model[h].rest /\ c.items = Kept(h)
        /\ \A m \in Measure : c.cells[m] = IF model[h].cells[m] # None THEN model[h].cells[m]
                                           ELSE IF m \in Measure \ InFacts THEN None ELSE disk.cells[m]
    <3>1. c = Written(h, TRUE, model[h].measures, {m \in Measure : model[h].cells[m] # None}, Measure \ InFacts)
      BY <1>4 DEF PgWrites
    <3> HIDE DEF c
    <3> QED
      BY <3>1 DEF Written
  <2> HIDE DEF c
  <2> QED
    BY <1>1, <1>3, <1>4, <1>2, <2>1 DEF Sound, ItemsSound, Own, c
<1>5. CASE snap[h] # None
  <2> DEFINE s == Whole(h, kind) \/ Structure(h)
             mine == IF s THEN model[h].measures ELSE disk.measures
             W == Changed(h, mine)
             D == IF s /\ kind = "changes" THEN (snap[h].measures \ model[h].measures) \ InFacts ELSE {}
  <2>1. TokenInv(h) /\ Agrees(snap[h], scope[h]) /\ Blocked(h) = {}
    BY <1>1, <1>5
  <2>2. /\ c.measures = (IF s THEN (disk.measures \ (snap[h].measures \ model[h].measures)) \cup model[h].measures
                         ELSE disk.measures)
        /\ c.rest = IF s THEN model[h].rest ELSE disk.rest
        /\ c.items = IF s THEN Kept(h) ELSE disk.items
        /\ \A m \in Measure : c.cells[m] = IF m \in W THEN model[h].cells[m]
                                           ELSE IF m \in D THEN None ELSE disk.cells[m]
    <3>1. c = Written(h, s, (disk.measures \ (snap[h].measures \ model[h].measures)) \cup model[h].measures, W, D)
      BY <1>5 DEF PgWrites
    <3> HIDE DEF c, s, W, D
    <3> QED
      BY <3>1 DEF Written
  <2> HIDE DEF c
  <2>3. c.measures = model[h].measures /\ c.rest = model[h].rest
    BY <2>1, <2>2 DEF Agrees, Structure
  <2>4. mine = model[h].measures
    BY <2>1 DEF Agrees, Structure
  <2>5. \A m \in Measure : m \in W <=> m \in Named(h) /\ (m \in InFacts => m \in model[h].measures)
    BY <2>4 DEF Changed
  <2>6. \A m \in Measure : m \notin Named(h) => snap[h].cells[m] = model[h].cells[m]
    BY DEF Named
  <2>7. \A m \in D : m \in scope[h] /\ m \notin model[h].measures /\ m \notin InFacts
    BY <2>1 DEF TokenInv
  <2>11. ItemsSound(h, IF s THEN Kept(h) ELSE disk.items)
    BY <1>5, <1>2
  <2> HIDE DEF s, mine, W, D
  <2>8. \A m \in scope[h] \ InFacts : c.cells[m] = model[h].cells[m]
    BY <1>1, <1>3, <2>1, <2>2, <2>5, <2>6, <2>7 DEF Agrees, Own
  <2>9. Own(c)
    <3> SUFFICES ASSUME NEW m \in Measure, m \notin model[h].measures PROVE c.cells[m] = None
      BY <2>3 DEF Own
    <3>1. model[h].cells[m] = None /\ m \notin InFacts
      BY <1>1 DEF Own
    <3>2. CASE m \in scope[h]
      BY <2>8, <3>1, <3>2
    <3>3. CASE m \notin scope[h]
      <4>1. m \notin disk.measures
        BY <2>1, <3>3 DEF TokenInv, Agrees
      <4>2. disk.cells[m] = None
        BY <4>1 DEF Own
      <4> QED
        BY <2>2, <3>1, <4>2
    <3> QED
      BY <3>2, <3>3
  <2>10. ASSUME NEW m \in Measure, c.cells[m] # disk.cells[m]
         PROVE  m \in scope[h] /\ snap[h].cells[m] = disk.cells[m]
    <3>1. CASE m \in W
      <4>1. m \in Named(h) /\ (m \in InFacts => m \in model[h].measures)
        BY <2>5, <3>1
      <4>2. m \in scope[h]
        BY <2>1, <4>1 DEF TokenInv, Named
      <4>3. CASE m \in InFacts
        BY <2>1, <4>1, <4>2, <4>3 DEF Blocked
      <4>4. CASE m \notin InFacts
        BY <2>1, <4>2, <4>4 DEF Agrees
      <4> QED
        BY <4>2, <4>3, <4>4
    <3>2. CASE m \notin W
      <4>1. m \in D
        BY <2>2, <2>10, <3>2
      <4> QED
        BY <2>1, <2>7, <4>1 DEF Agrees
    <3> QED
      BY <3>1, <3>2
  <2> QED
    BY <1>1, <1>5, <2>2, <2>3, <2>8, <2>9, <2>10, <2>11 DEF Sound, ItemsSound, c
<1> QED
  BY <1>4, <1>5

\* A committed save gives its handle a current base, and moves the mark past every
\* other handle's unless it changed nothing.
LEMMA CommitKeeps ==
  ASSUME IInv, TypeOK', NEW h \in Handle, pc[h] \in {"idle", "saving"}, NEW c \in Content, Sound(h, c),
         NEW tx \in 1 .. MaxTx, tx <= newest', tx > hw \/ (tx = hw /\ c = disk), Commit(h, c, tx)
  PROVE  IInv'
<1> TypeOK /\ StoreInv /\ HandleInv(h)
  BY DEF IInv
<1>1. disk' = c /\ hw' = tx /\ UNCHANGED <<backend, scope, model, part>>
  BY DEF Commit
<1>2. Pg' = Pg /\ InFacts' = InFacts
  BY <1>1 DEF Pg, InFacts
<1>3. hw \in Int /\ tx \in Int
  BY DEF TypeOK
<1>4. StoreInv'
  BY <1>1, <1>2 DEF StoreInv, Sound, Own
<1>5. StoreKept
  BY <1>1, <1>3 DEF StoreKept
<1>6. /\ \A g \in Handle \ {h} : Still(g)
      /\ pc'[h] = "idle" /\ snap'[h] = model[h] /\ loadedTx'[h] = tx
  BY <1>1 DEF TypeOK, Commit, Ends, Goto, Still
<1>7. \A m \in Measure \ scope[h] : model[h].cells[m] = None
  BY DEF HandleInv, TokenInv
<1>8. TokenInv(h)'
  BY <1>1, <1>2, <1>3, <1>6, <1>7 DEF TokenInv, Agrees, Sound, Own, HandleInv
<1>9. tx # None
  BY ConstantsAssumption
<1>10. HandleInv(h)'
  BY <1>1, <1>2, <1>6, <1>8, <1>9 DEF HandleInv, Own, Loading
<1> QED
  BY <1>4, <1>5, <1>6, <1>10, StepOf

\* A refused or failed write leaves the token and the model.
LEMMA RefuseKeeps ==
  ASSUME IInv, NEW h \in Handle, ~Loading(h), Refuse(h)
  PROVE  IInv'
<1>1. Goto(h, "idle") /\ UNCHANGED <<backend, disk, hw, newest, token, model, part>>
  BY DEF Refuse, Ends, store
<1>2. TypeOK'
  BY RefuseTypes DEF IInv
<1> QED
  BY <1>1, <1>2, QuietKeeps

\* What a Mentat or a Postgres save may come to: a refusal, or a commit of what is sound.
LEMMA SaveOutcomes ==
  ASSUME IInv, Orderly, NEW h \in Handle, NEW kind \in {"model", "changes"},
         SaveMentat(h, kind) \/ SavePg(h, kind)
  PROVE  /\ pc[h] \in {"idle", "saving"}
         /\ \/ Refuse(h)
            \/ \E c \in Content, tx \in 1 .. MaxTx :
                 /\ Sound(h, c) /\ Commit(h, c, tx) /\ ~Moved(h)
                 /\ tx <= newest'
                 /\ tx > hw \/ (tx = hw /\ c = disk)
<1> TypeOK /\ StoreInv /\ HandleInv(h)
  BY DEF IInv
<1>1. CASE SaveMentat(h, kind)
  <2>1. ~Pg /\ pc[h] = "saving"
    BY <1>1 DEF SaveMentat, HandleInv
  <2>2. CASE Moved(h)
    BY <1>1, <2>1, <2>2 DEF SaveMentat
  <2>3. CASE ~Moved(h)
    <3> DEFINE c == MentatWrites(h, kind)
               tx == IF c = disk THEN hw ELSE ids[h] + 1
    <3>1. Sound(h, c) /\ c \in Content
      BY <2>1, <2>3, MentatSound, WritesType
    <3>2. Commit(h, c, tx) /\ newest' = ids[h] + 1 /\ ids[h] = newest /\ ids[h] < MaxTx
      BY <1>1, <2>3 DEF SaveMentat, InTime, Orderly
    <3> HIDE DEF c
    <3>3. hw \in 1 .. MaxTx /\ newest \in 1 .. MaxTx /\ hw <= newest /\ MaxTx \in Nat
      BY ConstantsAssumption DEF TypeOK, StoreInv
    <3>4. tx \in 1 .. MaxTx /\ tx <= newest' /\ (tx > hw \/ (tx = hw /\ c = disk))
      <4>1. CASE c = disk
        BY <3>2, <3>3, <4>1
      <4>2. CASE c # disk
        <5>1. tx = newest + 1 /\ newest' = newest + 1 /\ newest < MaxTx
          BY <3>2, <4>2
        <5> HIDE DEF tx
        <5>2. tx \in 1 .. MaxTx /\ tx <= newest' /\ tx > hw
          BY <3>3, <5>1
        <5> QED
          BY <5>2
      <4> QED
        BY <4>1, <4>2
    <3> HIDE DEF tx
    <3> QED
      BY <2>1, <2>3, <3>1, <3>2, <3>4
  <2> QED
    BY <2>2, <2>3
<1>2. CASE SavePg(h, kind)
  <2>1. Pg /\ pc[h] = "idle" /\ Bound \subseteq model[h].measures /\ hw < MaxTx
    BY <1>2 DEF SavePg, Orderly
  <2>2. CASE Refuse(h)
    BY <2>1, <2>2
  <2>3. CASE ~Refuse(h)
    <3> DEFINE c == PgWrites(h, kind)
               tx == hw + 1
    <3>1. /\ ~Moved(h) /\ (snap[h] # None => Blocked(h) = {})
          /\ newest' = hw + 1 /\ Commit(h, c, tx)
      BY <1>2, <2>3 DEF SavePg
    <3>2. Sound(h, c) /\ c \in Content
      BY <2>1, <3>1, PgSound, WritesType
    <3>3. tx \in 1 .. MaxTx /\ tx <= newest' /\ tx > hw
      BY <2>1, <3>1, ConstantsAssumption DEF TypeOK
    <3>4. Commit(h, c, tx) /\ ~Moved(h)
      BY <3>1
    <3> HIDE DEF c, tx
    <3> QED
      BY <2>1, <3>2, <3>3, <3>4
  <2> QED
    BY <2>2, <2>3
<1> QED
  BY <1>1, <1>2

\* Saves, of a model or of policies, their refusals and failures.
LEMMA WriteKeeps ==
  ASSUME IInv, Orderly, NEW h \in Handle, Write(h)
  PROVE  IInv'
<1> TypeOK /\ TypeOK' /\ StoreInv /\ HandleInv(h)
  BY WriteTypes DEF IInv
<1>1. ASSUME NEW what \in {"saving", "policies"}, FreshForWrite(h, what)
      PROVE  IInv'
  <2>1. ~Loading(h) /\ Goto(h, what) /\ ~Pg
    BY <1>1 DEF FreshForWrite, Loading
  <2>2. UNCHANGED <<backend, disk, hw, newest, token, model, part>>
    BY <1>1 DEF FreshForWrite, store
  <2> QED
    BY <2>1, <2>2, QuietKeeps
<1>2. ASSUME NEW kind \in {"model", "changes"}, SaveMentat(h, kind) \/ SavePg(h, kind)
      PROVE  IInv'
  <2>1. pc[h] \in {"idle", "saving"} /\ ~Loading(h)
    BY <1>2, SaveOutcomes DEF Loading
  <2>2. CASE Refuse(h)
    BY <2>1, <2>2, RefuseKeeps
  <2>4. ASSUME NEW c \in Content, NEW tx \in 1 .. MaxTx, Sound(h, c), Commit(h, c, tx),
               tx <= newest', tx > hw \/ (tx = hw /\ c = disk)
        PROVE  IInv'
    BY <2>1, <2>4, CommitKeeps
  <2> QED
    BY <1>2, <2>2, <2>4, SaveOutcomes
<1>3. CASE SaveFails(h)
  BY <1>3, RefuseKeeps DEF SaveFails, Loading
<1>4. CASE SavePolicies(h)
  <2>1. /\ Closed(h) /\ UNCHANGED <<backend, disk>>
        /\ newest' = newest + 1 /\ hw' = newest + 1
    BY <1>4 DEF SavePolicies, Orderly, InTime
  <2>2. StoreInv' /\ StoreKept
    BY <2>1 DEF StoreInv, StoreKept, TypeOK, Own, Pg
  <2> QED
    BY <2>1, <2>2, ClosedKeeps
<1>5. CASE SetPoliciesPg(h)
  <2>1. ~Loading(h) /\ Goto(h, "idle")
    BY <1>5 DEF SetPoliciesPg, Loading, Ends
  <2>2. UNCHANGED <<backend, disk, hw, newest, token, model, part>>
    BY <1>5 DEF SetPoliciesPg, store
  <2> QED
    BY <2>1, <2>2, QuietKeeps
<1> QED
  BY <1>1, <1>2, <1>3, <1>4, <1>5 DEF Write, Save

\* SQL on a fact table changes no cell of the model's own.
LEMMA FactKeeps ==
  ASSUME IInv, NEW m \in Measure, NEW v \in FactValue, WriteFact(m, v)
  PROVE  IInv' /\ StoreKept
<1> TypeOK /\ StoreInv
  BY DEF IInv
<1>1. TypeOK'
  BY NextTypes DEF Next
<1>2. m \in InFacts /\ disk' = [disk EXCEPT !.cells[m] = v] /\ disk \in Content
  BY DEF WriteFact, TypeOK
<1>3. /\ disk'.measures = disk.measures /\ disk'.rest = disk.rest /\ disk'.items = disk.items
      /\ \A n \in Measure : disk'.cells[n] = IF n = m THEN v ELSE disk.cells[n]
  BY <1>2 DEF Content
<1>4. /\ UNCHANGED <<backend, hw, newest, loadedTx, snap, scope, model, pc, part>>
      /\ Pg' = Pg /\ InFacts' = InFacts
  BY DEF WriteFact, Pg, InFacts, token
<1>5. StoreKept
  BY <1>2, <1>3, <1>4 DEF StoreKept
<1>6. m \in disk.measures
  BY <1>2 DEF InFacts, StoreInv
<1>7. StoreInv'
  BY <1>3, <1>4, <1>6 DEF StoreInv, Own
<1>8. \A g \in Handle : Still(g)
  BY <1>4 DEF Still
<1> QED
  BY <1>1, <1>5, <1>7, <1>8, OtherKeeps DEF IInv

\* Every step of any process keeps the invariant.
LEMMA NextKeeps == Orderly /\ IInv /\ [Next]_vars => IInv'
<1> SUFFICES ASSUME Orderly, IInv, [Next]_vars PROVE IInv'
  OBVIOUS
<1> TypeOK'
  BY NextTypes DEF IInv
<1>1. ASSUME NEW h \in Handle, Open(h) PROVE IInv'
  <2>1. ~Loading(h) /\ Goto(h, "idle")
    BY <1>1 DEF Open, Loading
  <2>2. UNCHANGED <<backend, disk, hw, newest, token, model, part>>
    BY <1>1 DEF Open, store
  <2> QED
    BY <2>1, <2>2, QuietKeeps
<1>2. ASSUME NEW h \in Handle, Close(h) PROVE IInv'
  <2>1. Closed(h) /\ UNCHANGED <<backend, disk, hw, newest>>
    BY <1>2 DEF Close, store
  <2> QED
    BY <2>1, StoreStill, ClosedKeeps DEF IInv
<1>3. CASE UNCHANGED vars \/ \E N \in SUBSET Name : WriteRows(N)
  <2>1. UNCHANGED <<backend, disk, hw, newest, loadedTx, snap, scope, model, pc, part>>
    BY <1>3 DEF vars, store, token, WriteRows
  <2>2. \A g \in Handle : Still(g)
    BY <2>1 DEF Still
  <2> QED
    BY <2>1, <2>2, StoreStill, OtherKeeps DEF IInv
<1> QED
  BY <1>1, <1>2, <1>3, LoadKeeps, EditKeeps, WriteKeeps, FactKeeps DEF Next

\* The store keeps the invariant, in an environment without the four histories.
THEOREM Invariant ==
  ASSUME Orderly
  PROVE  Spec => []IInv
<1>1. IInv /\ [Next]_vars => IInv'
  BY NextKeeps
<1> QED
  BY <1>1, InitIInv, PTL DEF Spec

\* A handle whose mark is the store's holds what is stored, although a Mentat load
\* reads the mark first and the parts one by one (load_model, load_partial) and
\* other processes save between the reads, and a Postgres load mints items under the
\* mark: what the handle has of the items is stored as it has it, then too.
THEOREM BaseCorrect ==
  ASSUME Orderly
  PROVE  Spec => []BaseIsCurrent
BY Invariant, BasesCurrent, PTL

\* What any sequence of saves leaves can be loaded again: no cell without its measure
\* ("cell for unknown measure"), no binding without its measure.
THEOREM Loadable ==
  ASSUME Orderly
  PROVE  Spec => []StoreLoads
<1>1. IInv => StoreLoads
  BY DEF IInv, StoreInv, StoreLoads, Unreadable, Own
<1> QED
  BY <1>1, Invariant, PTL

\* A save of a handle that loaded changes a cell only from the value the handle saw
\* and only where its load looked, and drops only items that it held: the conflict
\* check, the scope of a partial load, write_bound's check of the fact tables and the
\* deletion of no more than the loaded rows are enough.
THEOREM SavesSee ==
  ASSUME Orderly
  PROVE  Spec => NoBlindWrite
<1>1. ASSUME IInv, NEW h \in Handle, Save(h), loadedTx[h] # None
      PROVE  /\ \A m \in Measure : disk'.cells[m] # disk.cells[m] =>
                   m \in scope[h] /\ snap[h].cells[m] = disk.cells[m]
             /\ \A i \in ItemId : disk.items[i] # None /\ disk'.items[i] = None =>
                   snap[h].items[i] = disk.items[i]
  <2>1. PICK kind \in {"model", "changes"} : SaveMentat(h, kind) \/ SavePg(h, kind)
    BY <1>1 DEF Save
  <2>2. CASE Refuse(h)
    BY <2>2 DEF Refuse, store
  <2>3. CASE ~Refuse(h)
    <3>1. PICK c \in Content : Sound(h, c) /\ disk' = c
      BY <1>1, <2>1, <2>3, SaveOutcomes DEF Commit
    <3> QED
      BY <1>1, <3>1 DEF Sound
  <2> QED
    BY <2>2, <2>3
<1>2. IInv => [\A h \in Handle : Save(h) /\ loadedTx[h] # None =>
       /\ \A m \in Measure : disk'.cells[m] # disk.cells[m] =>
            m \in scope[h] /\ snap[h].cells[m] = disk.cells[m]
       /\ \A i \in ItemId : disk.items[i] # None /\ disk'.items[i] = None =>
            snap[h].items[i] = disk.items[i]]_vars
  BY <1>1
<1> QED
  BY <1>2, Invariant, PTL DEF NoBlindWrite

-----------------------------------------------------------------------------
(* The refinement. *)

Views == [h \in Handle |-> View(h)]

\* What is stored of the model's own is a content.
LEMMA PublicType == TypeOK => Public(disk) \in Content
BY DEF TypeOK, Public, Cells, Content, Cell, Items, NoItems

\* The same after a step.
LEMMA PublicNext == TypeOK' => (Public(disk) \in Content)'
BY PublicType, PTL

\* Two contents that differ in facts and in items only are of one version.
LEMMA PublicSame ==
  ASSUME NEW c \in Content, NEW d \in Content, c.measures = d.measures, c.rest = d.rest,
         \A m \in Measure \ InFacts : c.cells[m] = d.cells[m]
  PROVE  Public(c) = Public(d)
<1>1. Cells(c, Measure \ InFacts) = Cells(d, Measure \ InFacts)
  BY DEF Cells
<1>2. /\ c = [measures |-> c.measures, rest |-> c.rest, cells |-> c.cells, items |-> c.items]
      /\ d = [measures |-> d.measures, rest |-> d.rest, cells |-> d.cells, items |-> d.items]
  BY DEF Content
<1> QED
  BY <1>1, <1>2 DEF Public, Content

\* A handle holds nothing, or what is stored, or is behind.
ViewLaw ==
  \A h \in Handle : View(h) = IF loadedTx[h] = None THEN Nothing
                              ELSE IF loadedTx[h] = hw THEN Public(disk) ELSE Stale

\* The token says which, by the bases being current.
LEMMA ViewIs == IInv => ViewLaw
<1> SUFFICES ASSUME IInv, NEW h \in Handle
             PROVE  View(h) = IF loadedTx[h] = None THEN Nothing
                              ELSE IF loadedTx[h] = hw THEN Public(disk) ELSE Stale
  BY DEF ViewLaw
<1> DEFINE c == [snap[h] EXCEPT !.cells = [m \in Measure |->
                   IF m \in scope[h] THEN snap[h].cells[m] ELSE disk.cells[m]]]
<1>1. ASSUME loadedTx[h] # None, loadedTx[h] = hw PROVE Public(c) = Public(disk)
  <2>1. Agrees(snap[h], scope[h])
    BY <1>1 DEF IInv, HandleInv, TokenInv
  <2>2. snap[h] \in Content /\ disk \in Content
    BY <1>1 DEF IInv, TypeOK
  <2>3. /\ c \in Content /\ c.measures = snap[h].measures /\ c.rest = snap[h].rest
        /\ \A m \in Measure : c.cells[m] = IF m \in scope[h] THEN snap[h].cells[m] ELSE disk.cells[m]
    BY <2>2 DEF Content
  <2> HIDE DEF c
  <2>4. c.measures = disk.measures /\ c.rest = disk.rest
    BY <2>1, <2>3 DEF Agrees
  <2>5. \A m \in Measure \ InFacts : c.cells[m] = disk.cells[m]
    BY <2>1, <2>3 DEF Agrees
  <2> QED
    BY <2>2, <2>3, <2>4, <2>5, PublicSame
<1> QED
  BY <1>1 DEF View

\* The same after a step.
LEMMA ViewNext == IInv' => ViewLaw'
BY ViewIs, PTL

\* A step that moves no mark and changes no more than facts and items is none of the store's.
LEMMA NoStep ==
  ASSUME IInv, IInv', UNCHANGED <<hw, loadedTx>>, Public(disk)' = Public(disk)
  PROVE  UNCHANGED Abstract!vars
<1>1. \A h \in Handle : View(h)' = View(h)
  BY ViewIs, ViewNext DEF ViewLaw
<1> QED
  BY <1>1 DEF Abstract!vars

\* Minting changes nothing that a version covers.
LEMMA MintPublic ==
  ASSUME TypeOK, TypeOK', backend' = backend, NEW minted \in Items, disk' = [disk EXCEPT !.items = minted]
  PROVE  Public(disk)' = Public(disk)
<1>1. /\ disk'.measures = disk.measures /\ disk'.rest = disk.rest /\ disk'.cells = disk.cells
      /\ disk \in Content /\ disk' \in Content
  BY DEF TypeOK, Content
<1> DEFINE d == disk'
<1>2. Public(d) = Public(disk)
  <2> HIDE DEF d
  <2> QED
    BY <1>1, PublicSame DEF d
<1> QED
  BY <1>2 DEF Public, Cells, InFacts, Pg

\* A load that ends is a Read: of what is stored, or of what no longer is.
LEMMA LoadedReads ==
  ASSUME IInv, IInv', NEW h \in Handle, NEW tx \in 1 .. MaxTx, NEW S, NEW c, Loaded(h, tx, S, c),
         hw' = hw, Public(disk)' = Public(disk)
  PROVE  Abstract!Next
<1>1. hw' = hw
  OBVIOUS
<1>2. Public(disk)' = Public(disk)
  OBVIOUS
<1>3. /\ loadedTx'[h] = tx /\ tx # None
      /\ \A g \in Handle \ {h} : loadedTx'[g] = loadedTx[g]
  BY ConstantsAssumption DEF Loaded, IInv, TypeOK
<1>4. \A g \in Handle \ {h} : View(g)' = View(g)
  BY <1>1, <1>2, <1>3, ViewIs, ViewNext DEF ViewLaw
<1>5. View(h)' \in {Public(disk), Stale}
  BY <1>2, <1>3, ViewNext DEF ViewLaw
<1>6. Views' = [Views EXCEPT ![h] = View(h)']
  BY <1>4 DEF Views
<1>7. Abstract!Read(h)
  BY <1>2, <1>5, <1>6 DEF Abstract!Read, Views
<1> QED
  BY <1>7 DEF Abstract!Next

\* A handle that is closed, by itself or after it has moved the mark, forgets.
LEMMA ClosedForgets ==
  ASSUME IInv, IInv', NEW h \in Handle, Closed(h), UNCHANGED <<backend, disk>>, hw' = hw \/ hw' > hw
  PROVE  Abstract!Next
<1> DEFINE H == IF hw' = hw THEN {} ELSE Handle
<1>1. InFacts' = InFacts
  BY DEF InFacts, Pg
<1>2. Public(disk)' = Public(disk)
  BY <1>1 DEF Public, Cells
<1>3. /\ loadedTx'[h] = None
      /\ \A g \in Handle \ {h} : loadedTx'[g] = loadedTx[g]
  BY DEF Closed, IInv, TypeOK
<1>4. View(h)' = Nothing
  BY <1>3, ViewNext DEF ViewLaw
<1>5. \A g \in Handle : loadedTx[g] # None => loadedTx[g] \in Int /\ loadedTx[g] <= hw
  BY DEF IInv, TypeOK, HandleInv, TokenInv
<1>6. hw \in Int /\ hw' \in Int
  BY DEF IInv, TypeOK
<1>7. Public(disk) # Nothing
  BY PublicType, ViewsAssumption DEF IInv
<1>8. ASSUME NEW g \in Handle \ {h} PROVE View(g)' = IF g \in H THEN Abstract!Expired(g) ELSE View(g)
  <2>1. CASE hw' = hw
    BY <1>2, <1>3, <2>1, ViewIs, ViewNext DEF ViewLaw
  <2>2. CASE hw' # hw
    <3>1. loadedTx[g] # None => loadedTx'[g] # hw'
      BY <1>3, <1>5, <1>6, <2>2
    <3>2. View(g)' = IF loadedTx[g] = None THEN Nothing ELSE Stale
      BY <1>3, <3>1, ViewNext DEF ViewLaw
    <3>3. View(g) = Nothing <=> loadedTx[g] = None
      BY <1>7, ViewIs, ViewsAssumption DEF ViewLaw
    <3> QED
      BY <2>2, <3>2, <3>3 DEF Abstract!Expired
  <2> QED
    BY <2>1, <2>2
<1>9. Abstract!Forget(H, h)
  BY <1>2, <1>4, <1>8 DEF Abstract!Forget
<1>10. H \in SUBSET Handle
  OBVIOUS
<1> HIDE DEF H
<1> QED
  BY <1>9, <1>10 DEF Abstract!Next

\* A committed save is a Save or an Overwrite; one that changed nothing is a Read.
LEMMA CommitSaves ==
  ASSUME IInv, IInv', NEW h \in Handle, NEW c \in Content, NEW tx \in 1 .. MaxTx, Commit(h, c, tx),
         ~Moved(h), tx > hw \/ (tx = hw /\ c = disk)
  PROVE  Abstract!Next
<1>1. disk' = c /\ hw' = tx /\ backend' = backend /\ InFacts' = InFacts
  BY DEF Commit, InFacts, Pg
<1>2. /\ loadedTx'[h] = tx /\ tx # None
      /\ \A g \in Handle \ {h} : loadedTx'[g] = loadedTx[g]
  BY ConstantsAssumption DEF Commit, IInv, TypeOK
<1>3. View(h)' = Public(disk)'
  BY <1>1, <1>2, ViewNext DEF ViewLaw
<1>4. CASE tx = hw /\ c = disk
  <2>1. Public(disk)' = Public(disk)
    BY <1>1, <1>4 DEF Public, Cells
  <2>2. \A g \in Handle \ {h} : View(g)' = View(g)
    BY <1>1, <1>2, <1>4, <2>1, ViewIs, ViewNext DEF ViewLaw
  <2>3. Views' = [Views EXCEPT ![h] = Public(disk)]
    BY <1>3, <2>1, <2>2 DEF Views
  <2>4. Abstract!Read(h)
    BY <2>1, <2>3 DEF Abstract!Read, Views
  <2> QED
    BY <2>4 DEF Abstract!Next
<1>5. CASE tx > hw
  <2>1. \A g \in Handle : loadedTx[g] # None => loadedTx[g] \in Int /\ loadedTx[g] <= hw
    BY DEF IInv, TypeOK, HandleInv, TokenInv
  <2>2. hw \in Int /\ tx \in Int
    BY DEF IInv, TypeOK
  <2>3. Public(disk) # Nothing /\ Public(disk)' \in Content
    BY PublicType, PublicNext, ViewsAssumption DEF IInv
  <2>4. ASSUME NEW g \in Handle \ {h} PROVE View(g)' = Abstract!Expired(g)
    <3>1. loadedTx[g] # None => loadedTx'[g] # hw'
      BY <1>1, <1>2, <1>5, <2>1, <2>2
    <3>2. View(g)' = IF loadedTx[g] = None THEN Nothing ELSE Stale
      BY <1>2, <3>1, ViewNext DEF ViewLaw
    <3>3. View(g) = Nothing <=> loadedTx[g] = None
      BY <2>3, ViewIs, ViewsAssumption DEF ViewLaw
    <3> QED
      BY <3>2, <3>3 DEF Abstract!Expired
  <2>5. Abstract!Replace(h)
    BY <1>3, <2>3, <2>4 DEF Abstract!Replace
  <2>6. View(h) = Public(disk) \/ View(h) = Nothing
    BY ViewIs DEF ViewLaw, Moved
  <2> QED
    BY <2>5, <2>6 DEF Abstract!Next, Abstract!Save, Abstract!Overwrite
<1> QED
  BY <1>4, <1>5

\* Every step of the store's is a step of VersionedStore, or none.
LEMMA NextRefines ==
  ASSUME Orderly, IInv, IInv', [Next]_vars
  PROVE  [Abstract!Next]_Abstract!vars
<1> TypeOK /\ TypeOK'
  BY DEF IInv
<1>1. ASSUME UNCHANGED <<backend, disk, hw, loadedTx>> PROVE UNCHANGED Abstract!vars
  <2>1. Public(disk)' = Public(disk)
    BY <1>1 DEF Public, Cells, InFacts, Pg
  <2> QED
    BY <1>1, <2>1, NoStep
<1>2. ASSUME NEW h \in Handle, Load(h) PROVE Abstract!Next \/ UNCHANGED Abstract!vars
  <2>1. CASE UNCHANGED <<backend, disk, hw, loadedTx>>
    BY <1>1, <2>1
  <2>2. ASSUME NEW tx \in 1 .. MaxTx, NEW S, NEW c, Loaded(h, tx, S, c), UNCHANGED store PROVE Abstract!Next
    <3>1. hw' = hw /\ Public(disk)' = Public(disk)
      BY <2>2 DEF store, Public, Cells, InFacts, Pg
    <3> QED
      BY <2>2, <3>1, LoadedReads
  <2>3. CASE LoadCells(h)
    <3>1. part[h].tx \in 1 .. MaxTx
      BY <2>3 DEF LoadCells, TypeOK, Loading, Partial
    <3> QED
      BY <2>1, <2>2, <2>3, <3>1 DEF LoadCells, store, token
  <2>4. CASE LoadMeta(h)
    <3>1. part[h].tx \in 1 .. MaxTx
      BY <2>4 DEF LoadMeta, TypeOK, Loading, Partial
    <3> QED
      BY <2>1, <2>2, <2>4, <3>1 DEF LoadMeta, store, token
  <2>5. ASSUME NEW S, LoadPg(h, S) PROVE Abstract!Next \/ UNCHANGED Abstract!vars
    <3>1. hw \in 1 .. MaxTx
      BY DEF TypeOK
    <3> QED
      BY <2>1, <2>2, <2>5, <3>1 DEF LoadPg, store, token
  <2>6. ASSUME NEW S, NEW all, BeginLoad(h, S, all) PROVE UNCHANGED <<backend, disk, hw, loadedTx>>
    BY <2>6 DEF BeginLoad, store, token
  <2>7. LoadMeasures(h) => UNCHANGED <<backend, disk, hw, loadedTx>>
    BY DEF LoadMeasures, store, token
  <2>8. CASE Mint(h)
    <3>1. PICK minted \in Items :
            /\ disk' = [disk EXCEPT !.items = minted]
            /\ Loaded(h, part[h].tx, part[h].scope, Joined(part[h], minted))
      BY <2>8 DEF Mint
    <3>2. part[h].tx \in 1 .. MaxTx /\ hw' = hw /\ backend' = backend
      BY <2>8 DEF Mint, TypeOK, Loading, Partial
    <3> QED
      BY <3>1, <3>2, MintPublic, LoadedReads
  <2>9. CASE MintFails(h)
    BY <2>9, MintPublic, NoStep DEF MintFails, token
  <2> QED
    BY <1>2, <2>1, <2>3, <2>4, <2>5, <2>6, <2>7, <2>8, <2>9 DEF Load
<1>3. ASSUME NEW h \in Handle, Edit(h) PROVE UNCHANGED <<backend, disk, hw, loadedTx>>
  BY <1>3 DEF Edit, SetCell, AddMeasure, DropMeasure, AddItem, DropItem, EditRest, Discard, Edited, store, token
<1>4. ASSUME NEW h \in Handle, Write(h) PROVE Abstract!Next \/ UNCHANGED Abstract!vars
  <2>1. CASE UNCHANGED <<backend, disk, hw, loadedTx>>
    BY <1>1, <2>1
  <2>2. ASSUME NEW kind \in {"model", "changes"}, SaveMentat(h, kind) \/ SavePg(h, kind)
        PROVE  Abstract!Next \/ UNCHANGED Abstract!vars
    <3>1. CASE Refuse(h)
      BY <2>1, <3>1 DEF Refuse, store, token
    <3>2. CASE ~Refuse(h)
      BY <2>2, <3>2, SaveOutcomes, CommitSaves
    <3> QED
      BY <3>1, <3>2
  <2>3. CASE SavePolicies(h)
    <3>1. Closed(h) /\ UNCHANGED <<backend, disk>> /\ hw' = newest + 1
      BY <2>3 DEF SavePolicies, Orderly, InTime
    <3>2. hw' > hw
      BY <3>1 DEF IInv, StoreInv, TypeOK
    <3> QED
      BY <3>1, <3>2, ClosedForgets
  <2>4. ASSUME NEW what, FreshForWrite(h, what) PROVE UNCHANGED <<backend, disk, hw, loadedTx>>
    BY <2>4 DEF FreshForWrite, store, token
  <2>5. SaveFails(h) \/ SetPoliciesPg(h) => UNCHANGED <<backend, disk, hw, loadedTx>>
    BY DEF SaveFails, SetPoliciesPg, Refuse, store, token
  <2> QED
    BY <1>4, <2>1, <2>2, <2>3, <2>4, <2>5 DEF Write, Save
<1>5. ASSUME NEW h \in Handle, Open(h) PROVE UNCHANGED <<backend, disk, hw, loadedTx>>
  BY <1>5 DEF Open, store, token
<1>6. ASSUME NEW h \in Handle, Close(h) PROVE Abstract!Next
  BY <1>6, ClosedForgets DEF Close, store
<1>7. ASSUME NEW m \in Measure, NEW v \in FactValue, WriteFact(m, v) PROVE UNCHANGED Abstract!vars
  <2>1. hw' = hw /\ loadedTx' = loadedTx /\ backend' = backend /\ InFacts' = InFacts
    BY <1>7 DEF WriteFact, token, InFacts, Pg
  <2>2. m \in InFacts /\ disk' = [disk EXCEPT !.cells[m] = v] /\ disk \in Content /\ disk' \in Content
    BY <1>7 DEF WriteFact, IInv, TypeOK
  <2>3. /\ disk'.measures = disk.measures /\ disk'.rest = disk.rest
        /\ \A n \in Measure \ InFacts : disk'.cells[n] = disk.cells[n]
    BY <2>2 DEF Content
  <2> DEFINE d == disk'
  <2>4. Public(d) = Public(disk)
    <3> HIDE DEF d
    <3> QED
      BY <2>2, <2>3, PublicSame DEF d
  <2>5. Public(disk)' = Public(disk)
    BY <2>1, <2>4 DEF Public, Cells
  <2> QED
    BY <2>1, <2>5, NoStep
<1>8. ASSUME NEW N \in SUBSET Name, WriteRows(N) PROVE UNCHANGED <<backend, disk, hw, loadedTx>>
  BY <1>8 DEF WriteRows, token
<1>9. UNCHANGED vars => UNCHANGED <<backend, disk, hw, loadedTx>>
  BY DEF vars, store, token
<1> QED
  BY <1>1, <1>2, <1>3, <1>4, <1>5, <1>6, <1>7, <1>9, <1>8 DEF Next

\* Both backends implement VersionedStore for what a version covers, the structure
\* and the cells that are not in fact tables: a save is taken from a handle that holds
\* what is stored of it or that has loaded nothing, and no other step changes it,
\* although a Mentat handle loads in parts, and a Postgres one shares its fact tables
\* with SQL and mints items in a load.  Items and facts change under a version.
THEOREM Versioned ==
  ASSUME Orderly
  PROVE  Spec => IsVersioned
<1>1. Init => Abstract!Init
  <2> SUFFICES ASSUME Init PROVE Abstract!Init
    OBVIOUS
  <2>1. Public(disk) \in Content
    BY InitTypes, PublicType
  <2>2. \A h \in Handle : View(h) = Nothing
    BY DEF Init, View
  <2> QED
    BY <2>1, <2>2 DEF Abstract!Init
<1>2. IInv /\ IInv' /\ [Next]_vars => [Abstract!Next]_Abstract!vars
  BY NextRefines
<1> QED
  BY <1>1, <1>2, Invariant, PTL DEF Spec, IsVersioned, Abstract!Spec
=============================================================================
