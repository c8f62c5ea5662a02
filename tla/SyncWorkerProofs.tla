-------------------------- MODULE SyncWorkerProofs --------------------------
(***************************************************************************)
(* Proofs about SyncWorker for every set of models, relations, bindings    *)
(* and bounds.                                                             *)
(***************************************************************************)
EXTENDS SyncWorker, TLAPS, WellFoundedInduction

-----------------------------------------------------------------------------
(* The inductive invariant behind NoLostChange. *)

\* data holds change i as far as it concerns model m.
HoldsChange(m, data, i) == \A r \in wal[i].sent \cap Binds[m] : data[r] >= i

Decoding == pc \in {"models", "finish", "advance"}

\* Positions lie in the WAL, and every round starts past the slot.
Positions ==
  /\ slot.at <= Len(wal)
  /\ \A m \in Model : sync[m].confirmed <= Len(wal)
  /\ \A m \in Model : inflight[m].on =>
       /\ slot.at < inflight[m].first
       /\ inflight[m].first <= inflight[m].last
       /\ inflight[m].last <= Len(wal)

\* A snapshot shows every commit, so a load holds every change.
TablesHold ==
  /\ hidden = {}
  /\ \A i \in Txns : wal[i].sent \subseteq wal[i].rels
  /\ \A i \in Txns : \A r \in wal[i].rels : table[r] >= i

\* What was decoded lies between the slot and upto.
DecodedPastSlot == Decoding => \A i \in done : slot.at < i /\ i <= upto

\* Nothing published between the slot and upto was left out.
DecodedAll ==
  Decoding => \A i \in Txns : slot.at < i /\ i <= upto /\ wal[i].sent # {} => i \in done

\* A model has its live state in one place, and a model that waits in none.
OneLive ==
  \A m \in Model :
    /\ inflight[m].on => ~live[m].on
    /\ m \in waiting => ~live[m].on /\ ~inflight[m].on

\* Which models a sweep still has to visit, and what it knows of them.
Visits ==
  /\ pc \in {"idle", "finish", "advance"} => todo = {}
  /\ pc \in {"slot", "reset", "peek"} =>
       \A m \in Model \ todo : ~live[m].on /\ ~inflight[m].on
  /\ pc = "reset" => \A m \in Model : ~inflight[m].on
  /\ \A m \in todo : sync[m].caughtUp => listed[m].confirmed <= sync[m].confirmed
  /\ \A m \in Model \ logical : ~sync[m].caughtUp

\* A live state the worker goes on from holds what will not be decoded again.
LiveHolds ==
  pc # "reset" =>
    \A m \in Model : live[m].on /\ sync[m].caughtUp =>
      \A i \in Txns : i <= slot.at \/ i <= sync[m].confirmed
                         => HoldsChange(m, live[m].data, i)

\* A round holds every change up to the last of its batch.
RoundHolds ==
  \A m \in Model : inflight[m].on =>
    \A i \in Txns : i <= inflight[m].last => HoldsChange(m, inflight[m].data, i)

\* The slot may move past change i in this sweep, the running rounds apart.
MayPass(i) == i <= upto /\ \A h \in held : i < h

\* A model this sweep is done with holds what the slot may move past.
VisitedHold ==
  Decoding => \A m \in Model \ todo : \A i \in Txns : MayPass(i) =>
    /\ live[m].on /\ sync[m].caughtUp => HoldsChange(m, live[m].data, i)
    /\ inflight[m].on => HoldsChange(m, inflight[m].data, i)

IInv ==
  /\ Positions
  /\ TablesHold
  /\ DecodedPastSlot
  /\ DecodedAll
  /\ OneLive
  /\ Visits
  /\ LiveHolds
  /\ RoundHolds
  /\ VisitedHold

-----------------------------------------------------------------------------
(* Max and Min of a bounded set of naturals. *)

LEMMA MinOf ==
  ASSUME NEW S \in SUBSET Nat, S # {}
  PROVE  Min(S) \in S /\ \A y \in S : Min(S) <= y
<1> DEFINE R == {ss \in Nat \X Nat : ss[1] < ss[2]}
<1>1. OpToRel(<, Nat) = R
  BY DEF OpToRel
<1> HIDE DEF R
<1>2. IsWellFoundedOn(R, Nat)
  BY <1>1, NatLessThanWellFounded, Zenon
<1>3. PICK x \in S : \A y \in S : ~(<<y, x>> \in R)
  BY <1>2, WFMin
<1>4. ASSUME NEW y \in S PROVE x <= y
  <2>1. x \in Nat /\ y \in Nat
    OBVIOUS
  <2>2. y < x => <<y, x>> \in R
    BY <2>1 DEF R
  <2> QED
    BY <1>3, <2>1, <2>2
<1> QED
  BY <1>4 DEF Min

LEMMA MaxOf ==
  ASSUME NEW n \in Nat, NEW S \in SUBSET (0 .. n), S # {}
  PROVE  Max(S) \in S /\ \A y \in S : y <= Max(S)
<1> DEFINE T == {k \in 0 .. n : n - k \in S}
<1>1. T \in SUBSET Nat
  OBVIOUS
<1>2. ASSUME NEW y \in S PROVE y \in 0 .. n /\ n - y \in T
  OBVIOUS
<1>3. ASSUME NEW k \in T PROVE k \in 0 .. n /\ n - k \in S
  OBVIOUS
<1> HIDE DEF T
<1>4. T # {}
  BY <1>2
<1> DEFINE low == Min(T)
<1>5. low \in T /\ \A k \in T : low <= k
  BY <1>1, <1>4, MinOf
<1> HIDE DEF low
<1>6. low \in 0 .. n /\ n - low \in S
  BY <1>3, <1>5
<1>7. ASSUME NEW y \in S PROVE y <= n - low
  <2>1. low <= n - y
    BY <1>2, <1>5
  <2> QED
    BY <1>2, <1>6, <2>1
<1>8. \E x \in S : \A y \in S : x >= y
  BY <1>2, <1>6, <1>7
<1> QED
  BY <1>2, <1>8 DEF Max

-----------------------------------------------------------------------------
(* Types. *)

LEMMA NoneTypes ==
  /\ Empty \in Contents
  /\ Unsynced \in SyncRows
  /\ NoLive \in LiveStates
  /\ NoRound \in Rounds
  /\ NotListed \in ListedRows
  /\ ~NoLive.on /\ ~NoRound.on /\ ~Unsynced.caughtUp /\ Unsynced.confirmed = 0
  BY DEF Empty, Unsynced, NoLive, NoRound, NotListed, Contents, SyncRows, LiveStates, Rounds,
         ListedRows

\* The types of single rows and records, once.
LEMMA RowTypes ==
  ASSUME TypeOK
  PROVE  /\ Len(wal) \in Nat
         /\ Txns \subseteq Nat
         /\ hidden \subseteq Txns /\ done \subseteq Txns
         /\ \A i \in Txns : wal[i] \in Transactions
         /\ \A m \in Model :
              /\ version[m] \in Nat
              /\ sync[m] \in SyncRows
              /\ res[m] \in Results
              /\ live[m] \in LiveStates
              /\ inflight[m] \in Rounds
              /\ listed[m] \in ListedRows
  BY DEF TypeOK, DatabaseOK, MemoryOK, SweepOK, Txns

\* The highest of a set of decoded positions.
LEMMA MaxTxns ==
  ASSUME TypeOK, NEW S \in SUBSET Txns
  PROVE  /\ Max({0} \cup S) \in 0 .. Len(wal)
         /\ S # {} => Max(S) \in S /\ Min(S) \in S
         /\ S # {} => \A i \in S : i <= Max(S) /\ Min(S) <= i
<1>1. Len(wal) \in Nat
  BY RowTypes
<1>2. S \in SUBSET (0 .. Len(wal)) /\ {0} \cup S \in SUBSET (0 .. Len(wal)) /\ S \in SUBSET Nat
  BY <1>1 DEF Txns
<1>3. Max({0} \cup S) \in {0} \cup S
  BY <1>1, <1>2, MaxOf
<1>4. S # {} => Max(S) \in S /\ \A i \in S : i <= Max(S)
  BY <1>1, <1>2, MaxOf
<1>5. S # {} => Min(S) \in S /\ \A i \in S : Min(S) <= i
  BY <1>2, MinOf
<1> QED
  BY <1>2, <1>3, <1>4, <1>5

\* A load, and what a rebuild makes of it.
LEMMA LoadType ==
  ASSUME TypeOK, NEW m \in Model
  PROVE  /\ Load(m) \in Contents
         /\ Rebuilt(m) \in LiveStates
         /\ Computed(m) \in Results
  BY DEF TypeOK, DatabaseOK, Load, Rebuilt, Computed, Contents, LiveStates, Results

LEMMA PartitionsType ==
  ASSUME TypeOK, NEW m \in Model
  PROVE  Partitions(m) \in Nat
<1>1. {i \in Txns : wal[i].moved /\ wal[i].rels \cap Binds[m] # {}} \in SUBSET Txns
  OBVIOUS
<1>2. Partitions(m) \in 0 .. Len(wal)
  BY <1>1, MaxTxns DEF Partitions
<1> QED
  BY <1>2

LEMMA MappedType ==
  ASSUME TypeOK, NEW m \in Model, NEW data \in Contents, NEW txns \in SUBSET Txns
  PROVE  Mapped(m, data, txns) \in Contents
<1>1. ASSUME NEW r \in Rel PROVE Mapped(m, data, txns)[r] \in Nat
  <2> DEFINE w == {i \in txns : r \in wal[i].sent \cap Binds[m]}
  <2>1. w \in SUBSET Txns
    OBVIOUS
  <2>2. Mapped(m, data, txns)[r] = IF w = {} THEN data[r] ELSE Max(w)
    BY DEF Mapped
  <2>3. Txns \subseteq Nat
    BY RowTypes
  <2> HIDE DEF w
  <2>4. w # {} => Max(w) \in Nat
    BY <2>1, <2>3, MaxTxns
  <2>5. data[r] \in Nat
    BY DEF Contents
  <2> QED
    BY <2>2, <2>4, <2>5
<1> QED
  BY <1>1 DEF Mapped, Contents

\* The state a tick goes on from.
LEMMA CurrentType ==
  ASSUME TypeOK, NEW m \in Model
  PROVE  /\ KeptLive(m) \in LiveStates
         /\ Taken(m) \in LiveStates
         /\ Current(m) \in LiveStates
         /\ Unapplied(m) \in SUBSET Txns
<1>1. live[m] \in LiveStates
  BY RowTypes
<1>2. KeptLive(m) \in LiveStates
  BY <1>1, NoneTypes DEF KeptLive
<1>3. Taken(m) \in LiveStates
  BY <1>2, NoneTypes DEF Taken
<1>4. Current(m) \in LiveStates
  BY <1>3, LoadType DEF Current
<1>5. Unapplied(m) \in SUBSET Txns
  BY RowTypes DEF Unapplied, Routed
<1> QED
  BY <1>2, <1>3, <1>4, <1>5

LEMMA RecordType ==
  ASSUME TypeOK, NEW m \in Model, NEW lsn \in Nat \cup {None}, Record(m, lsn)
  PROVE  sync' \in [Model -> SyncRows]
  BY RowTypes DEF TypeOK, DatabaseOK, SyncRows, Record

\* A batch with nothing in it changes nothing.
LEMMA MappedNone ==
  ASSUME NEW m \in Model, NEW data \in Contents
  PROVE  Mapped(m, data, {}) = data
  BY DEF Mapped, Contents

LEMMA MaxOfTwo ==
  ASSUME NEW a \in Nat, NEW b \in Nat
  PROVE  Max({a, b}) \in Nat /\ a <= Max({a, b}) /\ Max({a, b}) \in {a, b}
<1>1. \E x \in {a, b} : \A y \in {a, b} : x >= y
  <2>1. CASE a >= b
    BY <2>1
  <2>2. CASE ~(a >= b)
    BY <2>2
  <2> QED
    BY <2>1, <2>2
<1> QED
  BY <1>1 DEF Max

\* Where live::slot_hold stops: below the batch it waits for.
LEMMA HoldBeforeOf ==
  ASSUME TypeOK, NEW first \in Nat
  PROVE  HoldBefore(first) \in Nat /\ (HoldBefore(first) = 0 \/ HoldBefore(first) < first)
<1> DEFINE S == {0} \cup {i \in done : i < first}
<1>1. S \in SUBSET (0 .. Len(wal)) /\ S # {} /\ Len(wal) \in Nat
  BY RowTypes DEF Txns
<1>2. Max(S) \in S
  BY <1>1, MaxOf
<1> QED
  BY <1>1, <1>2 DEF HoldBefore

\* The slot never moves past what was decoded, nor into a batch it waits for.
LEMMA SlotTargetOf ==
  ASSUME TypeOK
  PROVE  /\ SlotTarget \in Nat
         /\ SlotTarget <= upto
         /\ \A h \in Holds : SlotTarget <= HoldBefore(h)
<1> DEFINE S == {upto} \cup {HoldBefore(first) : first \in Holds}
<1>1. Holds \subseteq Nat
  BY RowTypes DEF TypeOK, SweepOK, Holds, Rounds
<1>2. S \in SUBSET Nat /\ S # {}
  <2>1. \A h \in Holds : HoldBefore(h) \in Nat
    BY <1>1, HoldBeforeOf
  <2>2. upto \in Nat
    BY RowTypes DEF TypeOK, SweepOK
  <2> QED
    BY <2>1, <2>2
<1>3. Min(S) \in S /\ \A y \in S : Min(S) <= y
  BY <1>2, MinOf
<1> QED
  BY <1>2, <1>3 DEF SlotTarget

LEMMA EndSweepType ==
  ASSUME TypeOK, EndSweep, UNCHANGED wal
  PROVE  SweepOK'
  BY NoneTypes DEF TypeOK, DatabaseOK, SweepOK, EndSweep, Txns

LEMMA StartsType ==
  ASSUME TypeOK, NEW m \in Model, Starts(m)
  PROVE  SweepOK' /\ parts' \in [Model -> Nat \cup {None}]
  BY RowTypes DEF TypeOK, MemoryOK, SweepOK, ListedRows, Starts, Visit, Txns

LEMMA CollectType ==
  ASSUME TypeOK, NEW m \in Model, Collect(m)
  PROVE  SweepOK' /\ inflight' \in [Model -> Rounds] /\ peekedTo' \in Nat
  BY NoneTypes DEF TypeOK, MemoryOK, SweepOK, Collect, Redecode, Txns, sweep

\* The round a batch starts.
Round(m, txns, data) ==
  [on |-> TRUE, ended |-> FALSE, version |-> version[m], data |-> data,
   touched |-> {r \in Rel : data[r] # Current(m).data[r]},
   first |-> Min(txns), last |-> Max(txns)]

\* Every step keeps the types.
LEMMA TypeStep ==
  ASSUME TypeOK, [Next]_vars
  PROVE  TypeOK'
<1> USE NoneTypes
<1>1. ASSUME NEW rels \in SUBSET Rel, Commit(rels) PROVE TypeOK'
  <2>1. wal' \in Seq(Transactions) /\ Len(wal') = Len(wal) + 1
    BY <1>1 DEF TypeOK, DatabaseOK, Transactions, Commit
  <2>2. hidden' \subseteq Txns' /\ table' \in Contents
    <3>1. hidden' \subseteq hidden \cup {Len(wal) + 1}
      BY <1>1 DEF Commit
    <3>2. \/ table' = [r \in Rel |-> IF r \in rels THEN Len(wal) + 1 ELSE table[r]]
          \/ table' = table
      BY <1>1 DEF Commit
    <3>3. table' \in Contents
      BY <3>2, RowTypes DEF TypeOK, DatabaseOK, Contents
    <3> QED
      BY <2>1, <3>1, <3>3, RowTypes DEF Txns
  <2>3. SweepOK'
    BY <1>1, <2>1 DEF TypeOK, DatabaseOK, SweepOK, Commit, Txns, sweep
  <2> QED
    BY <1>1, <2>1, <2>2, <2>3 DEF TypeOK, DatabaseOK, MemoryOK, Commit, memory
<1>2. ASSUME NEW i \in hidden, Show(i) PROVE TypeOK'
  BY <1>2 DEF TypeOK, DatabaseOK, MemoryOK, SweepOK, Show, Contents, Txns, memory, sweep
<1>3. ASSUME NEW r \in Rel, MovePartition(r) PROVE TypeOK'
  BY <1>3 DEF TypeOK, DatabaseOK, MemoryOK, SweepOK, Transactions, MovePartition, Contents, Txns, memory, sweep
<1>4. ASSUME NEW m \in Model, Define(m) PROVE TypeOK'
  BY <1>4 DEF TypeOK, DatabaseOK, MemoryOK, SweepOK, Define, Txns, memory, sweep
<1>5. ASSUME NEW m \in Model, SetSyncMode(m) PROVE TypeOK'
  BY <1>5 DEF TypeOK, DatabaseOK, MemoryOK, SweepOK, SetSyncMode, Txns, memory, sweep
<1>6. CASE LoseSlot
  BY <1>6 DEF TypeOK, DatabaseOK, MemoryOK, SweepOK, Slots, LoseSlot, Fault, Txns, memory, sweep
<1>7. ASSUME NEW m \in Model, EndRound(m) PROVE TypeOK'
  BY <1>7 DEF TypeOK, DatabaseOK, MemoryOK, SweepOK, Rounds, EndRound, Txns, database, sweep
<1>8. ASSUME NEW m \in Model, Due(m) PROVE TypeOK'
  BY <1>8 DEF TypeOK, DatabaseOK, MemoryOK, SweepOK, Due, Txns, database, sweep
<1>9. CASE Listing
  <2>1. \A m \in Model : Listed(m) \in ListedRows
    BY RowTypes, PartitionsType DEF Listed, ListedRows, SyncRows
  <2>2. SweepOK'
    <3>1. CASE logical = {}
      BY <1>9, <3>1, EndSweepType DEF Listing
    <3>2. CASE logical # {}
      <4>1. listed' \in [Model -> ListedRows]
        BY <1>9, <2>1, <3>2 DEF Listing
      <4> QED
        BY <1>9, <3>2, <4>1 DEF TypeOK, DatabaseOK, SweepOK, Listing, Txns
    <3> QED
      BY <3>1, <3>2
  <2>3. MemoryOK'
    BY <1>9 DEF TypeOK, MemoryOK, Listing
  <2>4. slot' \in Slots
    BY <1>9 DEF TypeOK, DatabaseOK, Slots, Listing
  <2>5. DatabaseOK'
    BY <1>9, <2>4 DEF TypeOK, DatabaseOK, Listing, Txns
  <2> QED
    BY <2>2, <2>3, <2>5 DEF TypeOK
<1>10. CASE EnsureSlot
  <2>1. SweepOK'
    <3>1. CASE EndSweep
      BY <1>10, <3>1, EndSweepType DEF EnsureSlot
    <3>2. CASE ~EndSweep
      BY <1>10, <3>2 DEF TypeOK, SweepOK, EnsureSlot, Txns
    <3> QED
      BY <3>1, <3>2
  <2>2. slot' \in Slots /\ faults' \in Nat /\ inflight' \in [Model -> Rounds]
    BY <1>10, RowTypes DEF TypeOK, DatabaseOK, MemoryOK, Slots, EnsureSlot, Fault
  <2> QED
    BY <1>10, <2>1, <2>2 DEF TypeOK, DatabaseOK, MemoryOK, EnsureSlot, Txns
<1>11. CASE ResetProgress
  <2>1. SweepOK'
    <3>1. CASE EndSweep
      BY <1>11, <3>1, EndSweepType DEF ResetProgress
    <3>2. CASE ~EndSweep
      BY <1>11, <3>2 DEF TypeOK, SweepOK, ResetProgress, Txns
    <3> QED
      BY <3>1, <3>2
  <2>2. sync' \in [Model -> SyncRows] /\ faults' \in Nat
    BY <1>11 DEF TypeOK, DatabaseOK, ResetProgress, Fault
  <2> QED
    BY <1>11, <2>1, <2>2 DEF TypeOK, DatabaseOK, MemoryOK, ResetProgress, Txns, memory
<1>12. CASE Peek
  <2>1. SweepOK'
    <3>1. CASE EndSweep
      BY <1>12, <3>1, EndSweepType DEF Peek, database
    <3>2. CASE ~EndSweep
      <4>1. done' \subseteq Txns /\ upto' \in 0 .. Len(wal)
        BY <1>12, <3>2, RowTypes DEF Peek, Txns
      <4>2. pc' = "models" /\ UNCHANGED <<listed, todo, held, wal>>
        BY <1>12, <3>2 DEF Peek, database
      <4> QED
        BY <4>1, <4>2 DEF TypeOK, SweepOK, Txns
    <3> QED
      BY <3>1, <3>2
  <2>2. peekedTo' \in Nat /\ faults' \in Nat
    BY <1>12, RowTypes DEF TypeOK, DatabaseOK, MemoryOK, Peek, Fault
  <2>3. UNCHANGED <<database, live, inflight, waiting, parts>>
    BY <1>12 DEF Peek
  <2> QED
    BY <2>1, <2>2, <2>3 DEF TypeOK, DatabaseOK, MemoryOK, Txns, database
<1>13. ASSUME NEW m \in Model, SkipRunning(m) PROVE TypeOK'
  BY <1>13 DEF TypeOK, DatabaseOK, MemoryOK, SweepOK, Rounds, SkipRunning, Visit, Txns, database, memory
<1>14. ASSUME NEW m \in Model, SkipIdle(m) PROVE TypeOK'
  BY <1>14, CurrentType DEF TypeOK, DatabaseOK, MemoryOK, SweepOK, ListedRows, SkipIdle, Visit, Txns, database
<1>15. ASSUME NEW m \in Model, TickIdle(m) PROVE TypeOK'
  <2>1. Current(m) \in LiveStates /\ Computed(m) \in Results /\ Unapplied(m) \in SUBSET Txns
    BY CurrentType, LoadType
  <2>2. sync' \in [Model -> SyncRows]
    <3>1. CASE Unapplied(m) = {}
      BY <1>15, <3>1, RecordType DEF TickIdle, RecordBuild, TypeOK, DatabaseOK
    <3>2. CASE Unapplied(m) # {}
      <4>1. Max(Unapplied(m)) \in Nat
        BY <2>1, <3>2, MaxTxns, RowTypes
      <4> QED
        BY <1>15, <3>2, <4>1, RecordType DEF TickIdle
    <3> QED
      BY <3>1, <3>2
  <2>3. live' \in [Model -> LiveStates] /\ res' \in [Model -> Results]
    BY <1>15, <2>1 DEF TypeOK, DatabaseOK, MemoryOK, TickIdle
  <2> QED
    BY <1>15, <2>2, <2>3, StartsType DEF TypeOK, DatabaseOK, MemoryOK, TickIdle, Starts, Txns
<1>16. ASSUME NEW m \in Model, TickSubmit(m) PROVE TypeOK'
  <2> DEFINE txns == Unapplied(m)
             data == Mapped(m, Current(m).data, txns)
  <2>1. Current(m) \in LiveStates /\ Computed(m) \in Results /\ txns \in SUBSET Txns
    BY CurrentType, LoadType
  <2>2. Current(m).data \in Contents
    BY <2>1 DEF LiveStates
  <2>3. data \in Contents
    BY <2>1, <2>2, MappedType
  <2>4. txns # {}
    BY <1>16, MappedNone, <2>2 DEF TickSubmit
  <2>5. Round(m, txns, data) \in Rounds
    <3>1. Min(txns) \in Nat /\ Max(txns) \in Nat
      BY <2>1, <2>4, MaxTxns, RowTypes
    <3> HIDE DEF txns, data
    <3> QED
      BY <2>3, <3>1, RowTypes DEF Round, Rounds
  <2>6. inflight' \in [Model -> Rounds] /\ live' \in [Model -> LiveStates]
    BY <1>16, <2>5 DEF TickSubmit, Round, TypeOK, MemoryOK
  <2>7. sync' \in [Model -> SyncRows] /\ res' \in [Model -> Results]
    BY <1>16, <2>1, RecordType DEF TickSubmit, RecordBuild, TypeOK, DatabaseOK
  <2> QED
    BY <1>16, <2>6, <2>7, StartsType DEF TypeOK, DatabaseOK, MemoryOK, TickSubmit, Starts, Txns
<1>17. ASSUME NEW m \in Model, TickRebuild(m) PROVE TypeOK'
  <2>1. Rebuilt(m) \in LiveStates /\ Computed(m) \in Results
    BY LoadType
  <2>2. Max(Unapplied(m)) \in Nat
    BY <1>17, CurrentType, MaxTxns, RowTypes DEF TickRebuild
  <2>3. sync' \in [Model -> SyncRows]
    BY <1>17, <2>2, RecordType DEF TickRebuild
  <2>4. live' \in [Model -> LiveStates] /\ res' \in [Model -> Results]
    BY <1>17, <2>1 DEF TypeOK, DatabaseOK, MemoryOK, TickRebuild
  <2> QED
    BY <1>17, <2>3, <2>4, StartsType DEF TypeOK, DatabaseOK, MemoryOK, TickRebuild, Starts, Txns
<1>18. ASSUME NEW m \in Model, TickFail(m) PROVE TypeOK'
  <2>1. faults' \in Nat /\ live' \in [Model -> LiveStates] /\ waiting' \subseteq Model
    BY <1>18 DEF TypeOK, DatabaseOK, MemoryOK, TickFail, Fault
  <2> QED
    BY <1>18, <2>1, StartsType DEF TypeOK, DatabaseOK, MemoryOK, TickFail, Starts, Txns
<1>19. CASE Visited
  BY <1>19 DEF TypeOK, DatabaseOK, MemoryOK, SweepOK, Visited, Txns, database, memory
<1>20. ASSUME NEW m \in Model, FinishWrite(m) PROVE TypeOK'
  <2>1. inflight[m] \in Rounds /\ res[m] \in Results
    BY RowTypes
  <2>2. sync' \in [Model -> SyncRows]
    BY <1>20, <2>1, RecordType DEF FinishWrite, Rounds
  <2>3. live' \in [Model -> LiveStates]
    BY <1>20, <2>1 DEF TypeOK, MemoryOK, FinishWrite, Rounds, LiveStates
  <2>4. res' \in [Model -> Results]
    BY <1>20, <2>1 DEF TypeOK, DatabaseOK, FinishWrite, Rounds, Results, Contents
  <2> QED
    BY <1>20, <2>2, <2>3, <2>4, CollectType
    DEF TypeOK, DatabaseOK, MemoryOK, FinishWrite, Collect, Txns
<1>21. ASSUME NEW m \in Model, FinishRebuild(m) PROVE TypeOK'
  <2>1. Rebuilt(m) \in LiveStates /\ Computed(m) \in Results
    BY LoadType
  <2>2. sync' \in [Model -> SyncRows]
    BY <1>21, RowTypes, RecordType DEF FinishRebuild, Rounds
  <2>3. live' \in [Model -> LiveStates] /\ res' \in [Model -> Results]
    BY <1>21, <2>1 DEF TypeOK, DatabaseOK, MemoryOK, FinishRebuild
  <2> QED
    BY <1>21, <2>2, <2>3, CollectType
    DEF TypeOK, DatabaseOK, MemoryOK, FinishRebuild, Collect, Txns
<1>22. ASSUME NEW m \in Model, FinishFail(m) PROVE TypeOK'
  BY <1>22 DEF TypeOK, DatabaseOK, MemoryOK, SweepOK, FinishFail, Collect, Redecode, Fault, Txns, sweep
<1>23. CASE Finished
  BY <1>23 DEF TypeOK, DatabaseOK, MemoryOK, SweepOK, Finished, Txns, database, memory
<1>24. CASE Advance
  <2>1. SweepOK'
    BY <1>24, EndSweepType DEF Advance
  <2>2. SlotTarget \in Nat
    BY SlotTargetOf
  <2>3. slot' \in Slots /\ faults' \in Nat
    <3>1. Max({slot.at, SlotTarget}) \in Nat
      BY <2>2, MaxOfTwo DEF TypeOK, DatabaseOK, Slots
    <3> QED
      BY <1>24, <3>1 DEF TypeOK, DatabaseOK, Slots, Advance, Fault
  <2> QED
    BY <1>24, <2>1, <2>3 DEF TypeOK, DatabaseOK, MemoryOK, Advance, Txns, memory
<1>25. CASE Crash
  BY <1>25 DEF TypeOK, DatabaseOK, MemoryOK, SweepOK, Crash, EndSweep, Fault, Txns, database, None
<1>26. CASE UNCHANGED vars
  BY <1>26 DEF TypeOK, DatabaseOK, MemoryOK, SweepOK, vars, Txns, database, memory, sweep
<1> QED
  BY <1>1, <1>2, <1>3, <1>4, <1>5, <1>6, <1>7, <1>8, <1>9, <1>10, <1>11, <1>12, <1>13,
     <1>14, <1>15, <1>16, <1>17, <1>18, <1>19, <1>20, <1>21, <1>22, <1>23, <1>24, <1>25,
     <1>26 DEF Next, Environment, Worker, Tick, Finish

-----------------------------------------------------------------------------
(* Results follow the live state. *)

\* What a tick goes on from is what the results show, or will once it has rebuilt.
LEMMA CurrentFollows ==
  ASSUME TypeOK, ResultsFollowLive, NEW m \in Model
  PROVE  (IF NeedsBuild(m) THEN Computed(m) ELSE res[m])
           = [version |-> Current(m).version, data |-> Current(m).data]
<1>1. CASE NeedsBuild(m)
  BY <1>1 DEF Current, Computed, Rebuilt
<1>2. CASE ~NeedsBuild(m)
  <2>1. Current(m) = live[m] /\ live[m].on
    BY <1>2, NoneTypes DEF Current, NeedsBuild, Taken, KeptLive
  <2> QED
    BY <1>2, <2>1 DEF ResultsFollowLive
<1> QED
  BY <1>1, <1>2

LEMMA ResultsStep ==
  ASSUME TypeOK, ResultsFollowLive, [Next]_vars
  PROVE  ResultsFollowLive'
<1> USE NoneTypes
<1>1. ASSUME NEW rels \in SUBSET Rel, Commit(rels) PROVE ResultsFollowLive'
  BY <1>1 DEF ResultsFollowLive, Commit, memory, sweep
<1>2. ASSUME NEW i \in hidden, Show(i) PROVE ResultsFollowLive'
  BY <1>2 DEF ResultsFollowLive, Show, memory, sweep
<1>3. ASSUME NEW r \in Rel, MovePartition(r) PROVE ResultsFollowLive'
  BY <1>3 DEF ResultsFollowLive, MovePartition, memory, sweep
<1>4. ASSUME NEW m \in Model, Define(m) PROVE ResultsFollowLive'
  BY <1>4 DEF ResultsFollowLive, Define, memory, sweep
<1>5. ASSUME NEW m \in Model, SetSyncMode(m) PROVE ResultsFollowLive'
  BY <1>5 DEF ResultsFollowLive, SetSyncMode, memory, sweep
<1>6. CASE LoseSlot
  BY <1>6 DEF ResultsFollowLive, LoseSlot, memory, sweep
<1>7. ASSUME NEW m \in Model, EndRound(m) PROVE ResultsFollowLive'
  BY <1>7, RowTypes DEF ResultsFollowLive, Rounds, TypeOK, MemoryOK, EndRound, database, sweep
<1>8. ASSUME NEW m \in Model, Due(m) PROVE ResultsFollowLive'
  BY <1>8 DEF ResultsFollowLive, Due, database, sweep
<1>9. CASE Listing
  BY <1>9 DEF ResultsFollowLive, Listing, EndSweep
<1>10. CASE EnsureSlot
  BY <1>10 DEF ResultsFollowLive, EnsureSlot, EndSweep
<1>11. CASE ResetProgress
  BY <1>11 DEF ResultsFollowLive, ResetProgress, EndSweep, memory
<1>12. CASE Peek
  BY <1>12 DEF ResultsFollowLive, Peek, EndSweep, database
<1>13. ASSUME NEW m \in Model, SkipRunning(m) PROVE ResultsFollowLive'
  BY <1>13 DEF ResultsFollowLive, SkipRunning, Visit, database, memory
<1>14. ASSUME NEW m \in Model, SkipIdle(m) PROVE ResultsFollowLive'
  <2>1. ASSUME NEW o \in Model, live'[o].on PROVE live'[o] = live[o]
    BY <1>14, <2>1 DEF SkipIdle, KeptLive, TypeOK, MemoryOK
  <2> QED
    BY <1>14, <2>1 DEF ResultsFollowLive, SkipIdle, database
<1>15. ASSUME NEW m \in Model, TickIdle(m) PROVE ResultsFollowLive'
  <2>1. res'[m] = [version |-> Current(m).version, data |-> Current(m).data]
    BY <1>15, CurrentFollows DEF TickIdle, TypeOK, DatabaseOK
  <2>2. live'[m] = Current(m) /\ ~inflight'[m].on
    BY <1>15 DEF TickIdle, Starts, TypeOK, MemoryOK
  <2>3. ASSUME NEW o \in Model, o # m
        PROVE  res'[o] = res[o] /\ live'[o] = live[o] /\ inflight'[o] = inflight[o]
    BY <1>15, <2>3 DEF TickIdle
  <2> QED
    BY <2>1, <2>2, <2>3 DEF ResultsFollowLive
<1>16. ASSUME NEW m \in Model, TickSubmit(m) PROVE ResultsFollowLive'
  <2> DEFINE f == Round(m, Unapplied(m), Mapped(m, Current(m).data, Unapplied(m)))
  <2>1. res'[m] = [version |-> Current(m).version, data |-> Current(m).data]
    BY <1>16, CurrentFollows DEF TickSubmit, TypeOK, DatabaseOK
  <2>2. inflight'[m] = f /\ live'[m] = NoLive
    BY <1>16 DEF TickSubmit, Round, TypeOK, MemoryOK
  <2>3. f.version = Current(m).version
    BY DEF Round, Current, NeedsBuild, Rebuilt
  <2>4. \A r \in Rel \ f.touched : f.data[r] = Current(m).data[r]
    BY DEF Round
  <2>5. ASSUME NEW o \in Model, o # m
        PROVE  res'[o] = res[o] /\ live'[o] = live[o] /\ inflight'[o] = inflight[o]
    BY <1>16, <2>5 DEF TickSubmit
  <2> HIDE DEF f
  <2> QED
    BY <2>1, <2>2, <2>3, <2>4, <2>5 DEF ResultsFollowLive
<1>17. ASSUME NEW m \in Model, TickRebuild(m) PROVE ResultsFollowLive'
  <2>1. res'[m] = Computed(m) /\ live'[m] = Rebuilt(m) /\ ~inflight'[m].on
    BY <1>17 DEF TickRebuild, Starts, TypeOK, DatabaseOK, MemoryOK
  <2>2. ASSUME NEW o \in Model, o # m
        PROVE  res'[o] = res[o] /\ live'[o] = live[o] /\ inflight'[o] = inflight[o]
    BY <1>17, <2>2 DEF TickRebuild
  <2> QED
    BY <2>1, <2>2 DEF ResultsFollowLive, Computed, Rebuilt
<1>18. ASSUME NEW m \in Model, TickFail(m) PROVE ResultsFollowLive'
  BY <1>18 DEF ResultsFollowLive, TypeOK, MemoryOK, TickFail
<1>19. CASE Visited
  BY <1>19 DEF ResultsFollowLive, Visited, database, memory
<1>20. ASSUME NEW m \in Model, FinishWrite(m) PROVE ResultsFollowLive'
  <2> DEFINE f == inflight[m]
  <2>1. f \in Rounds /\ res[m] \in Results /\ f.on
    BY <1>20, RowTypes DEF FinishWrite, Collect
  <2>2. res[m].version = f.version /\ \A r \in Rel \ f.touched : res[m].data[r] = f.data[r]
    BY <2>1 DEF ResultsFollowLive
  <2>3. res'[m] = [version |-> f.version, data |-> f.data]
    <3>1. res'[m] = [res[m] EXCEPT !.data = [r \in Rel |-> IF r \in f.touched THEN f.data[r]
                                                         ELSE res[m].data[r]]]
      BY <1>20 DEF FinishWrite, TypeOK, DatabaseOK
    <3>2. [r \in Rel |-> IF r \in f.touched THEN f.data[r] ELSE res[m].data[r]] = f.data
      BY <2>1, <2>2 DEF Rounds, Contents
    <3> QED
      BY <2>1, <2>2, <3>1, <3>2 DEF Results
  <2>4. live'[m] = [on |-> TRUE, version |-> f.version, data |-> f.data] /\ ~inflight'[m].on
    BY <1>20 DEF FinishWrite, Collect, TypeOK, MemoryOK
  <2>5. ASSUME NEW o \in Model, o # m
        PROVE  res'[o] = res[o] /\ live'[o] = live[o] /\ inflight'[o] = inflight[o]
    BY <1>20, <2>5 DEF FinishWrite, Collect, TypeOK, DatabaseOK
  <2> QED
    BY <2>3, <2>4, <2>5 DEF ResultsFollowLive
<1>21. ASSUME NEW m \in Model, FinishRebuild(m) PROVE ResultsFollowLive'
  <2>1. res'[m] = Computed(m) /\ live'[m] = Rebuilt(m) /\ ~inflight'[m].on
    BY <1>21 DEF FinishRebuild, Collect, TypeOK, DatabaseOK, MemoryOK
  <2>2. ASSUME NEW o \in Model, o # m
        PROVE  res'[o] = res[o] /\ live'[o] = live[o] /\ inflight'[o] = inflight[o]
    BY <1>21, <2>2 DEF FinishRebuild, Collect
  <2> QED
    BY <2>1, <2>2 DEF ResultsFollowLive, Computed, Rebuilt
<1>22. ASSUME NEW m \in Model, FinishFail(m) PROVE ResultsFollowLive'
  BY <1>22 DEF ResultsFollowLive, TypeOK, MemoryOK, FinishFail, Collect
<1>23. CASE Finished
  BY <1>23 DEF ResultsFollowLive, Finished, database, memory
<1>24. CASE Advance
  BY <1>24 DEF ResultsFollowLive, Advance, EndSweep, memory
<1>25. CASE Crash
  BY <1>25 DEF ResultsFollowLive, Crash, EndSweep, database
<1>26. CASE UNCHANGED vars
  BY <1>26 DEF ResultsFollowLive, vars, database, memory, sweep
<1> QED
  BY <1>1, <1>2, <1>3, <1>4, <1>5, <1>6, <1>7, <1>8, <1>9, <1>10, <1>11, <1>12,
     <1>13, <1>14, <1>15, <1>16, <1>17, <1>18, <1>19, <1>20, <1>21, <1>22, <1>23,
     <1>24, <1>25, <1>26
  DEF Next, Environment, Worker, Tick, Finish

-----------------------------------------------------------------------------
(* Positions, the decoded transactions and the visits of a sweep. *)

\* record() writes one row, and only of a model in logical mode.
LEMMA RecordOf ==
  ASSUME TypeOK, NEW m \in Model, NEW lsn \in Nat \cup {None}, Record(m, lsn)
  PROVE  /\ \A o \in Model : o # m => sync'[o] = sync[o]
         /\ m \notin logical => sync' = sync
         /\ m \in logical => /\ sync'[m].caughtUp
                             /\ lsn = None => sync'[m].confirmed = sync[m].confirmed
                             /\ lsn # None => sync'[m].confirmed = lsn
  BY RowTypes DEF TypeOK, DatabaseOK, SyncRows, Record

\* A batch: where it starts and ends.
LEMMA BatchOf ==
  ASSUME TypeOK, NEW m \in Model, Unapplied(m) # {}
  PROVE  /\ Min(Unapplied(m)) \in done /\ Max(Unapplied(m)) \in done
         /\ Max(Unapplied(m)) \in Nat /\ Max(Unapplied(m)) <= Len(wal)
         /\ Min(Unapplied(m)) \in Nat /\ Min(Unapplied(m)) <= Max(Unapplied(m))
         /\ \A i \in Unapplied(m) : Min(Unapplied(m)) <= i /\ i <= Max(Unapplied(m))
<1>1. Unapplied(m) \in SUBSET Txns /\ Unapplied(m) \subseteq done
  BY RowTypes DEF Unapplied, Routed
<1>2. Min(Unapplied(m)) \in Unapplied(m) /\ Max(Unapplied(m)) \in Unapplied(m)
  BY <1>1, MaxTxns
<1>3. \A i \in Unapplied(m) : Min(Unapplied(m)) <= i /\ i <= Max(Unapplied(m))
  BY <1>1, MaxTxns
<1> QED
  BY <1>1, <1>2, <1>3, RowTypes DEF Txns

\* The round a tick starts.
LEMMA SubmitOf ==
  ASSUME TypeOK, NEW m \in Model, TickSubmit(m)
  PROVE  /\ Unapplied(m) # {}
         /\ inflight'[m] = Round(m, Unapplied(m), Mapped(m, Current(m).data, Unapplied(m)))
         /\ inflight'[m].on
         /\ inflight'[m].data = Mapped(m, Current(m).data, Unapplied(m))
         /\ inflight'[m].first = Min(Unapplied(m)) /\ inflight'[m].last = Max(Unapplied(m))
         /\ \A o \in Model : o # m => inflight'[o] = inflight[o]
<1>1. Current(m).data \in Contents
  BY CurrentType DEF LiveStates
<1>2. Unapplied(m) # {}
  BY <1>1, MappedNone DEF TickSubmit
<1>3. inflight'[m] = Round(m, Unapplied(m), Mapped(m, Current(m).data, Unapplied(m)))
  BY DEF TickSubmit, Round, TypeOK, MemoryOK
<1>4. \A o \in Model : o # m => inflight'[o] = inflight[o]
  BY DEF TickSubmit
<1> QED
  BY <1>2, <1>3, <1>4 DEF Round

\* Where a tick leaves the model's progress.
LEMMA TickRecords ==
  ASSUME TypeOK, NEW m \in Model, TickIdle(m) \/ TickSubmit(m) \/ TickRebuild(m)
  PROVE  /\ \A o \in Model : o # m => sync'[o] = sync[o]
         /\ NeedsBuild(m) => sync'[m].caughtUp
         /\ sync[m].caughtUp => sync'[m].caughtUp
         /\ ~sync[m].caughtUp => sync'[m].caughtUp
         /\ \/ sync'[m].confirmed = sync[m].confirmed
            \/ Unapplied(m) # {} /\ sync'[m].confirmed = Max(Unapplied(m))
<1>1. m \in logical /\ (~sync[m].caughtUp => NeedsBuild(m))
  BY NoneTypes DEF TickIdle, TickSubmit, TickRebuild, NeedsBuild, Taken
<1>2. CASE Unapplied(m) # {} /\ Record(m, Max(Unapplied(m)))
  <2>1. Max(Unapplied(m)) \in Nat /\ Max(Unapplied(m)) # None
    BY <1>2, BatchOf DEF None
  <2> QED
    BY <1>1, <1>2, <2>1, RecordOf
<1>3. CASE RecordBuild(m)
  <2>1. CASE NeedsBuild(m)
    BY <1>1, <1>3, <2>1, RecordOf DEF RecordBuild
  <2>2. CASE ~NeedsBuild(m)
    BY <1>1, <1>3, <2>2 DEF RecordBuild
  <2> QED
    BY <2>1, <2>2
<1> QED
  BY <1>2, <1>3 DEF TickIdle, TickSubmit, TickRebuild

\* Where finish leaves it.
LEMMA FinishRecords ==
  ASSUME TypeOK, NEW m \in Model, FinishWrite(m) \/ FinishRebuild(m)
  PROVE  /\ \A o \in Model : o # m => sync'[o] = sync[o]
         /\ m \in logical => sync'[m].caughtUp /\ sync'[m].confirmed = inflight[m].last
         /\ m \notin logical => sync'[m] = sync[m]
<1>1. inflight[m].last \in Nat /\ inflight[m].last # None
  BY RowTypes DEF Rounds, None
<1> QED
  BY <1>1, RecordOf DEF FinishWrite, FinishRebuild

LEMMA PositionsStep ==
  ASSUME TypeOK, Positions, DecodedPastSlot, [Next]_vars
  PROVE  Positions'
<1> USE NoneTypes, RowTypes
<1>1. ASSUME NEW rels \in SUBSET Rel, Commit(rels) PROVE Positions'
  <2>1. Len(wal') = Len(wal) + 1
    BY <1>1 DEF Commit, TypeOK, DatabaseOK
  <2> QED
    BY <1>1, <2>1 DEF Positions, Commit, memory, Rounds, SyncRows, TypeOK, DatabaseOK, Slots
<1>2. ASSUME NEW i \in hidden, Show(i) PROVE Positions'
  BY <1>2 DEF Positions, Show, memory, sweep
<1>3. ASSUME NEW r \in Rel, MovePartition(r) PROVE Positions'
  <2>1. Len(wal') = Len(wal) + 1
    BY <1>3 DEF MovePartition, TypeOK, DatabaseOK
  <2> QED
    BY <1>3, <2>1 DEF Positions, MovePartition, memory, Rounds, SyncRows, TypeOK, DatabaseOK, Slots
<1>4. ASSUME NEW m \in Model, Define(m) PROVE Positions'
  BY <1>4 DEF Positions, Define, memory, sweep
<1>5. ASSUME NEW m \in Model, SetSyncMode(m) PROVE Positions'
  BY <1>5 DEF Positions, SetSyncMode, memory, TypeOK, DatabaseOK
<1>6. CASE LoseSlot
  BY <1>6 DEF Positions, LoseSlot, memory, TypeOK, DatabaseOK, Slots
<1>7. ASSUME NEW m \in Model, EndRound(m) PROVE Positions'
  BY <1>7 DEF Positions, EndRound, database, Rounds, TypeOK, MemoryOK
<1>8. ASSUME NEW m \in Model, Due(m) PROVE Positions'
  BY <1>8 DEF Positions, Due, database, sweep
<1>9. CASE Listing
  BY <1>9 DEF Positions, Listing, TypeOK, DatabaseOK, Slots
<1>10. CASE EnsureSlot
  BY <1>10 DEF Positions, EnsureSlot, EndSweep
<1>11. CASE ResetProgress
  BY <1>11 DEF Positions, ResetProgress, EndSweep, memory
<1>12. CASE Peek
  BY <1>12 DEF Positions, Peek, EndSweep, database
<1>13. ASSUME NEW m \in Model, SkipRunning(m) PROVE Positions'
  BY <1>13 DEF Positions, SkipRunning, Visit, database, memory
<1>14. ASSUME NEW m \in Model, SkipIdle(m) PROVE Positions'
  BY <1>14 DEF Positions, SkipIdle, database
<1>15. ASSUME NEW m \in Model, TickIdle(m) PROVE Positions'
  <2>1. \A o \in Model : sync'[o].confirmed <= Len(wal)
    BY <1>15, TickRecords, BatchOf DEF Positions
  <2> QED
    BY <1>15, <2>1 DEF Positions, TickIdle, Starts
<1>16. ASSUME NEW m \in Model, TickSubmit(m) PROVE Positions'
  <2> DEFINE txns == Unapplied(m)
  <2>1. \A o \in Model : sync'[o].confirmed <= Len(wal)
    BY <1>16, TickRecords, BatchOf DEF Positions
  <2>2. inflight'[m].first = Min(txns) /\ inflight'[m].last = Max(txns)
    BY <1>16, SubmitOf
  <2>3. slot.at < Min(txns) /\ Min(txns) <= Max(txns) /\ Max(txns) <= Len(wal)
    BY <1>16, SubmitOf, BatchOf DEF DecodedPastSlot, Decoding, TickSubmit, Starts, Visit
  <2>4. UNCHANGED <<slot, wal>>
    BY <1>16 DEF TickSubmit, Starts
  <2> HIDE DEF txns
  <2> QED
    BY <1>16, <2>1, <2>2, <2>3, <2>4, SubmitOf DEF Positions
<1>17. ASSUME NEW m \in Model, TickRebuild(m) PROVE Positions'
  <2>1. \A o \in Model : sync'[o].confirmed <= Len(wal)
    BY <1>17, TickRecords, BatchOf DEF Positions
  <2> QED
    BY <1>17, <2>1 DEF Positions, TickRebuild, Starts
<1>18. ASSUME NEW m \in Model, TickFail(m) PROVE Positions'
  BY <1>18 DEF Positions, TickFail, Starts
<1>19. CASE Visited
  BY <1>19 DEF Positions, Visited, database, memory
<1>20. ASSUME NEW m \in Model, FinishWrite(m) PROVE Positions'
  <2>1. \A o \in Model : sync'[o].confirmed <= Len(wal)
    BY <1>20, FinishRecords DEF Positions, FinishWrite, Collect
  <2> QED
    BY <1>20, <2>1 DEF Positions, FinishWrite, Collect, TypeOK, MemoryOK
<1>21. ASSUME NEW m \in Model, FinishRebuild(m) PROVE Positions'
  <2>1. \A o \in Model : sync'[o].confirmed <= Len(wal)
    BY <1>21, FinishRecords DEF Positions, FinishRebuild, Collect
  <2> QED
    BY <1>21, <2>1 DEF Positions, FinishRebuild, Collect, TypeOK, MemoryOK
<1>22. ASSUME NEW m \in Model, FinishFail(m) PROVE Positions'
  BY <1>22 DEF Positions, FinishFail, Collect, TypeOK, MemoryOK
<1>23. CASE Finished
  BY <1>23 DEF Positions, Finished, database, memory
<1>24. CASE Advance
  <2>1. slot'.at = slot.at \/ slot'.at <= SlotTarget
    <3>1. slot'.at \in {slot.at, Max({slot.at, SlotTarget})}
      BY <1>24 DEF Advance, TypeOK, DatabaseOK, Slots
    <3>2. Max({slot.at, SlotTarget}) \in {slot.at, SlotTarget}
      BY SlotTargetOf, MaxOfTwo DEF TypeOK, DatabaseOK, Slots
    <3> QED
      BY <3>1, <3>2, SlotTargetOf
  <2>2. UNCHANGED <<wal, sync, inflight>>
    BY <1>24 DEF Advance, memory
  <2>3. slot'.at \in Nat /\ slot'.at <= Len(wal)
    BY <1>24, <2>1, SlotTargetOf, TypeStep DEF Positions, TypeOK, DatabaseOK, SweepOK, Slots, Next, Worker
  <2>4. ASSUME NEW m \in Model, inflight[m].on PROVE slot'.at < inflight[m].first
    <3>1. inflight[m].first \in Nat /\ slot.at < inflight[m].first /\ slot.at \in Nat
      BY <2>4 DEF Positions, Rounds, TypeOK, DatabaseOK, Slots
    <3>2. SlotTarget <= HoldBefore(inflight[m].first)
      BY <2>4, SlotTargetOf DEF Holds
    <3>3. HoldBefore(inflight[m].first) \in Nat /\ HoldBefore(inflight[m].first) < inflight[m].first
      <4>1. \A f \in Nat : HoldBefore(f) \in Nat /\ (HoldBefore(f) = 0 \/ HoldBefore(f) < f)
        BY HoldBeforeOf
      <4> DEFINE h == HoldBefore(inflight[m].first)
      <4>2. h \in Nat /\ (h = 0 \/ h < inflight[m].first)
        BY <3>1, <4>1, Zenon
      <4> HIDE DEF h
      <4>3. h < inflight[m].first
        BY <3>1, <4>2
      <4> QED
        BY <4>2, <4>3 DEF h
    <3> QED
      BY <2>1, <3>1, <3>2, <3>3, SlotTargetOf, <2>3
  <2> QED
    BY <2>2, <2>3, <2>4 DEF Positions
<1>25. CASE Crash
  BY <1>25 DEF Positions, Crash, EndSweep, database
<1>26. CASE UNCHANGED vars
  BY <1>26 DEF Positions, vars, database, memory, sweep
<1> QED
  BY <1>1, <1>2, <1>3, <1>4, <1>5, <1>6, <1>7, <1>8, <1>9, <1>10, <1>11, <1>12,
     <1>13, <1>14, <1>15, <1>16, <1>17, <1>18, <1>19, <1>20, <1>21, <1>22, <1>23,
     <1>24, <1>25, <1>26
  DEF Next, Environment, Worker, Tick, Finish

\* What a sweep decoded is exactly what was published between the slot and upto.
LEMMA DecodedStep ==
  ASSUME TypeOK, DecodedPastSlot, DecodedAll, [Next]_vars
  PROVE  (DecodedPastSlot /\ DecodedAll)'
<1>1. ASSUME NEW rels \in SUBSET Rel, Commit(rels) PROVE (DecodedPastSlot /\ DecodedAll)'
  <2>1. Len(wal') = Len(wal) + 1 /\ \A i \in Txns : wal'[i] = wal[i]
    BY <1>1 DEF Commit, TypeOK, DatabaseOK, Txns
  <2>2. UNCHANGED <<slot, pc, done, upto>>
    BY <1>1 DEF Commit, sweep
  <2>3. upto <= Len(wal) /\ upto \in Nat
    BY RowTypes DEF TypeOK, SweepOK
  <2> QED
    BY <2>1, <2>2, <2>3, RowTypes DEF DecodedPastSlot, DecodedAll, Decoding, Txns
<1>2. ASSUME NEW i \in hidden, Show(i) PROVE (DecodedPastSlot /\ DecodedAll)'
  BY <1>2 DEF DecodedPastSlot, DecodedAll, Decoding, Txns, Show, memory, sweep
<1>3. ASSUME NEW r \in Rel, MovePartition(r) PROVE (DecodedPastSlot /\ DecodedAll)'
  <2>1. Len(wal') = Len(wal) + 1 /\ \A i \in Txns : wal'[i] = wal[i]
    BY <1>3 DEF MovePartition, TypeOK, DatabaseOK, Txns
  <2>2. UNCHANGED <<slot, pc, done, upto>>
    BY <1>3 DEF MovePartition, sweep
  <2>3. upto <= Len(wal) /\ upto \in Nat
    BY RowTypes DEF TypeOK, SweepOK
  <2> QED
    BY <2>1, <2>2, <2>3, RowTypes DEF DecodedPastSlot, DecodedAll, Decoding, Txns
<1>4. ASSUME NEW m \in Model, Define(m) PROVE (DecodedPastSlot /\ DecodedAll)'
  BY <1>4 DEF DecodedPastSlot, DecodedAll, Decoding, Txns, Define, memory, sweep
<1>5. ASSUME NEW m \in Model, SetSyncMode(m) PROVE (DecodedPastSlot /\ DecodedAll)'
  BY <1>5 DEF DecodedPastSlot, DecodedAll, Decoding, Txns, SetSyncMode, memory, sweep
<1>6. CASE LoseSlot
  BY <1>6 DEF DecodedPastSlot, DecodedAll, Decoding, Txns, LoseSlot, sweep, TypeOK, DatabaseOK, Slots
<1>7. ASSUME NEW m \in Model, EndRound(m) PROVE (DecodedPastSlot /\ DecodedAll)'
  BY <1>7 DEF DecodedPastSlot, DecodedAll, Decoding, Txns, EndRound, database, sweep
<1>8. ASSUME NEW m \in Model, Due(m) PROVE (DecodedPastSlot /\ DecodedAll)'
  BY <1>8 DEF DecodedPastSlot, DecodedAll, Decoding, Txns, Due, database, sweep
<1>9. CASE Listing
  <2>1. ~Decoding'
    BY <1>9 DEF Listing, EndSweep, Decoding
  <2> QED
    BY <2>1 DEF DecodedPastSlot, DecodedAll
<1>10. CASE EnsureSlot
  <2>1. ~Decoding'
    BY <1>10 DEF EnsureSlot, EndSweep, Decoding
  <2> QED
    BY <2>1 DEF DecodedPastSlot, DecodedAll
<1>11. CASE ResetProgress
  <2>1. ~Decoding'
    BY <1>11 DEF ResetProgress, EndSweep, Decoding
  <2> QED
    BY <2>1 DEF DecodedPastSlot, DecodedAll
<1>12. CASE Peek
  <2>1. CASE EndSweep
    BY <2>1 DEF DecodedPastSlot, DecodedAll, Decoding, EndSweep
  <2>2. CASE ~EndSweep
    <3> DEFINE fresh == {i \in Txns : i > slot.at /\ wal[i].sent # {}}
    <3>1. UNCHANGED <<slot, wal>>
      BY <1>12 DEF Peek, database
    <3>2. \/ done' = {} /\ upto' = 0
          \/ done' = fresh /\ upto' = Len(wal)
          \/ \E cut \in fresh : done' = {i \in fresh : i <= cut} /\ upto' = cut
      BY <1>12, <2>2 DEF Peek
    <3>3. slot.at \in Nat /\ Len(wal) \in Nat
      BY RowTypes DEF TypeOK, DatabaseOK, Slots
    <3> QED
      BY <3>1, <3>2, <3>3 DEF DecodedPastSlot, DecodedAll, Decoding, Txns
  <2> QED
    BY <2>1, <2>2
<1>13. ASSUME NEW m \in Model, SkipRunning(m) PROVE (DecodedPastSlot /\ DecodedAll)'
  BY <1>13 DEF DecodedPastSlot, DecodedAll, Decoding, Txns, SkipRunning, Visit, database
<1>14. ASSUME NEW m \in Model, SkipIdle(m) PROVE (DecodedPastSlot /\ DecodedAll)'
  BY <1>14 DEF DecodedPastSlot, DecodedAll, Decoding, Txns, SkipIdle, Visit, database
<1>15. ASSUME NEW m \in Model, TickIdle(m) PROVE (DecodedPastSlot /\ DecodedAll)'
  BY <1>15 DEF DecodedPastSlot, DecodedAll, Decoding, Txns, TickIdle, Starts, Visit
<1>16. ASSUME NEW m \in Model, TickSubmit(m) PROVE (DecodedPastSlot /\ DecodedAll)'
  BY <1>16 DEF DecodedPastSlot, DecodedAll, Decoding, Txns, TickSubmit, Starts, Visit
<1>17. ASSUME NEW m \in Model, TickRebuild(m) PROVE (DecodedPastSlot /\ DecodedAll)'
  BY <1>17 DEF DecodedPastSlot, DecodedAll, Decoding, Txns, TickRebuild, Starts, Visit
<1>18. ASSUME NEW m \in Model, TickFail(m) PROVE (DecodedPastSlot /\ DecodedAll)'
  BY <1>18 DEF DecodedPastSlot, DecodedAll, Decoding, Txns, TickFail, Starts, Visit
<1>19. CASE Visited
  BY <1>19 DEF DecodedPastSlot, DecodedAll, Decoding, Txns, Visited, database, memory
<1>20. ASSUME NEW m \in Model, FinishWrite(m) PROVE (DecodedPastSlot /\ DecodedAll)'
  BY <1>20 DEF DecodedPastSlot, DecodedAll, Decoding, Txns, FinishWrite, Collect, sweep
<1>21. ASSUME NEW m \in Model, FinishRebuild(m) PROVE (DecodedPastSlot /\ DecodedAll)'
  BY <1>21 DEF DecodedPastSlot, DecodedAll, Decoding, Txns, FinishRebuild, Collect, sweep
<1>22. ASSUME NEW m \in Model, FinishFail(m) PROVE (DecodedPastSlot /\ DecodedAll)'
  BY <1>22 DEF DecodedPastSlot, DecodedAll, Decoding, Txns, FinishFail, Collect, sweep
<1>23. CASE Finished
  BY <1>23 DEF DecodedPastSlot, DecodedAll, Decoding, Txns, Finished, database, memory
<1>24. CASE Advance
  <2>1. ~Decoding'
    BY <1>24 DEF Advance, EndSweep, Decoding
  <2> QED
    BY <2>1 DEF DecodedPastSlot, DecodedAll
<1>25. CASE Crash
  <2>1. ~Decoding'
    BY <1>25 DEF Crash, EndSweep, Decoding
  <2> QED
    BY <2>1 DEF DecodedPastSlot, DecodedAll
<1>26. CASE UNCHANGED vars
  BY <1>26 DEF DecodedPastSlot, DecodedAll, Decoding, Txns, vars, database, memory, sweep
<1> QED
  BY <1>1, <1>2, <1>3, <1>4, <1>5, <1>6, <1>7, <1>8, <1>9, <1>10, <1>11, <1>12,
     <1>13, <1>14, <1>15, <1>16, <1>17, <1>18, <1>19, <1>20, <1>21, <1>22, <1>23,
     <1>24, <1>25, <1>26
  DEF Next, Environment, Worker, Tick, Finish

LEMMA OneLiveStep ==
  ASSUME TypeOK, OneLive, [Next]_vars
  PROVE  OneLive'
<1> USE NoneTypes
<1>1. ASSUME NEW rels \in SUBSET Rel, Commit(rels) PROVE OneLive'
  BY <1>1 DEF OneLive, Commit, memory, sweep
<1>2. ASSUME NEW i \in hidden, Show(i) PROVE OneLive'
  BY <1>2 DEF OneLive, Show, memory, sweep
<1>3. ASSUME NEW r \in Rel, MovePartition(r) PROVE OneLive'
  BY <1>3 DEF OneLive, MovePartition, memory, sweep
<1>4. ASSUME NEW m \in Model, Define(m) PROVE OneLive'
  BY <1>4 DEF OneLive, Define, memory, sweep
<1>5. ASSUME NEW m \in Model, SetSyncMode(m) PROVE OneLive'
  BY <1>5 DEF OneLive, SetSyncMode, memory, sweep
<1>6. CASE LoseSlot
  BY <1>6 DEF OneLive, LoseSlot, memory, sweep
<1>7. ASSUME NEW m \in Model, EndRound(m) PROVE OneLive'
  BY <1>7, RowTypes DEF OneLive, EndRound, database, Rounds, TypeOK, MemoryOK
<1>8. ASSUME NEW m \in Model, Due(m) PROVE OneLive'
  BY <1>8 DEF OneLive, Due, database, sweep
<1>9. CASE Listing
  BY <1>9 DEF OneLive, Listing, EndSweep
<1>10. CASE EnsureSlot
  BY <1>10 DEF OneLive, EnsureSlot, EndSweep
<1>11. CASE ResetProgress
  BY <1>11 DEF OneLive, ResetProgress, EndSweep, memory
<1>12. CASE Peek
  BY <1>12 DEF OneLive, Peek, EndSweep, database
<1>13. ASSUME NEW m \in Model, SkipRunning(m) PROVE OneLive'
  BY <1>13 DEF OneLive, SkipRunning, Visit, database, memory
<1>14. ASSUME NEW m \in Model, SkipIdle(m) PROVE OneLive'
  BY <1>14 DEF OneLive, SkipIdle, KeptLive, TypeOK, MemoryOK
<1>15. ASSUME NEW m \in Model, TickIdle(m) PROVE OneLive'
  BY <1>15 DEF OneLive, TickIdle, Starts
<1>16. ASSUME NEW m \in Model, TickSubmit(m) PROVE OneLive'
  BY <1>16 DEF OneLive, TickSubmit, Starts, TypeOK, MemoryOK
<1>17. ASSUME NEW m \in Model, TickRebuild(m) PROVE OneLive'
  BY <1>17 DEF OneLive, TickRebuild, Starts
<1>18. ASSUME NEW m \in Model, TickFail(m) PROVE OneLive'
  BY <1>18 DEF OneLive, TickFail, Starts, TypeOK, MemoryOK
<1>19. CASE Visited
  BY <1>19 DEF OneLive, Visited, database, memory
<1>20. ASSUME NEW m \in Model, FinishWrite(m) PROVE OneLive'
  BY <1>20 DEF OneLive, FinishWrite, Collect, TypeOK, MemoryOK
<1>21. ASSUME NEW m \in Model, FinishRebuild(m) PROVE OneLive'
  BY <1>21 DEF OneLive, FinishRebuild, Collect, TypeOK, MemoryOK
<1>22. ASSUME NEW m \in Model, FinishFail(m) PROVE OneLive'
  BY <1>22 DEF OneLive, FinishFail, Collect, TypeOK, MemoryOK
<1>23. CASE Finished
  BY <1>23 DEF OneLive, Finished, database, memory
<1>24. CASE Advance
  BY <1>24 DEF OneLive, Advance, EndSweep, memory
<1>25. CASE Crash
  BY <1>25 DEF OneLive, Crash, EndSweep, database
<1>26. CASE UNCHANGED vars
  BY <1>26 DEF OneLive, vars, database, memory, sweep
<1> QED
  BY <1>1, <1>2, <1>3, <1>4, <1>5, <1>6, <1>7, <1>8, <1>9, <1>10, <1>11, <1>12,
     <1>13, <1>14, <1>15, <1>16, <1>17, <1>18, <1>19, <1>20, <1>21, <1>22, <1>23,
     <1>24, <1>25, <1>26
  DEF Next, Environment, Worker, Tick, Finish

LEMMA VisitsStep ==
  ASSUME TypeOK, Visits, [Next]_vars
  PROVE  Visits'
<1> USE NoneTypes
<1>1. ASSUME NEW rels \in SUBSET Rel, Commit(rels) PROVE Visits'
  BY <1>1 DEF Visits, Commit, memory, sweep
<1>2. ASSUME NEW i \in hidden, Show(i) PROVE Visits'
  BY <1>2 DEF Visits, Show, memory, sweep
<1>3. ASSUME NEW r \in Rel, MovePartition(r) PROVE Visits'
  BY <1>3 DEF Visits, MovePartition, memory, sweep
<1>4. ASSUME NEW m \in Model, Define(m) PROVE Visits'
  BY <1>4 DEF Visits, Define, memory, sweep
<1>5. ASSUME NEW m \in Model, SetSyncMode(m) PROVE Visits'
  BY <1>5, RowTypes DEF Visits, SetSyncMode, memory, sweep, ListedRows, TypeOK, DatabaseOK, SweepOK
<1>6. CASE LoseSlot
  BY <1>6 DEF Visits, LoseSlot, memory, sweep
<1>7. ASSUME NEW m \in Model, EndRound(m) PROVE Visits'
  BY <1>7, RowTypes DEF Visits, EndRound, database, sweep, Rounds, TypeOK, MemoryOK
<1>8. ASSUME NEW m \in Model, Due(m) PROVE Visits'
  BY <1>8 DEF Visits, Due, database, sweep
<1>9. CASE Listing
  BY <1>9, RowTypes DEF Visits, Listing, EndSweep, Listed, SyncRows, TypeOK, DatabaseOK
<1>10. CASE EnsureSlot
  BY <1>10 DEF Visits, EnsureSlot, EndSweep
<1>11. CASE ResetProgress
  <2>1. CASE EndSweep
    BY <1>11, <2>1 DEF Visits, ResetProgress, EndSweep, memory
  <2>2. CASE ~EndSweep
    <3>1. \A m \in Model : ~sync'[m].caughtUp
      BY <1>11, <2>2 DEF ResetProgress
    <3>2. pc' = "peek" /\ UNCHANGED <<todo, live, inflight>> /\ pc = "reset"
      BY <1>11, <2>2 DEF ResetProgress, memory
    <3>3. todo \subseteq Model
      BY DEF TypeOK, SweepOK
    <3> QED
      BY <3>1, <3>2, <3>3 DEF Visits
  <2> QED
    BY <2>1, <2>2
<1>12. CASE Peek
  <2>1. UNCHANGED <<sync, logical, live, inflight>> /\ (EndSweep \/ UNCHANGED <<listed, todo>>)
    BY <1>12 DEF Peek, database
  <2>2. pc' = "idle" \/ pc' = "models"
    BY <1>12 DEF Peek, EndSweep
  <2> QED
    BY <2>1, <2>2, <1>12 DEF Visits, EndSweep, Peek
<1>13. ASSUME NEW m \in Model, SkipRunning(m) PROVE Visits'
  BY <1>13 DEF Visits, SkipRunning, Visit, database, memory
<1>14. ASSUME NEW m \in Model, SkipIdle(m) PROVE Visits'
  BY <1>14 DEF Visits, SkipIdle, Visit, database
<1>15. ASSUME NEW m \in Model, TickIdle(m) PROVE Visits'
  BY <1>15, TickRecords DEF Visits, TickIdle, Starts, Visit, TypeOK, SweepOK
<1>16. ASSUME NEW m \in Model, TickSubmit(m) PROVE Visits'
  BY <1>16, TickRecords DEF Visits, TickSubmit, Starts, Visit, TypeOK, SweepOK
<1>17. ASSUME NEW m \in Model, TickRebuild(m) PROVE Visits'
  BY <1>17, TickRecords DEF Visits, TickRebuild, Starts, Visit, TypeOK, SweepOK
<1>18. ASSUME NEW m \in Model, TickFail(m) PROVE Visits'
  BY <1>18 DEF Visits, TickFail, Starts, Visit
<1>19. CASE Visited
  BY <1>19 DEF Visits, Visited, database, memory
<1>20. ASSUME NEW m \in Model, FinishWrite(m) PROVE Visits'
  BY <1>20, FinishRecords DEF Visits, FinishWrite, Collect, sweep
<1>21. ASSUME NEW m \in Model, FinishRebuild(m) PROVE Visits'
  BY <1>21, FinishRecords DEF Visits, FinishRebuild, Collect, sweep
<1>22. ASSUME NEW m \in Model, FinishFail(m) PROVE Visits'
  BY <1>22 DEF Visits, FinishFail, Collect, sweep
<1>23. CASE Finished
  BY <1>23 DEF Visits, Finished, database, memory
<1>24. CASE Advance
  BY <1>24 DEF Visits, Advance, EndSweep, memory
<1>25. CASE Crash
  BY <1>25 DEF Visits, Crash, EndSweep, database
<1>26. CASE UNCHANGED vars
  BY <1>26 DEF Visits, vars, database, memory, sweep
<1> QED
  BY <1>1, <1>2, <1>3, <1>4, <1>5, <1>6, <1>7, <1>8, <1>9, <1>10, <1>11, <1>12,
     <1>13, <1>14, <1>15, <1>16, <1>17, <1>18, <1>19, <1>20, <1>21, <1>22, <1>23,
     <1>24, <1>25, <1>26
  DEF Next, Environment, Worker, Tick, Finish

-----------------------------------------------------------------------------
(* What live states and rounds hold. *)

\* The WAL only grows, by one transaction at a time.
LEMMA WalGrows ==
  ASSUME TypeOK, [Next]_vars
  PROVE  \/ UNCHANGED wal
         \/ Len(wal') = Len(wal) + 1 /\ \A i \in Txns : wal'[i] = wal[i]
<1> DEFINE Goal == \/ UNCHANGED wal
                   \/ Len(wal') = Len(wal) + 1 /\ \A i \in Txns : wal'[i] = wal[i]
<1> SUFFICES Goal
  OBVIOUS
<1>1. ASSUME NEW rels \in SUBSET Rel, Commit(rels) PROVE Goal
  BY <1>1 DEF Commit, TypeOK, DatabaseOK, Txns
<1>2. ASSUME NEW i \in hidden, Show(i) PROVE Goal
  BY <1>2 DEF Show
<1>3. ASSUME NEW r \in Rel, MovePartition(r) PROVE Goal
  BY <1>3 DEF MovePartition, TypeOK, DatabaseOK, Txns
<1>4. ASSUME NEW m \in Model, Define(m) PROVE Goal
  BY <1>4 DEF Define
<1>5. ASSUME NEW m \in Model, SetSyncMode(m) PROVE Goal
  BY <1>5 DEF SetSyncMode
<1>6. CASE LoseSlot
  BY <1>6 DEF LoseSlot
<1>7. ASSUME NEW m \in Model, EndRound(m) PROVE Goal
  BY <1>7 DEF EndRound, database
<1>8. ASSUME NEW m \in Model, Due(m) PROVE Goal
  BY <1>8 DEF Due, database
<1>9. CASE Listing
  BY <1>9 DEF Listing
<1>10. CASE EnsureSlot
  BY <1>10 DEF EnsureSlot
<1>11. CASE ResetProgress
  BY <1>11 DEF ResetProgress
<1>12. CASE Peek
  BY <1>12 DEF Peek, database
<1>13. ASSUME NEW m \in Model, SkipRunning(m) PROVE Goal
  BY <1>13 DEF SkipRunning, database
<1>14. ASSUME NEW m \in Model, SkipIdle(m) PROVE Goal
  BY <1>14 DEF SkipIdle, database
<1>15. ASSUME NEW m \in Model, TickIdle(m) PROVE Goal
  BY <1>15 DEF TickIdle, Starts
<1>16. ASSUME NEW m \in Model, TickSubmit(m) PROVE Goal
  BY <1>16 DEF TickSubmit, Starts
<1>17. ASSUME NEW m \in Model, TickRebuild(m) PROVE Goal
  BY <1>17 DEF TickRebuild, Starts
<1>18. ASSUME NEW m \in Model, TickFail(m) PROVE Goal
  BY <1>18 DEF TickFail, Starts
<1>19. CASE Visited
  BY <1>19 DEF Visited, database
<1>20. ASSUME NEW m \in Model, FinishWrite(m) PROVE Goal
  BY <1>20 DEF FinishWrite, Collect
<1>21. ASSUME NEW m \in Model, FinishRebuild(m) PROVE Goal
  BY <1>21 DEF FinishRebuild, Collect
<1>22. ASSUME NEW m \in Model, FinishFail(m) PROVE Goal
  BY <1>22 DEF FinishFail, Collect
<1>23. CASE Finished
  BY <1>23 DEF Finished, database
<1>24. CASE Advance
  BY <1>24 DEF Advance
<1>25. CASE Crash
  BY <1>25 DEF Crash, database
<1>26. CASE UNCHANGED vars
  BY <1>26 DEF vars, database
<1> QED
  BY <1>1, <1>2, <1>3, <1>4, <1>5, <1>6, <1>7, <1>8, <1>9, <1>10, <1>11, <1>12,
     <1>13, <1>14, <1>15, <1>16, <1>17, <1>18, <1>19, <1>20, <1>21, <1>22, <1>23,
     <1>24, <1>25, <1>26
  DEF Next, Environment, Worker, Tick, Finish

\* A load holds every change, when snapshots show every commit.
LEMMA LoadHolds ==
  ASSUME TypeOK, TablesHold, NEW m \in Model, NEW i \in Txns
  PROVE  HoldsChange(m, Load(m), i)
  BY RowTypes DEF TablesHold, HoldsChange, Load, Transactions

\* A change is held once it is mapped, and stays held when only later ones are.
LEMMA MappedHolds ==
  ASSUME TypeOK, NEW m \in Model, NEW data \in Contents, NEW txns \in SUBSET Txns, NEW i \in Txns,
         i \in txns \/ (HoldsChange(m, data, i) /\ \A j \in txns : i < j)
  PROVE  HoldsChange(m, Mapped(m, data, txns), i)
<1> SUFFICES ASSUME NEW r \in wal[i].sent \cap Binds[m] PROVE Mapped(m, data, txns)[r] >= i
  BY DEF HoldsChange
<1> DEFINE w == {j \in txns : r \in wal[j].sent \cap Binds[m]}
<1>1. r \in Rel
  BY RowTypes DEF Transactions
<1>2. Mapped(m, data, txns)[r] = IF w = {} THEN data[r] ELSE Max(w)
  BY <1>1 DEF Mapped
<1>3. w \in SUBSET Txns /\ w \subseteq txns /\ (i \in txns => i \in w)
  OBVIOUS
<1>4. w = {} => data[r] >= i
  BY <1>3 DEF HoldsChange
<1> HIDE DEF w
<1>5. w # {} => Max(w) \in w /\ \A j \in w : j <= Max(w)
  BY <1>3, MaxTxns
<1>6. w # {} => Max(w) >= i
  BY <1>3, <1>5, RowTypes
<1> QED
  BY <1>2, <1>4, <1>6

\* What a tick goes on from holds everything up to the slot and to its progress.
LEMMA BaseHolds ==
  ASSUME TypeOK, TablesHold, LiveHolds, Visits, NEW m \in Model, Starts(m), NEW i \in Txns,
         i <= slot.at \/ i <= sync[m].confirmed \/ i <= listed[m].confirmed
  PROVE  HoldsChange(m, Current(m).data, i)
<1>1. CASE NeedsBuild(m)
  <2>1. Current(m).data = Load(m)
    BY <1>1 DEF Current, Rebuilt
  <2> QED
    BY <2>1, LoadHolds
<1>2. CASE ~NeedsBuild(m)
  <2>1. Current(m) = live[m] /\ live[m].on /\ sync[m].caughtUp
    BY <1>2, NoneTypes DEF Current, NeedsBuild, Taken, KeptLive
  <2>2. pc = "models" /\ m \in todo
    BY DEF Starts, Visit
  <2>3. listed[m].confirmed <= sync[m].confirmed
    BY <2>1, <2>2 DEF Visits
  <2>4. listed[m].confirmed \in Nat /\ sync[m].confirmed \in Nat /\ i \in Nat
    BY RowTypes DEF ListedRows, SyncRows
  <2>5. i <= slot.at \/ i <= sync[m].confirmed
    BY <2>3, <2>4
  <2> QED
    BY <2>1, <2>2, <2>5 DEF LiveHolds
<1> QED
  BY <1>1, <1>2

\* With its batch mapped, it holds everything that was decoded.
LEMMA BatchHolds ==
  ASSUME TypeOK, TablesHold, LiveHolds, Visits, DecodedPastSlot, DecodedAll,
         NEW m \in Model, Starts(m), NEW i \in Txns,
         \/ i <= slot.at
         \/ i <= sync[m].confirmed
         \/ i <= upto
         \/ Unapplied(m) # {} /\ i <= Max(Unapplied(m))
  PROVE  HoldsChange(m, Mapped(m, Current(m).data, Unapplied(m)), i)
<1>1. Current(m).data \in Contents /\ Unapplied(m) \in SUBSET Txns
  BY CurrentType DEF LiveStates
<1>2. Decoding
  BY DEF Starts, Visit, Decoding
<1>3. \A j \in Unapplied(m) : slot.at < j /\ j <= upto
  BY <1>2 DEF DecodedPastSlot, Unapplied, Routed
<1>4. \A j \in Unapplied(m) : sync[m].confirmed < j /\ listed[m].confirmed < j
  BY RowTypes DEF Unapplied, Routed, SyncRows, ListedRows
<1>5. i \in Nat /\ slot.at \in Nat /\ upto \in Nat /\ sync[m].confirmed \in Nat
      /\ listed[m].confirmed \in Nat /\ Unapplied(m) \subseteq Nat
  BY <1>1, RowTypes DEF SyncRows, ListedRows, TypeOK, DatabaseOK, SweepOK, Slots
<1>6. CASE i \in Unapplied(m)
  BY <1>1, <1>6, MappedHolds
<1>7. CASE i <= slot.at \/ i <= sync[m].confirmed \/ i <= listed[m].confirmed
  <2>1. HoldsChange(m, Current(m).data, i)
    BY <1>7, BaseHolds
  <2>2. \A j \in Unapplied(m) : i < j
    BY <1>3, <1>4, <1>5, <1>7
  <2> QED
    BY <1>1, <2>1, <2>2, MappedHolds
<1>8. CASE wal[i].sent \cap Binds[m] = {}
  BY <1>8 DEF HoldsChange
<1>9. CASE /\ i \notin Unapplied(m)
           /\ ~(i <= slot.at \/ i <= sync[m].confirmed \/ i <= listed[m].confirmed)
           /\ wal[i].sent \cap Binds[m] # {}
  <2>1. i <= upto
    <3>1. Unapplied(m) # {} => Max(Unapplied(m)) \in Unapplied(m)
      BY <1>1, MaxTxns
    <3> QED
      BY <1>3, <1>5, <1>9, <3>1
  <2>2. i \in done
    BY <1>2, <1>5, <1>9, <2>1 DEF DecodedAll
  <2>3. i > listed[m].confirmed /\ i > sync[m].confirmed
    BY <1>5, <1>9
  <2>4. i \in Unapplied(m)
    BY <1>9, <2>2, <2>3 DEF Unapplied, Routed
  <2> QED
    BY <1>9, <2>4
<1> QED
  BY <1>6, <1>7, <1>8, <1>9

-----------------------------------------------------------------------------
(* Each step keeps what they hold, while snapshots show every commit and the *)
(* reset of the progress does not fail.                                      *)

LEMMA TablesStep ==
  ASSUME TypeOK, TablesHold, "lag" \notin Env, [Next]_vars
  PROVE  TablesHold'
<1>1. ASSUME NEW rels \in SUBSET Rel, Commit(rels) PROVE TablesHold'
  <2>1. Len(wal') = Len(wal) + 1 /\ \A i \in Txns : wal'[i] = wal[i]
    BY <1>1 DEF Commit, TypeOK, DatabaseOK, Txns
  <2>2. wal'[Len(wal) + 1] = [rels |-> rels, sent |-> rels \cap Published, moved |-> FALSE]
    BY <1>1 DEF Commit, TypeOK, DatabaseOK
  <2>3. table' = [r \in Rel |-> IF r \in rels THEN Len(wal) + 1 ELSE table[r]] /\ hidden' = {}
    BY <1>1 DEF Commit, TablesHold
  <2>4. ASSUME NEW i \in Txns'
        PROVE  wal'[i].sent \subseteq wal'[i].rels /\ \A r \in wal'[i].rels : table'[r] >= i
    <3>1. CASE i = Len(wal) + 1
      BY <2>2, <2>3, <3>1, RowTypes
    <3>2. CASE i # Len(wal) + 1
      <4>1. i \in Txns /\ i \in Nat /\ i <= Len(wal)
        BY <2>1, <2>4, <3>2, RowTypes DEF Txns
      <4>2. wal'[i] = wal[i] /\ wal[i] \in Transactions
        BY <2>1, <4>1, RowTypes
      <4> QED
        BY <2>3, <4>1, <4>2, RowTypes DEF TablesHold, Transactions
    <3> QED
      BY <3>1, <3>2
  <2> QED
    BY <2>3, <2>4 DEF TablesHold
<1>2. ASSUME NEW i \in hidden, Show(i) PROVE TablesHold'
  BY <1>2 DEF TablesHold, Txns, Show, memory, sweep
<1>3. ASSUME NEW r \in Rel, MovePartition(r) PROVE TablesHold'
  <2>1. Len(wal') = Len(wal) + 1 /\ \A i \in Txns : wal'[i] = wal[i]
    BY <1>3 DEF MovePartition, TypeOK, DatabaseOK, Txns
  <2>2. wal'[Len(wal) + 1] = [rels |-> {r}, sent |-> {}, moved |-> TRUE]
    BY <1>3 DEF MovePartition, TypeOK, DatabaseOK
  <2>3. table' = [table EXCEPT ![r] = Len(wal) + 1] /\ hidden' = {} /\ table \in Contents
    BY <1>3 DEF MovePartition, TablesHold, TypeOK, DatabaseOK
  <2>4. ASSUME NEW i \in Txns'
        PROVE  wal'[i].sent \subseteq wal'[i].rels /\ \A q \in wal'[i].rels : table'[q] >= i
    <3>1. CASE i = Len(wal) + 1
      BY <2>2, <2>3, <3>1, RowTypes DEF Contents
    <3>2. CASE i # Len(wal) + 1
      <4>1. i \in Txns /\ i \in Nat /\ i <= Len(wal)
        BY <2>1, <2>4, <3>2, RowTypes DEF Txns
      <4>2. wal'[i] = wal[i] /\ wal[i] \in Transactions
        BY <2>1, <4>1, RowTypes
      <4> QED
        BY <2>3, <4>1, <4>2, RowTypes DEF TablesHold, Transactions, Contents
    <3> QED
      BY <3>1, <3>2
  <2> QED
    BY <2>3, <2>4 DEF TablesHold
<1>4. ASSUME NEW m \in Model, Define(m) PROVE TablesHold'
  BY <1>4 DEF TablesHold, Txns, Define, memory, sweep
<1>5. ASSUME NEW m \in Model, SetSyncMode(m) PROVE TablesHold'
  BY <1>5 DEF TablesHold, Txns, SetSyncMode, memory, sweep
<1>6. CASE LoseSlot
  BY <1>6 DEF TablesHold, Txns, LoseSlot, memory, sweep
<1>7. ASSUME NEW m \in Model, EndRound(m) PROVE TablesHold'
  BY <1>7 DEF TablesHold, Txns, EndRound, database, sweep
<1>8. ASSUME NEW m \in Model, Due(m) PROVE TablesHold'
  BY <1>8 DEF TablesHold, Txns, Due, database, sweep
<1>9. CASE Listing
  BY <1>9 DEF TablesHold, Txns, Listing, EndSweep
<1>10. CASE EnsureSlot
  BY <1>10 DEF TablesHold, Txns, EnsureSlot, EndSweep
<1>11. CASE ResetProgress
  BY <1>11 DEF TablesHold, Txns, ResetProgress, EndSweep, memory
<1>12. CASE Peek
  BY <1>12 DEF TablesHold, Txns, Peek, database
<1>13. ASSUME NEW m \in Model, SkipRunning(m) PROVE TablesHold'
  BY <1>13 DEF TablesHold, Txns, SkipRunning, Visit, database, memory
<1>14. ASSUME NEW m \in Model, SkipIdle(m) PROVE TablesHold'
  BY <1>14 DEF TablesHold, Txns, SkipIdle, database
<1>15. ASSUME NEW m \in Model, TickIdle(m) PROVE TablesHold'
  BY <1>15 DEF TablesHold, Txns, TickIdle, Starts, Visit
<1>16. ASSUME NEW m \in Model, TickSubmit(m) PROVE TablesHold'
  BY <1>16 DEF TablesHold, Txns, TickSubmit, Starts, Visit
<1>17. ASSUME NEW m \in Model, TickRebuild(m) PROVE TablesHold'
  BY <1>17 DEF TablesHold, Txns, TickRebuild, Starts, Visit
<1>18. ASSUME NEW m \in Model, TickFail(m) PROVE TablesHold'
  BY <1>18 DEF TablesHold, Txns, TickFail, Starts, Visit
<1>19. CASE Visited
  BY <1>19 DEF TablesHold, Txns, Visited, database, memory
<1>20. ASSUME NEW m \in Model, FinishWrite(m) PROVE TablesHold'
  BY <1>20 DEF TablesHold, Txns, FinishWrite, Collect, sweep
<1>21. ASSUME NEW m \in Model, FinishRebuild(m) PROVE TablesHold'
  BY <1>21 DEF TablesHold, Txns, FinishRebuild, Collect, sweep
<1>22. ASSUME NEW m \in Model, FinishFail(m) PROVE TablesHold'
  BY <1>22 DEF TablesHold, Txns, FinishFail, Collect, sweep
<1>23. CASE Finished
  BY <1>23 DEF TablesHold, Txns, Finished, database, memory
<1>24. CASE Advance
  BY <1>24 DEF TablesHold, Txns, Advance, EndSweep, memory
<1>25. CASE Crash
  BY <1>25 DEF TablesHold, Txns, Crash, EndSweep, database
<1>26. CASE UNCHANGED vars
  BY <1>26 DEF TablesHold, Txns, vars, database, memory, sweep
<1> QED
  BY <1>1, <1>2, <1>3, <1>4, <1>5, <1>6, <1>7, <1>8, <1>9, <1>10, <1>11, <1>12,
     <1>13, <1>14, <1>15, <1>16, <1>17, <1>18, <1>19, <1>20, <1>21, <1>22, <1>23,
     <1>24, <1>25, <1>26
  DEF Next, Environment, Worker, Tick, Finish

\* Steps that move neither the slot nor what a live state holds.
LEMMA LiveFrame ==
  ASSUME TypeOK, Positions, LiveHolds, [Next]_vars, pc # "reset", slot'.at = slot.at,
         \A m \in Model : live'[m].on /\ sync'[m].caughtUp =>
                            live'[m] = live[m] /\ sync'[m] = sync[m]
  PROVE  LiveHolds'
<1> SUFFICES ASSUME NEW m \in Model, live'[m].on, sync'[m].caughtUp, NEW i \in Txns',
                    i <= slot'.at \/ i <= sync'[m].confirmed
             PROVE  HoldsChange(m, live[m].data, i)'
  BY DEF LiveHolds
<1>1. live'[m] = live[m] /\ sync'[m] = sync[m]
  OBVIOUS
<1>2. slot.at <= Len(wal) /\ sync[m].confirmed <= Len(wal) /\ slot.at \in Nat
      /\ sync[m].confirmed \in Nat /\ Len(wal) \in Nat
  BY RowTypes DEF Positions, TypeOK, DatabaseOK, Slots, SyncRows
<1>3. i \in Txns /\ wal'[i] = wal[i]
  BY <1>1, <1>2, WalGrows DEF Txns
<1>4. HoldsChange(m, live[m].data, i)
  BY <1>1, <1>3 DEF LiveHolds
<1> QED
  BY <1>1, <1>3, <1>4 DEF HoldsChange

\* What the slot's target is below.
LEMMA BelowTarget ==
  ASSUME TypeOK, NEW i \in Nat, i > 0, i <= SlotTarget
  PROVE  MayPass(i)
<1>1. SlotTarget \in Nat /\ SlotTarget <= upto /\ upto \in Nat
  BY SlotTargetOf, RowTypes DEF TypeOK, SweepOK
<1>2. ASSUME NEW h \in held PROVE i < h
  <2>1. h \in Nat /\ h \in Holds
    BY DEF TypeOK, SweepOK, Holds
  <2>2. SlotTarget <= HoldBefore(h)
    BY <2>1, SlotTargetOf
  <2>3. HoldBefore(h) \in Nat /\ (HoldBefore(h) = 0 \/ HoldBefore(h) < h)
    BY <2>1, HoldBeforeOf
  <2> QED
    BY <1>1, <2>1, <2>2, <2>3
<1> QED
  BY <1>1, <1>2 DEF MayPass

\* The slot moves forward, and to its target at most.
LEMMA AdvanceOf ==
  ASSUME TypeOK, Advance
  PROVE  slot'.at = slot.at \/ slot'.at <= SlotTarget
<1>1. slot'.at \in {slot.at, Max({slot.at, SlotTarget})}
  BY DEF Advance, TypeOK, DatabaseOK, Slots
<1>2. Max({slot.at, SlotTarget}) \in {slot.at, SlotTarget}
  BY SlotTargetOf, MaxOfTwo DEF TypeOK, DatabaseOK, Slots
<1> QED
  BY <1>1, <1>2, SlotTargetOf

LEMMA LiveStep ==
  ASSUME TypeOK, Positions, TablesHold, DecodedPastSlot, DecodedAll, OneLive, Visits, LiveHolds,
         RoundHolds, VisitedHold, "reset" \notin Env, [Next]_vars
  PROVE  LiveHolds'
<1> USE NoneTypes
<1>1. ASSUME NEW rels \in SUBSET Rel, Commit(rels) PROVE LiveHolds'
  <2>1. CASE pc = "reset"
    BY <1>1, <2>1 DEF Commit, sweep, LiveHolds
  <2>2. CASE pc # "reset"
    BY <1>1, <2>2, LiveFrame DEF Commit, memory
  <2> QED
    BY <2>1, <2>2
<1>2. ASSUME NEW i \in hidden, Show(i) PROVE LiveHolds'
  BY <1>2 DEF TablesHold
<1>3. ASSUME NEW r \in Rel, MovePartition(r) PROVE LiveHolds'
  <2>1. CASE pc = "reset"
    BY <1>3, <2>1 DEF MovePartition, sweep, LiveHolds
  <2>2. CASE pc # "reset"
    BY <1>3, <2>2, LiveFrame DEF MovePartition, memory
  <2> QED
    BY <2>1, <2>2
<1>4. ASSUME NEW m \in Model, Define(m) PROVE LiveHolds'
  BY <1>4 DEF LiveHolds, HoldsChange, Txns, Define, memory, sweep
<1>5. ASSUME NEW m \in Model, SetSyncMode(m) PROVE LiveHolds'
  <2>1. CASE pc = "reset"
    BY <1>5, <2>1 DEF SetSyncMode, sweep, LiveHolds
  <2>2. CASE pc # "reset"
    BY <1>5, <2>2, LiveFrame DEF SetSyncMode, memory, TypeOK, DatabaseOK
  <2> QED
    BY <2>1, <2>2
<1>6. CASE LoseSlot
  <2>1. slot'.at = slot.at
    BY <1>6 DEF LoseSlot, TypeOK, DatabaseOK, Slots
  <2> QED
    BY <1>6, <2>1 DEF LiveHolds, HoldsChange, Txns, LoseSlot, memory, sweep
<1>7. ASSUME NEW m \in Model, EndRound(m) PROVE LiveHolds'
  BY <1>7 DEF LiveHolds, HoldsChange, Txns, EndRound, database, sweep
<1>8. ASSUME NEW m \in Model, Due(m) PROVE LiveHolds'
  BY <1>8 DEF LiveHolds, HoldsChange, Txns, Due, database, sweep
<1>9. CASE Listing
  <2>1. slot'.at = slot.at /\ pc # "reset" /\ sync' = sync
    BY <1>9 DEF Listing, TypeOK, DatabaseOK, Slots
  <2> QED
    BY <1>9, <2>1, LiveFrame DEF Listing
<1>10. CASE EnsureSlot
  <2>1. CASE pc' = "reset"
    BY <2>1 DEF LiveHolds
  <2>2. CASE pc' # "reset"
    BY <1>10, <2>2 DEF LiveHolds, HoldsChange, Txns, EnsureSlot
  <2> QED
    BY <2>1, <2>2
<1>11. CASE ResetProgress
  BY <1>11 DEF LiveHolds, ResetProgress, Fault
<1>12. CASE Peek
  BY <1>12 DEF LiveHolds, HoldsChange, Txns, Peek, database
<1>13. ASSUME NEW m \in Model, SkipRunning(m) PROVE LiveHolds'
  BY <1>13 DEF LiveHolds, HoldsChange, Txns, SkipRunning, Visit, database, memory
<1>14. ASSUME NEW m \in Model, SkipIdle(m) PROVE LiveHolds'
  <2>1. pc # "reset" /\ UNCHANGED <<slot, sync>>
    BY <1>14 DEF SkipIdle, Visit, database
  <2>2. \A o \in Model : live'[o].on => live'[o] = live[o]
    BY <1>14 DEF SkipIdle, KeptLive, TypeOK, MemoryOK
  <2> QED
    BY <2>1, <2>2, LiveFrame
<1>15. ASSUME NEW m \in Model, TickIdle(m) PROVE LiveHolds'
  <2>1. pc = "models" /\ UNCHANGED <<slot, wal>>
    BY <1>15 DEF TickIdle, Starts, Visit
  <2> SUFFICES ASSUME NEW o \in Model, live'[o].on, sync'[o].caughtUp, NEW i \in Txns,
                      i <= slot.at \/ i <= sync'[o].confirmed
               PROVE  HoldsChange(o, live'[o].data, i)
    BY <2>1 DEF LiveHolds, HoldsChange, Txns
  <2>2. CASE o # m
    <3>1. live'[o] = live[o] /\ sync'[o] = sync[o]
      <4>1. sync'[o] = sync[o]
        BY <1>15, <2>2, TickRecords
      <4>2. live'[o] = live[o]
        BY <1>15, <2>2 DEF TickIdle, TypeOK, MemoryOK
      <4> QED
        BY <4>1, <4>2
    <3> QED
      BY <2>1, <3>1 DEF LiveHolds
  <2>3. CASE o = m
    <3>1. live'[m].data = Mapped(m, Current(m).data, Unapplied(m)) /\ Starts(m)
      BY <1>15 DEF TickIdle, TypeOK, MemoryOK
    <3>2. \/ i <= slot.at
          \/ i <= sync[m].confirmed
          \/ Unapplied(m) # {} /\ i <= Max(Unapplied(m))
      BY <1>15, <2>3, TickRecords
    <3> QED
      BY <2>3, <3>1, <3>2, BatchHolds
  <2> QED
    BY <2>2, <2>3
<1>16. ASSUME NEW m \in Model, TickSubmit(m) PROVE LiveHolds'
  <2>1. pc # "reset" /\ UNCHANGED slot
    BY <1>16 DEF TickSubmit, Starts, Visit
  <2>2. \A o \in Model : live'[o].on => o # m /\ live'[o] = live[o]
    BY <1>16 DEF TickSubmit, TypeOK, MemoryOK
  <2> QED
    BY <1>16, <2>1, <2>2, LiveFrame, TickRecords
<1>17. ASSUME NEW m \in Model, TickRebuild(m) PROVE LiveHolds'
  <2>1. pc = "models" /\ UNCHANGED <<slot, wal>>
    BY <1>17 DEF TickRebuild, Starts, Visit
  <2> SUFFICES ASSUME NEW o \in Model, live'[o].on, sync'[o].caughtUp, NEW i \in Txns,
                      i <= slot.at \/ i <= sync'[o].confirmed
               PROVE  HoldsChange(o, live'[o].data, i)
    BY <2>1 DEF LiveHolds, HoldsChange, Txns
  <2>2. CASE o # m
    <3>1. live'[o] = live[o] /\ sync'[o] = sync[o]
      <4>1. sync'[o] = sync[o]
        BY <1>17, <2>2, TickRecords
      <4>2. live'[o] = live[o]
        BY <1>17, <2>2 DEF TickRebuild, TypeOK, MemoryOK
      <4> QED
        BY <4>1, <4>2
    <3> QED
      BY <2>1, <3>1 DEF LiveHolds
  <2>3. CASE o = m
    <3>1. live'[m].data = Load(m)
      BY <1>17 DEF TickRebuild, Rebuilt, TypeOK, MemoryOK
    <3> QED
      BY <2>3, <3>1, LoadHolds
  <2> QED
    BY <2>2, <2>3
<1>18. ASSUME NEW m \in Model, TickFail(m) PROVE LiveHolds'
  <2>1. pc # "reset" /\ UNCHANGED <<slot, sync>>
    BY <1>18 DEF TickFail, Starts, Visit
  <2>2. \A o \in Model : live'[o].on => live'[o] = live[o]
    BY <1>18 DEF TickFail, TypeOK, MemoryOK
  <2> QED
    BY <2>1, <2>2, LiveFrame
<1>19. CASE Visited
  BY <1>19 DEF LiveHolds, HoldsChange, Txns, Visited, database, memory
<1>20. ASSUME NEW m \in Model, FinishWrite(m) PROVE LiveHolds'
  <2>1. pc # "reset" /\ UNCHANGED <<slot, wal>>
    BY <1>20 DEF FinishWrite, Collect
  <2> SUFFICES ASSUME NEW o \in Model, live'[o].on, sync'[o].caughtUp, NEW i \in Txns,
                      i <= slot.at \/ i <= sync'[o].confirmed
               PROVE  HoldsChange(o, live'[o].data, i)
    BY <2>1 DEF LiveHolds, HoldsChange, Txns
  <2>2. CASE o # m
    <3>1. live'[o] = live[o] /\ sync'[o] = sync[o]
      <4>1. sync'[o] = sync[o]
        BY <1>20, <2>2, FinishRecords
      <4>2. live'[o] = live[o]
        BY <1>20, <2>2 DEF FinishWrite, TypeOK, MemoryOK
      <4> QED
        BY <4>1, <4>2
    <3> QED
      BY <2>1, <3>1 DEF LiveHolds
  <2>3. CASE o = m
    <3>1. live'[m].data = inflight[m].data /\ inflight[m].on
      BY <1>20 DEF FinishWrite, Collect, TypeOK, MemoryOK
    <3>2. sync'[m].confirmed = inflight[m].last
      BY <1>20, <2>3, FinishRecords DEF Visits
    <3>3. slot.at < inflight[m].first /\ inflight[m].first <= inflight[m].last
          /\ inflight[m].first \in Nat /\ inflight[m].last \in Nat /\ slot.at \in Nat /\ i \in Nat
      BY <3>1, RowTypes DEF Positions, Rounds, TypeOK, DatabaseOK, Slots
    <3>4. i <= inflight[m].last
      BY <2>3, <3>2, <3>3
    <3> QED
      BY <2>3, <3>1, <3>4 DEF RoundHolds
  <2> QED
    BY <2>2, <2>3
<1>21. ASSUME NEW m \in Model, FinishRebuild(m) PROVE LiveHolds'
  <2>1. pc # "reset" /\ UNCHANGED <<slot, wal>>
    BY <1>21 DEF FinishRebuild, Collect
  <2> SUFFICES ASSUME NEW o \in Model, live'[o].on, sync'[o].caughtUp, NEW i \in Txns,
                      i <= slot.at \/ i <= sync'[o].confirmed
               PROVE  HoldsChange(o, live'[o].data, i)
    BY <2>1 DEF LiveHolds, HoldsChange, Txns
  <2>2. CASE o # m
    <3>1. live'[o] = live[o] /\ sync'[o] = sync[o]
      <4>1. sync'[o] = sync[o]
        BY <1>21, <2>2, FinishRecords
      <4>2. live'[o] = live[o]
        BY <1>21, <2>2 DEF FinishRebuild, TypeOK, MemoryOK
      <4> QED
        BY <4>1, <4>2
    <3> QED
      BY <2>1, <3>1 DEF LiveHolds
  <2>3. CASE o = m
    <3>1. live'[m].data = Load(m)
      BY <1>21 DEF FinishRebuild, Rebuilt, TypeOK, MemoryOK
    <3> QED
      BY <2>3, <3>1, LoadHolds
  <2> QED
    BY <2>2, <2>3
<1>22. ASSUME NEW m \in Model, FinishFail(m) PROVE LiveHolds'
  BY <1>22, LiveFrame DEF FinishFail, Collect
<1>23. CASE Finished
  BY <1>23 DEF LiveHolds, HoldsChange, Txns, Finished, database, memory
<1>24. CASE Advance
  <2>1. pc = "advance" /\ UNCHANGED <<wal, live, sync>>
    BY <1>24 DEF Advance, memory
  <2>2. slot'.at = slot.at \/ slot'.at <= SlotTarget
    BY <1>24, AdvanceOf
  <2> SUFFICES ASSUME NEW m \in Model, live[m].on, sync[m].caughtUp, NEW i \in Txns,
                      i <= slot'.at \/ i <= sync[m].confirmed
               PROVE  HoldsChange(m, live[m].data, i)
    BY <2>1 DEF LiveHolds, HoldsChange, Txns
  <2>3. CASE i <= slot.at \/ i <= sync[m].confirmed
    BY <2>1, <2>3 DEF LiveHolds
  <2>4. CASE ~(i <= slot.at \/ i <= sync[m].confirmed)
    <3>1. i \in Nat /\ i > 0 /\ slot'.at \in Nat /\ SlotTarget \in Nat /\ upto \in Nat
      BY <1>24, SlotTargetOf, TypeStep, RowTypes
      DEF Txns, TypeOK, DatabaseOK, SweepOK, Slots, Next, Worker
    <3>2. i <= SlotTarget
      BY <2>2, <2>4, <3>1
    <3>3. MayPass(i)
      BY <3>1, <3>2, BelowTarget
    <3> QED
      BY <2>1, <3>3 DEF VisitedHold, Decoding, Visits
  <2> QED
    BY <2>3, <2>4
<1>25. CASE Crash
  BY <1>25 DEF LiveHolds, Crash
<1>26. CASE UNCHANGED vars
  BY <1>26 DEF LiveHolds, HoldsChange, Txns, vars, database, memory, sweep
<1> QED
  BY <1>1, <1>2, <1>3, <1>4, <1>5, <1>6, <1>7, <1>8, <1>9, <1>10, <1>11, <1>12,
     <1>13, <1>14, <1>15, <1>16, <1>17, <1>18, <1>19, <1>20, <1>21, <1>22, <1>23,
     <1>24, <1>25, <1>26
  DEF Next, Environment, Worker, Tick, Finish

\* Steps that start no round.
LEMMA RoundFrame ==
  ASSUME TypeOK, Positions, RoundHolds, [Next]_vars,
         \A m \in Model : inflight'[m].on =>
            /\ inflight[m].on
            /\ inflight'[m].data = inflight[m].data
            /\ inflight'[m].last = inflight[m].last
  PROVE  RoundHolds'
<1> SUFFICES ASSUME NEW m \in Model, inflight'[m].on, NEW i \in Txns', i <= inflight'[m].last
             PROVE  HoldsChange(m, inflight[m].data, i)'
  BY DEF RoundHolds
<1>1. /\ inflight[m].on /\ inflight'[m].data = inflight[m].data
      /\ inflight'[m].last = inflight[m].last
  OBVIOUS
<1>2. inflight[m].last <= Len(wal) /\ inflight[m].last \in Nat /\ Len(wal) \in Nat
  BY <1>1, RowTypes DEF Positions, Rounds
<1>3. i \in Txns /\ wal'[i] = wal[i]
  BY <1>1, <1>2, WalGrows DEF Txns
<1>4. HoldsChange(m, inflight[m].data, i)
  BY <1>1, <1>3 DEF RoundHolds
<1> QED
  BY <1>1, <1>3, <1>4 DEF HoldsChange

LEMMA RoundStep ==
  ASSUME TypeOK, Positions, TablesHold, DecodedPastSlot, DecodedAll, Visits, LiveHolds,
         RoundHolds, [Next]_vars
  PROVE  RoundHolds'
<1> USE NoneTypes
<1>1. ASSUME NEW rels \in SUBSET Rel, Commit(rels) PROVE RoundHolds'
  BY <1>1, RoundFrame DEF Commit, memory
<1>2. ASSUME NEW i \in hidden, Show(i) PROVE RoundHolds'
  BY <1>2, RoundFrame DEF Show, memory
<1>3. ASSUME NEW r \in Rel, MovePartition(r) PROVE RoundHolds'
  BY <1>3, RoundFrame DEF MovePartition, memory
<1>4. ASSUME NEW m \in Model, Define(m) PROVE RoundHolds'
  BY <1>4, RoundFrame DEF Define, memory
<1>5. ASSUME NEW m \in Model, SetSyncMode(m) PROVE RoundHolds'
  BY <1>5, RoundFrame DEF SetSyncMode, memory
<1>6. CASE LoseSlot
  BY <1>6, RoundFrame DEF LoseSlot, memory
<1>7. ASSUME NEW m \in Model, EndRound(m) PROVE RoundHolds'
  <2>1. \A o \in Model : inflight[o] \in Rounds
    BY RowTypes
  <2>2. ASSUME NEW o \in Model
        PROVE  inflight'[o].on = inflight[o].on /\ inflight'[o].data = inflight[o].data
               /\ inflight'[o].last = inflight[o].last
    BY <1>7, <2>1 DEF EndRound, Rounds, TypeOK, MemoryOK
  <2> QED
    BY <2>2, RoundFrame
<1>8. ASSUME NEW m \in Model, Due(m) PROVE RoundHolds'
  BY <1>8, RoundFrame DEF Due
<1>9. CASE Listing
  BY <1>9, RoundFrame DEF Listing
<1>10. CASE EnsureSlot
  BY <1>10, RoundFrame DEF EnsureSlot
<1>11. CASE ResetProgress
  BY <1>11, RoundFrame DEF ResetProgress, memory
<1>12. CASE Peek
  BY <1>12, RoundFrame DEF Peek
<1>13. ASSUME NEW m \in Model, SkipRunning(m) PROVE RoundHolds'
  BY <1>13, RoundFrame DEF SkipRunning, memory
<1>14. ASSUME NEW m \in Model, SkipIdle(m) PROVE RoundHolds'
  BY <1>14, RoundFrame DEF SkipIdle
<1>15. ASSUME NEW m \in Model, TickIdle(m) PROVE RoundHolds'
  BY <1>15, RoundFrame DEF TickIdle
<1>16. ASSUME NEW m \in Model, TickSubmit(m) PROVE RoundHolds'
  <2>1. UNCHANGED wal /\ Starts(m)
    BY <1>16 DEF TickSubmit, Starts
  <2> SUFFICES ASSUME NEW o \in Model, inflight'[o].on, NEW i \in Txns, i <= inflight'[o].last
               PROVE  HoldsChange(o, inflight'[o].data, i)
    BY <2>1 DEF RoundHolds, HoldsChange, Txns
  <2>2. CASE o # m
    BY <1>16, <2>2, SubmitOf DEF RoundHolds
  <2>3. CASE o = m
    <3>1. inflight'[m].data = Mapped(m, Current(m).data, Unapplied(m))
      BY <1>16, SubmitOf
    <3>2. Unapplied(m) # {} /\ i <= Max(Unapplied(m))
      BY <1>16, <2>3, SubmitOf
    <3> QED
      BY <2>1, <2>3, <3>1, <3>2, BatchHolds
  <2> QED
    BY <2>2, <2>3
<1>17. ASSUME NEW m \in Model, TickRebuild(m) PROVE RoundHolds'
  BY <1>17, RoundFrame DEF TickRebuild
<1>18. ASSUME NEW m \in Model, TickFail(m) PROVE RoundHolds'
  BY <1>18, RoundFrame DEF TickFail
<1>19. CASE Visited
  BY <1>19, RoundFrame DEF Visited, memory
<1>20. ASSUME NEW m \in Model, FinishWrite(m) PROVE RoundHolds'
  BY <1>20, RoundFrame DEF FinishWrite, Collect, TypeOK, MemoryOK
<1>21. ASSUME NEW m \in Model, FinishRebuild(m) PROVE RoundHolds'
  BY <1>21, RoundFrame DEF FinishRebuild, Collect, TypeOK, MemoryOK
<1>22. ASSUME NEW m \in Model, FinishFail(m) PROVE RoundHolds'
  BY <1>22, RoundFrame DEF FinishFail, Collect, TypeOK, MemoryOK
<1>23. CASE Finished
  BY <1>23, RoundFrame DEF Finished, memory
<1>24. CASE Advance
  BY <1>24, RoundFrame DEF Advance, memory
<1>25. CASE Crash
  BY <1>25, RoundFrame DEF Crash
<1>26. CASE UNCHANGED vars
  BY <1>26, RoundFrame DEF vars, memory
<1> QED
  BY <1>1, <1>2, <1>3, <1>4, <1>5, <1>6, <1>7, <1>8, <1>9, <1>10, <1>11, <1>12,
     <1>13, <1>14, <1>15, <1>16, <1>17, <1>18, <1>19, <1>20, <1>21, <1>22, <1>23,
     <1>24, <1>25, <1>26
  DEF Next, Environment, Worker, Tick, Finish

\* Steps within a sweep that give no model a new state.
LEMMA VisitedFrame ==
  ASSUME TypeOK, VisitedHold, [Next]_vars,
         Decoding' => Decoding /\ upto' = upto /\ held \subseteq held',
         \A m \in Model \ todo' :
            /\ m \notin todo
            /\ live'[m].on /\ sync'[m].caughtUp =>
                 live[m].on /\ sync[m].caughtUp /\ live'[m].data = live[m].data
            /\ inflight'[m].on => inflight[m].on /\ inflight'[m].data = inflight[m].data
  PROVE  VisitedHold'
<1> SUFFICES ASSUME Decoding', NEW m \in Model \ todo', NEW i \in Txns', MayPass(i)'
             PROVE  /\ live'[m].on /\ sync'[m].caughtUp => HoldsChange(m, live[m].data, i)'
                    /\ inflight'[m].on => HoldsChange(m, inflight[m].data, i)'
  BY DEF VisitedHold
<1>1. upto \in Nat /\ upto <= Len(wal) /\ Len(wal) \in Nat
  BY RowTypes DEF TypeOK, SweepOK
<1>2. MayPass(i)
  BY DEF MayPass
<1>3. i \in Txns /\ wal'[i] = wal[i]
  BY <1>1, <1>2, WalGrows DEF MayPass, Txns
<1>4. /\ live[m].on /\ sync[m].caughtUp => HoldsChange(m, live[m].data, i)
      /\ inflight[m].on => HoldsChange(m, inflight[m].data, i)
  BY <1>2, <1>3 DEF VisitedHold
<1> QED
  BY <1>3, <1>4 DEF HoldsChange

\* A step that visits m: the other models keep what they hold.
LEMMA VisitFrame ==
  ASSUME TypeOK, VisitedHold, NEW m \in Model, Visit(m), held \subseteq held', UNCHANGED wal,
         \A o \in Model : o # m =>
            live'[o] = live[o] /\ sync'[o] = sync[o] /\ inflight'[o] = inflight[o],
         \A i \in Txns : MayPass(i)' =>
            /\ live'[m].on /\ sync'[m].caughtUp => HoldsChange(m, live'[m].data, i)
            /\ inflight'[m].on => HoldsChange(m, inflight'[m].data, i)
  PROVE  VisitedHold'
<1> SUFFICES ASSUME NEW o \in Model \ todo', NEW i \in Txns, MayPass(i)'
             PROVE  /\ live'[o].on /\ sync'[o].caughtUp => HoldsChange(o, live'[o].data, i)
                    /\ inflight'[o].on => HoldsChange(o, inflight'[o].data, i)
  BY DEF VisitedHold, HoldsChange, Txns
<1>1. CASE o = m
  BY <1>1
<1>2. CASE o # m
  <2>1. o \notin todo /\ Decoding
    BY <1>2 DEF Visit, Decoding
  <2>2. MayPass(i)
    BY DEF MayPass, Visit
  <2> QED
    BY <1>2, <2>1, <2>2 DEF VisitedHold
<1> QED
  BY <1>1, <1>2

LEMMA VisitedStep ==
  ASSUME TypeOK, Positions, TablesHold, DecodedPastSlot, DecodedAll, OneLive, Visits, LiveHolds,
         RoundHolds, VisitedHold, [Next]_vars
  PROVE  VisitedHold'
<1> USE NoneTypes
<1>1. ASSUME NEW rels \in SUBSET Rel, Commit(rels) PROVE VisitedHold'
  BY <1>1, VisitedFrame DEF Decoding, Commit, memory, sweep
<1>2. ASSUME NEW i \in hidden, Show(i) PROVE VisitedHold'
  BY <1>2, VisitedFrame DEF Decoding, Show, memory, sweep
<1>3. ASSUME NEW r \in Rel, MovePartition(r) PROVE VisitedHold'
  BY <1>3, VisitedFrame DEF Decoding, MovePartition, memory, sweep
<1>4. ASSUME NEW m \in Model, Define(m) PROVE VisitedHold'
  BY <1>4, VisitedFrame DEF Decoding, Define, memory, sweep
<1>5. ASSUME NEW m \in Model, SetSyncMode(m) PROVE VisitedHold'
  BY <1>5, VisitedFrame DEF Decoding, SetSyncMode, memory, sweep, TypeOK, DatabaseOK
<1>6. CASE LoseSlot
  BY <1>6, VisitedFrame DEF Decoding, LoseSlot, memory, sweep
<1>7. ASSUME NEW m \in Model, EndRound(m) PROVE VisitedHold'
  <2>1. \A o \in Model : inflight[o] \in Rounds
    BY RowTypes
  <2>2. \A o \in Model : inflight'[o].on = inflight[o].on /\ inflight'[o].data = inflight[o].data
    BY <1>7, <2>1 DEF EndRound, Rounds, TypeOK, MemoryOK
  <2>3. UNCHANGED <<pc, upto, held, todo, live, sync>>
    BY <1>7 DEF EndRound, database, sweep
  <2> QED
    BY <2>2, <2>3, VisitedFrame DEF Decoding
<1>8. ASSUME NEW m \in Model, Due(m) PROVE VisitedHold'
  BY <1>8, VisitedFrame DEF Decoding, Due, database, sweep
<1>9. CASE Listing
  <2>1. ~Decoding'
    BY <1>9 DEF Listing, EndSweep, Decoding
  <2> QED
    BY <2>1 DEF VisitedHold
<1>10. CASE EnsureSlot
  <2>1. ~Decoding'
    BY <1>10 DEF EnsureSlot, EndSweep, Decoding
  <2> QED
    BY <2>1 DEF VisitedHold
<1>11. CASE ResetProgress
  <2>1. ~Decoding'
    BY <1>11 DEF ResetProgress, EndSweep, Decoding
  <2> QED
    BY <2>1 DEF VisitedHold
<1>12. CASE Peek
  <2>1. CASE EndSweep
    BY <2>1 DEF VisitedHold, Decoding, EndSweep
  <2>2. CASE ~EndSweep
    <3>1. UNCHANGED <<todo, live, inflight>> /\ pc = "peek"
      BY <1>12, <2>2 DEF Peek
    <3>2. \A m \in Model \ todo : ~live[m].on /\ ~inflight[m].on
      BY <3>1 DEF Visits
    <3> QED
      BY <3>1, <3>2 DEF VisitedHold
  <2> QED
    BY <2>1, <2>2
<1>13. ASSUME NEW m \in Model, SkipRunning(m) PROVE VisitedHold'
  <2>1. UNCHANGED <<wal, live, sync, inflight>> /\ held \subseteq held' /\ Visit(m)
    BY <1>13 DEF SkipRunning, database, memory
  <2>2. inflight[m].on /\ ~live[m].on /\ inflight[m].first \in held'
    BY <1>13 DEF SkipRunning, OneLive
  <2>3. ASSUME NEW i \in Txns, MayPass(i)' PROVE HoldsChange(m, inflight[m].data, i)
    <3>1. i < inflight[m].first
      BY <2>2, <2>3 DEF MayPass
    <3>2. inflight[m].first <= inflight[m].last /\ i \in Nat /\ inflight[m].first \in Nat
          /\ inflight[m].last \in Nat
      BY <2>2, RowTypes DEF Positions, Rounds
    <3>3. i <= inflight[m].last
      BY <3>1, <3>2
    <3> QED
      BY <2>2, <3>3 DEF RoundHolds
  <2> QED
    BY <2>1, <2>2, <2>3, VisitFrame
<1>14. ASSUME NEW m \in Model, SkipIdle(m) PROVE VisitedHold'
  <2>1. UNCHANGED <<wal, sync, inflight, held, upto>> /\ Visit(m)
    BY <1>14 DEF SkipIdle, Visit, database
  <2>2. \A o \in Model : o # m => live'[o] = live[o]
    BY <1>14 DEF SkipIdle, TypeOK, MemoryOK
  <2>3. ~inflight[m].on /\ live'[m] = KeptLive(m)
    BY <1>14 DEF SkipIdle, TypeOK, MemoryOK
  <2>4. ASSUME NEW i \in Txns, MayPass(i)', live'[m].on, sync[m].caughtUp
        PROVE  HoldsChange(m, live'[m].data, i)
    <3>1. live'[m] = live[m] /\ live[m].on
      BY <2>3, <2>4 DEF KeptLive
    <3>2. Routed(m) = {}
      BY <1>14, <3>1 DEF SkipIdle, OneLive, Unchanged
    <3>3. pc = "models" /\ m \in todo /\ i <= upto
      BY <2>1, <2>4 DEF Visit, MayPass
    <3>4. listed[m].confirmed <= sync[m].confirmed
      BY <2>4, <3>3 DEF Visits
    <3>5. i \in Nat /\ slot.at \in Nat /\ listed[m].confirmed \in Nat /\ sync[m].confirmed \in Nat
      BY RowTypes DEF ListedRows, SyncRows, TypeOK, DatabaseOK, Slots
    <3>6. CASE wal[i].sent \cap Binds[m] = {}
      BY <3>6 DEF HoldsChange
    <3>7. CASE i <= slot.at \/ i <= sync[m].confirmed
      BY <2>4, <3>1, <3>3, <3>7 DEF LiveHolds
    <3>8. CASE wal[i].sent \cap Binds[m] # {} /\ ~(i <= slot.at \/ i <= sync[m].confirmed)
      <4>1. i \in done
        BY <3>3, <3>5, <3>8 DEF DecodedAll, Decoding
      <4>2. i \in Routed(m)
        BY <3>4, <3>5, <3>8, <4>1 DEF Routed
      <4> QED
        BY <3>2, <4>2
    <3> QED
      BY <3>6, <3>7, <3>8
  <2> QED
    BY <2>1, <2>2, <2>3, <2>4, VisitFrame
<1>15. ASSUME NEW m \in Model, TickIdle(m) PROVE VisitedHold'
  <2>1. UNCHANGED <<wal, held, inflight, upto>> /\ Visit(m) /\ Starts(m) /\ ~inflight[m].on
    BY <1>15 DEF TickIdle, Starts, Visit
  <2>2. \A o \in Model : o # m => live'[o] = live[o]
    BY <1>15 DEF TickIdle, TypeOK, MemoryOK
  <2>3. \A o \in Model : o # m => sync'[o] = sync[o]
    BY <1>15, TickRecords
  <2>4. live'[m].data = Mapped(m, Current(m).data, Unapplied(m))
    BY <1>15 DEF TickIdle, TypeOK, MemoryOK
  <2>5. ASSUME NEW i \in Txns, MayPass(i)' PROVE HoldsChange(m, live'[m].data, i)
    BY <2>1, <2>4, <2>5, BatchHolds DEF MayPass
  <2> QED
    BY <2>1, <2>2, <2>3, <2>5, VisitFrame
<1>16. ASSUME NEW m \in Model, TickSubmit(m) PROVE VisitedHold'
  <2>1. UNCHANGED <<wal, held, upto>> /\ Visit(m) /\ Starts(m)
    BY <1>16 DEF TickSubmit, Starts, Visit
  <2>2. \A o \in Model : o # m => live'[o] = live[o]
    BY <1>16 DEF TickSubmit, TypeOK, MemoryOK
  <2>3. ~live'[m].on
    BY <1>16 DEF TickSubmit, TypeOK, MemoryOK
  <2>4. \A o \in Model : o # m => sync'[o] = sync[o] /\ inflight'[o] = inflight[o]
    BY <1>16, TickRecords, SubmitOf
  <2>5. inflight'[m].data = Mapped(m, Current(m).data, Unapplied(m))
    BY <1>16, SubmitOf
  <2>6. ASSUME NEW i \in Txns, MayPass(i)' PROVE HoldsChange(m, inflight'[m].data, i)
    BY <2>1, <2>5, <2>6, BatchHolds DEF MayPass
  <2> QED
    BY <2>1, <2>2, <2>3, <2>4, <2>6, VisitFrame
<1>17. ASSUME NEW m \in Model, TickRebuild(m) PROVE VisitedHold'
  <2>1. UNCHANGED <<wal, held, inflight>> /\ Visit(m) /\ ~inflight[m].on
    BY <1>17 DEF TickRebuild, Starts
  <2>2. \A o \in Model : o # m => live'[o] = live[o]
    BY <1>17 DEF TickRebuild, TypeOK, MemoryOK
  <2>3. \A o \in Model : o # m => sync'[o] = sync[o]
    BY <1>17, TickRecords
  <2>4. live'[m].data = Load(m)
    BY <1>17 DEF TickRebuild, Rebuilt, TypeOK, MemoryOK
  <2>5. \A i \in Txns : HoldsChange(m, live'[m].data, i)
    BY <2>4, LoadHolds
  <2> QED
    BY <2>1, <2>2, <2>3, <2>5, VisitFrame
<1>18. ASSUME NEW m \in Model, TickFail(m) PROVE VisitedHold'
  <2>1. UNCHANGED <<wal, held, inflight, sync>> /\ Visit(m) /\ ~inflight[m].on
    BY <1>18 DEF TickFail, Starts
  <2>2. (\A o \in Model : o # m => live'[o] = live[o]) /\ ~live'[m].on
    BY <1>18 DEF TickFail, TypeOK, MemoryOK
  <2> QED
    BY <2>1, <2>2, VisitFrame
<1>19. CASE Visited
  BY <1>19, VisitedFrame DEF Decoding, Visited, database, memory
<1>20. ASSUME NEW m \in Model, FinishWrite(m) PROVE VisitedHold'
  <2>1. UNCHANGED <<wal, pc, todo, upto, held>> /\ inflight[m].on
    BY <1>20 DEF FinishWrite, Collect, sweep
  <2>2. \A o \in Model : o # m => live'[o] = live[o] /\ inflight'[o] = inflight[o]
    BY <1>20 DEF FinishWrite, Collect, TypeOK, MemoryOK
  <2>3. \A o \in Model : o # m => sync'[o] = sync[o]
    BY <1>20, FinishRecords
  <2>4. live'[m].data = inflight[m].data /\ ~inflight'[m].on
    BY <1>20 DEF FinishWrite, Collect, TypeOK, MemoryOK
  <2> SUFFICES ASSUME Decoding, NEW o \in Model \ todo, NEW i \in Txns, MayPass(i)
               PROVE  /\ live'[o].on /\ sync'[o].caughtUp => HoldsChange(o, live'[o].data, i)
                      /\ inflight'[o].on => HoldsChange(o, inflight'[o].data, i)
    BY <2>1 DEF VisitedHold, HoldsChange, Txns, MayPass, Decoding
  <2>5. CASE o = m
    BY <2>1, <2>4, <2>5, LoadHolds DEF VisitedHold
  <2>6. CASE o # m
    BY <2>2, <2>3, <2>6 DEF VisitedHold
  <2> QED
    BY <2>5, <2>6
<1>21. ASSUME NEW m \in Model, FinishRebuild(m) PROVE VisitedHold'
  <2>1. UNCHANGED <<wal, pc, todo, upto, held>> /\ inflight[m].on
    BY <1>21 DEF FinishRebuild, Collect, sweep
  <2>2. \A o \in Model : o # m => live'[o] = live[o] /\ inflight'[o] = inflight[o]
    BY <1>21 DEF FinishRebuild, Collect, TypeOK, MemoryOK
  <2>3. \A o \in Model : o # m => sync'[o] = sync[o]
    BY <1>21, FinishRecords
  <2>4. live'[m].data = Load(m) /\ ~inflight'[m].on
    BY <1>21 DEF FinishRebuild, Collect, Rebuilt, TypeOK, MemoryOK
  <2> SUFFICES ASSUME Decoding, NEW o \in Model \ todo, NEW i \in Txns, MayPass(i)
               PROVE  /\ live'[o].on /\ sync'[o].caughtUp => HoldsChange(o, live'[o].data, i)
                      /\ inflight'[o].on => HoldsChange(o, inflight'[o].data, i)
    BY <2>1 DEF VisitedHold, HoldsChange, Txns, MayPass, Decoding
  <2>5. CASE o = m
    BY <2>1, <2>4, <2>5, LoadHolds DEF VisitedHold
  <2>6. CASE o # m
    BY <2>2, <2>3, <2>6 DEF VisitedHold
  <2> QED
    BY <2>5, <2>6
<1>22. ASSUME NEW m \in Model, FinishFail(m) PROVE VisitedHold'
  BY <1>22, VisitedFrame DEF Decoding, FinishFail, Collect, sweep, TypeOK, MemoryOK
<1>23. CASE Finished
  BY <1>23, VisitedFrame DEF Decoding, Finished, database, memory
<1>24. CASE Advance
  <2>1. ~Decoding'
    BY <1>24 DEF Advance, EndSweep, Decoding
  <2> QED
    BY <2>1 DEF VisitedHold
<1>25. CASE Crash
  <2>1. ~Decoding'
    BY <1>25 DEF Crash, EndSweep, Decoding
  <2> QED
    BY <2>1 DEF VisitedHold
<1>26. CASE UNCHANGED vars
  BY <1>26, VisitedFrame DEF Decoding, vars, database, memory, sweep
<1> QED
  BY <1>1, <1>2, <1>3, <1>4, <1>5, <1>6, <1>7, <1>8, <1>9, <1>10, <1>11, <1>12,
     <1>13, <1>14, <1>15, <1>16, <1>17, <1>18, <1>19, <1>20, <1>21, <1>22, <1>23,
     <1>24, <1>25, <1>26
  DEF Next, Environment, Worker, Tick, Finish

-----------------------------------------------------------------------------
(* What the result tables hold. *)

\* Every step keeps the inductive invariant.
LEMMA IInvStep ==
  ASSUME TypeOK, IInv, "lag" \notin Env, "reset" \notin Env, [Next]_vars
  PROVE  IInv'
<1>1. Positions' /\ DecodedPastSlot' /\ DecodedAll'
  BY PositionsStep, DecodedStep DEF IInv
<1>2. TablesHold' /\ OneLive' /\ Visits'
  BY TablesStep, OneLiveStep, VisitsStep DEF IInv
<1>3. LiveHolds' /\ RoundHolds' /\ VisitedHold'
  BY LiveStep, RoundStep, VisitedStep DEF IInv
<1> QED
  BY <1>1, <1>2, <1>3 DEF IInv

\* The result tables of model m hold what its progress names.
Backed(m) == \A i \in Txns : i <= sync[m].confirmed => HoldsChange(m, res[m].data, i)

LEMMA BackedIs == ProgressIsBacked <=> \A m \in logical : Backed(m)
  BY DEF ProgressIsBacked, Backed, HoldsChange

\* A transaction that is new to the WAL is past every recorded position.
LEMMA BackedFrame ==
  ASSUME TypeOK, [Next]_vars, NEW m \in Model, sync'[m].confirmed \in Nat,
         sync'[m].confirmed <= Len(wal),
         \A i \in Txns : i <= sync'[m].confirmed => HoldsChange(m, res'[m].data, i)
  PROVE  Backed(m)'
<1> SUFFICES ASSUME NEW i \in Txns', i <= sync'[m].confirmed
             PROVE  HoldsChange(m, res[m].data, i)'
  BY DEF Backed
<1>1. i \in Txns /\ wal'[i] = wal[i]
  BY WalGrows, RowTypes DEF Txns
<1>2. HoldsChange(m, res'[m].data, i)
  BY <1>1
<1> QED
  BY <1>1, <1>2 DEF HoldsChange

\* A model whose progress and results a step leaves, and one whose progress it
\* forgets.
LEMMA BackedKept ==
  ASSUME TypeOK, Positions, [Next]_vars, NEW m \in Model,
         \/ sync'[m] = Unsynced
         \/ Backed(m) /\ sync'[m].confirmed = sync[m].confirmed /\ res'[m] = res[m]
  PROVE  Backed(m)'
<1>1. Len(wal) \in Nat /\ sync[m].confirmed \in Nat /\ \A i \in Txns : i \in Nat /\ i > 0
  BY RowTypes DEF SyncRows, Txns
<1>2. CASE sync'[m] = Unsynced
  <2>1. sync'[m].confirmed = 0
    BY <1>2, NoneTypes
  <2> QED
    BY <1>1, <2>1, BackedFrame
<1>3. CASE Backed(m) /\ sync'[m].confirmed = sync[m].confirmed /\ res'[m] = res[m]
  <2>1. sync[m].confirmed <= Len(wal)
    BY DEF Positions
  <2> QED
    BY <1>1, <1>3, <2>1, BackedFrame DEF Backed
<1> QED
  BY <1>2, <1>3

\* Results a rebuild wrote hold everything a load does.
LEMMA ComputedBacked ==
  ASSUME TypeOK, TypeOK', Positions, TablesHold, [Next]_vars, NEW m \in Model,
         res'[m] = Computed(m),
         sync'[m].confirmed = sync[m].confirmed \/ sync'[m].confirmed <= Len(wal)
  PROVE  Backed(m)'
<1>1. \A i \in Txns : HoldsChange(m, res'[m].data, i)
  BY LoadHolds DEF Computed
<1>2. sync'[m].confirmed \in Nat /\ sync'[m].confirmed <= Len(wal)
  BY DEF Positions, TypeOK, DatabaseOK, SyncRows
<1> QED
  BY <1>1, <1>2, BackedFrame

\* What finish writes over the old results is what the round computed.
LEMMA WrittenOf ==
  ASSUME TypeOK, ResultsFollowLive, NEW m \in Model, FinishWrite(m)
  PROVE  res'[m].data = inflight[m].data
<1> DEFINE f == inflight[m]
<1>1. f \in Rounds /\ res[m] \in Results /\ f.on
  BY RowTypes DEF FinishWrite, Collect
<1>2. res'[m] = [res[m] EXCEPT !.data = [r \in Rel |-> IF r \in f.touched THEN f.data[r]
                                                     ELSE res[m].data[r]]]
  BY DEF FinishWrite, TypeOK, DatabaseOK
<1>3. \A r \in Rel \ f.touched : res[m].data[r] = f.data[r]
  BY <1>1 DEF ResultsFollowLive
<1>4. [r \in Rel |-> IF r \in f.touched THEN f.data[r] ELSE res[m].data[r]] = f.data
  BY <1>1, <1>3 DEF Rounds, Contents
<1> QED
  BY <1>1, <1>2, <1>4 DEF Results

\* A batch that edits no cell was in the results already.
LEMMA BatchBacked ==
  ASSUME TypeOK, TypeOK', IInv, [Next]_vars, NEW m \in Model, TickIdle(m), Starts(m),
         res'[m].data = Mapped(m, Current(m).data, Unapplied(m))
  PROVE  Backed(m)'
<1>1. \/ sync'[m].confirmed = sync[m].confirmed
      \/ Unapplied(m) # {} /\ sync'[m].confirmed = Max(Unapplied(m))
  BY TickRecords
<1>2. sync'[m].confirmed \in Nat /\ sync'[m].confirmed <= Len(wal)
  BY <1>1, BatchOf, RowTypes DEF IInv, Positions, SyncRows
<1>3. \A i \in Txns : i <= sync'[m].confirmed
                        => HoldsChange(m, Mapped(m, Current(m).data, Unapplied(m)), i)
  BY <1>1, BatchHolds DEF IInv
<1> QED
  BY <1>2, <1>3, BackedFrame

LEMMA BackedStep ==
  ASSUME TypeOK, TypeOK', IInv, ResultsFollowLive, ProgressIsBacked, [Next]_vars
  PROVE  ProgressIsBacked'
<1> DEFINE Goal == \A m \in logical' : Backed(m)'
<1> SUFFICES Goal
  BY DEF ProgressIsBacked, Backed, HoldsChange
<1> USE BackedIs DEF IInv
<1>0. logical \subseteq Model /\ logical' \subseteq Model
  BY DEF TypeOK, DatabaseOK
<1>1. ASSUME NEW rels \in SUBSET Rel, Commit(rels) PROVE Goal
  BY <1>1, <1>0, BackedKept DEF Commit, memory
<1>2. ASSUME NEW i \in hidden, Show(i) PROVE Goal
  BY <1>2, <1>0, BackedKept DEF Show, memory
<1>3. ASSUME NEW r \in Rel, MovePartition(r) PROVE Goal
  BY <1>3, <1>0, BackedKept DEF MovePartition, memory
<1>4. ASSUME NEW m \in Model, Define(m) PROVE Goal
  BY <1>4, <1>0, BackedKept DEF Define, memory
<1>5. ASSUME NEW m \in Model, SetSyncMode(m) PROVE Goal
  <2>1. \A o \in Model : o # m => sync'[o] = sync[o] /\ (o \in logical' <=> o \in logical)
    BY <1>5 DEF SetSyncMode
  <2>2. sync'[m] = Unsynced /\ res' = res
    BY <1>5 DEF SetSyncMode, TypeOK, DatabaseOK
  <2> QED
    BY <1>0, <2>1, <2>2, BackedKept
<1>6. CASE LoseSlot
  BY <1>6, <1>0, BackedKept DEF LoseSlot, memory
<1>7. ASSUME NEW m \in Model, EndRound(m) PROVE Goal
  BY <1>7, <1>0, BackedKept DEF EndRound, database
<1>8. ASSUME NEW m \in Model, Due(m) PROVE Goal
  BY <1>8, <1>0, BackedKept DEF Due, database
<1>9. CASE Listing
  BY <1>9, <1>0, BackedKept DEF Listing
<1>10. CASE EnsureSlot
  BY <1>10, <1>0, BackedKept DEF EnsureSlot
<1>11. CASE ResetProgress
  BY <1>11, <1>0, BackedKept DEF ResetProgress
<1>12. CASE Peek
  BY <1>12, <1>0, BackedKept DEF Peek, database
<1>13. ASSUME NEW m \in Model, SkipRunning(m) PROVE Goal
  BY <1>13, <1>0, BackedKept DEF SkipRunning, database, memory
<1>14. ASSUME NEW m \in Model, SkipIdle(m) PROVE Goal
  BY <1>14, <1>0, BackedKept DEF SkipIdle, database
<1>15. ASSUME NEW m \in Model, TickIdle(m) PROVE Goal
  <2>1. \A o \in Model : o # m => sync'[o] = sync[o] /\ res'[o] = res[o]
    <3>1. \A o \in Model : o # m => sync'[o] = sync[o]
      BY <1>15, TickRecords
    <3>2. \A o \in Model : o # m => res'[o] = res[o]
      BY <1>15 DEF TickIdle, TypeOK, DatabaseOK
    <3> QED
      BY <3>1, <3>2
  <2>2. logical' = logical /\ Starts(m)
    BY <1>15 DEF TickIdle, Starts
  <2>3. res'[m].data = Mapped(m, Current(m).data, Unapplied(m))
    <3>1. res'[m] = IF NeedsBuild(m) THEN Computed(m) ELSE res[m]
      BY <1>15 DEF TickIdle, TypeOK, DatabaseOK
    <3>2. res'[m] = [version |-> Current(m).version, data |-> Current(m).data]
      BY <3>1, CurrentFollows, Zenon
    <3>3. res'[m].data = Current(m).data
      BY <3>2
    <3> QED
      BY <1>15, <3>3 DEF TickIdle
  <2>4. Backed(m)'
    BY <1>15, <2>2, <2>3, BatchBacked
  <2> QED
    BY <1>0, <2>1, <2>2, <2>4, BackedKept
<1>16. ASSUME NEW m \in Model, TickSubmit(m) PROVE Goal
  <2>1. \A o \in Model : o # m => sync'[o] = sync[o] /\ res'[o] = res[o]
    <3>1. \A o \in Model : o # m => sync'[o] = sync[o]
      BY <1>16, TickRecords
    <3>2. \A o \in Model : o # m => res'[o] = res[o]
      BY <1>16 DEF TickSubmit, TypeOK, DatabaseOK
    <3> QED
      BY <3>1, <3>2
  <2>2. logical' = logical /\ m \in logical
    BY <1>16 DEF TickSubmit, Starts
  <2>3. sync'[m].confirmed = sync[m].confirmed
    BY <1>16, <2>2, RecordOf DEF TickSubmit, RecordBuild
  <2>4. Backed(m)'
    <3>1. CASE NeedsBuild(m)
      BY <1>16, <2>3, <3>1, ComputedBacked DEF TickSubmit, TypeOK, DatabaseOK
    <3>2. CASE ~NeedsBuild(m)
      BY <1>16, <2>2, <2>3, <3>2, BackedKept DEF TickSubmit
    <3> QED
      BY <3>1, <3>2
  <2> QED
    BY <1>0, <2>1, <2>2, <2>4, BackedKept
<1>17. ASSUME NEW m \in Model, TickRebuild(m) PROVE Goal
  <2>1. \A o \in Model : o # m => sync'[o] = sync[o] /\ res'[o] = res[o]
    <3>1. \A o \in Model : o # m => sync'[o] = sync[o]
      BY <1>17, TickRecords
    <3>2. \A o \in Model : o # m => res'[o] = res[o]
      BY <1>17 DEF TickRebuild, TypeOK, DatabaseOK
    <3> QED
      BY <3>1, <3>2
  <2>2. logical' = logical
    BY <1>17 DEF TickRebuild, Starts
  <2>3. Backed(m)'
    <3>1. sync'[m].confirmed = sync[m].confirmed \/ sync'[m].confirmed <= Len(wal)
      BY <1>17, TickRecords, BatchOf
    <3> QED
      BY <1>17, <3>1, ComputedBacked DEF TickRebuild, TypeOK, DatabaseOK
  <2> QED
    BY <1>0, <2>1, <2>2, <2>3, BackedKept
<1>18. ASSUME NEW m \in Model, TickFail(m) PROVE Goal
  BY <1>18, <1>0, BackedKept DEF TickFail, Starts
<1>19. CASE Visited
  BY <1>19, <1>0, BackedKept DEF Visited, database, memory
<1>20. ASSUME NEW m \in Model, FinishWrite(m) PROVE Goal
  <2>1. \A o \in Model : o # m => sync'[o] = sync[o] /\ res'[o] = res[o]
    BY <1>20, FinishRecords DEF FinishWrite, TypeOK, DatabaseOK
  <2>2. logical' = logical /\ inflight[m].on
    BY <1>20 DEF FinishWrite, Collect
  <2>3. ASSUME m \in logical PROVE Backed(m)'
    <3>1. sync'[m].confirmed = inflight[m].last /\ inflight[m].last \in Nat
          /\ inflight[m].last <= Len(wal)
      BY <1>20, <2>2, <2>3, FinishRecords, RowTypes DEF Positions, Rounds
    <3>2. res'[m].data = inflight[m].data
      BY <1>20, WrittenOf
    <3> QED
      BY <2>2, <3>1, <3>2, BackedFrame DEF RoundHolds
  <2> QED
    BY <1>0, <2>1, <2>2, <2>3, BackedKept
<1>21. ASSUME NEW m \in Model, FinishRebuild(m) PROVE Goal
  <2>1. \A o \in Model : o # m => sync'[o] = sync[o] /\ res'[o] = res[o]
    BY <1>21, FinishRecords DEF FinishRebuild, TypeOK, DatabaseOK
  <2>2. logical' = logical /\ inflight[m].on
    BY <1>21 DEF FinishRebuild, Collect
  <2>3. ASSUME m \in logical PROVE Backed(m)'
    <3>1. sync'[m].confirmed = inflight[m].last /\ inflight[m].last \in Nat
          /\ inflight[m].last <= Len(wal)
      BY <1>21, <2>2, <2>3, FinishRecords, RowTypes DEF Positions, Rounds
    <3> QED
      BY <1>21, <3>1, ComputedBacked DEF FinishRebuild, TypeOK, DatabaseOK
  <2> QED
    BY <1>0, <2>1, <2>2, <2>3, BackedKept
<1>22. ASSUME NEW m \in Model, FinishFail(m) PROVE Goal
  BY <1>22, <1>0, BackedKept DEF FinishFail, Collect
<1>23. CASE Finished
  BY <1>23, <1>0, BackedKept DEF Finished, database, memory
<1>24. CASE Advance
  BY <1>24, <1>0, BackedKept DEF Advance, memory
<1>25. CASE Crash
  BY <1>25, <1>0, BackedKept DEF Crash, database
<1>26. CASE UNCHANGED vars
  BY <1>26, <1>0, BackedKept DEF vars, database, memory
<1> QED
  BY <1>1, <1>2, <1>3, <1>4, <1>5, <1>6, <1>7, <1>8, <1>9, <1>10, <1>11, <1>12,
     <1>13, <1>14, <1>15, <1>16, <1>17, <1>18, <1>19, <1>20, <1>21, <1>22, <1>23,
     <1>24, <1>25, <1>26
  DEF Next, Environment, Worker, Tick, Finish

\* A step that changes the WAL, the tables or who is in logical mode is a session's.
LEMMA SessionStep ==
  ASSUME [Next]_vars
  PROVE  \/ UNCHANGED <<wal, table, logical>>
         \/ \E rels \in SUBSET Rel : Commit(rels)
         \/ \E i \in hidden : Show(i)
         \/ \E r \in Rel : MovePartition(r)
         \/ \E m \in Model : SetSyncMode(m)
<1> DEFINE Goal == \/ UNCHANGED <<wal, table, logical>>
                   \/ \E rels \in SUBSET Rel : Commit(rels)
                   \/ \E i \in hidden : Show(i)
                   \/ \E r \in Rel : MovePartition(r)
                   \/ \E m \in Model : SetSyncMode(m)
<1> SUFFICES Goal
  OBVIOUS
<1>1. ASSUME NEW rels \in SUBSET Rel, Commit(rels) PROVE Goal
  BY <1>1
<1>2. ASSUME NEW i \in hidden, Show(i) PROVE Goal
  BY <1>2
<1>3. ASSUME NEW r \in Rel, MovePartition(r) PROVE Goal
  BY <1>3
<1>4. ASSUME NEW m \in Model, Define(m) PROVE Goal
  BY <1>4 DEF Define, memory
<1>5. ASSUME NEW m \in Model, SetSyncMode(m) PROVE Goal
  BY <1>5
<1>6. CASE LoseSlot
  BY <1>6 DEF LoseSlot, memory
<1>7. ASSUME NEW m \in Model, EndRound(m) PROVE Goal
  BY <1>7 DEF EndRound, database
<1>8. ASSUME NEW m \in Model, Due(m) PROVE Goal
  BY <1>8 DEF Due, database
<1>9. CASE Listing
  BY <1>9 DEF Listing
<1>10. CASE EnsureSlot
  BY <1>10 DEF EnsureSlot
<1>11. CASE ResetProgress
  BY <1>11 DEF ResetProgress, memory
<1>12. CASE Peek
  BY <1>12 DEF Peek, database
<1>13. ASSUME NEW m \in Model, SkipRunning(m) PROVE Goal
  BY <1>13 DEF SkipRunning, database, memory
<1>14. ASSUME NEW m \in Model, SkipIdle(m) PROVE Goal
  BY <1>14 DEF SkipIdle, database
<1>15. ASSUME NEW m \in Model, TickIdle(m) PROVE Goal
  BY <1>15 DEF TickIdle, Starts
<1>16. ASSUME NEW m \in Model, TickSubmit(m) PROVE Goal
  BY <1>16 DEF TickSubmit, Starts
<1>17. ASSUME NEW m \in Model, TickRebuild(m) PROVE Goal
  BY <1>17 DEF TickRebuild, Starts
<1>18. ASSUME NEW m \in Model, TickFail(m) PROVE Goal
  BY <1>18 DEF TickFail, Starts
<1>19. CASE Visited
  BY <1>19 DEF Visited, database, memory
<1>20. ASSUME NEW m \in Model, FinishWrite(m) PROVE Goal
  BY <1>20 DEF FinishWrite, Collect
<1>21. ASSUME NEW m \in Model, FinishRebuild(m) PROVE Goal
  BY <1>21 DEF FinishRebuild, Collect
<1>22. ASSUME NEW m \in Model, FinishFail(m) PROVE Goal
  BY <1>22 DEF FinishFail, Collect
<1>23. CASE Finished
  BY <1>23 DEF Finished, database, memory
<1>24. CASE Advance
  BY <1>24 DEF Advance, memory
<1>25. CASE Crash
  BY <1>25 DEF Crash, database
<1>26. CASE UNCHANGED vars
  BY <1>26 DEF vars, database, memory
<1> QED
  BY <1>1, <1>2, <1>3, <1>4, <1>5, <1>6, <1>7, <1>8, <1>9, <1>10, <1>11, <1>12,
     <1>13, <1>14, <1>15, <1>16, <1>17, <1>18, <1>19, <1>20, <1>21, <1>22, <1>23,
     <1>24, <1>25, <1>26
  DEF Next, Environment, Worker, Tick, Finish

\* Every relation a model binds is published, and a table shows the last commit
\* that wrote it.
AllSent ==
  /\ logical = Model
  /\ \A i \in Txns : \A m \in Model : wal[i].rels \cap Binds[m] \subseteq wal[i].sent
  /\ \A r \in Rel : table[r] = 0 \/ (table[r] \in Txns /\ r \in wal[table[r]].rels)

\* data holds nothing that the tables of model m do not.
Within(m, data) == \A r \in Rel : IF r \in Binds[m] THEN data[r] <= table[r] ELSE data[r] = 0

LoadedWithin ==
  \A m \in Model : /\ live[m].on => Within(m, live[m].data)
                   /\ inflight[m].on => Within(m, inflight[m].data)

LEMMA AllSentStep ==
  ASSUME TypeOK, TablesHold, AllSent, [Next]_vars,
         "lag" \notin Env, "partition" \notin Env, "toggle" \notin Env
  PROVE  AllSent' /\ \A r \in Rel : table[r] <= table'[r]
<1>1. ASSUME UNCHANGED <<wal, table, logical>>
      PROVE  AllSent' /\ \A r \in Rel : table[r] <= table'[r]
  BY <1>1 DEF AllSent, Txns, TypeOK, DatabaseOK, Contents
<1>2. ASSUME NEW rels \in SUBSET Rel, Commit(rels)
      PROVE  AllSent' /\ \A r \in Rel : table[r] <= table'[r]
  <2>1. Len(wal') = Len(wal) + 1 /\ (\A i \in Txns : wal'[i] = wal[i]) /\ Len(wal) \in Nat
    BY <1>2 DEF Commit, TypeOK, DatabaseOK, Txns
  <2>2. wal'[Len(wal) + 1] = [rels |-> rels, sent |-> rels \cap Published, moved |-> FALSE]
    BY <1>2 DEF Commit, TypeOK, DatabaseOK
  <2>3. table' = [r \in Rel |-> IF r \in rels THEN Len(wal) + 1 ELSE table[r]]
    BY <1>2 DEF Commit
  <2>4. \A r \in Rel : table[r] \in Nat /\ table[r] <= Len(wal)
    BY <2>1 DEF AllSent, TypeOK, DatabaseOK, Contents, Txns
  <2>5. \A r \in Rel : table[r] <= table'[r]
    BY <2>1, <2>3, <2>4
  <2>6. logical' = Model
    BY <1>2 DEF Commit, AllSent
  <2>7. ASSUME NEW i \in Txns', NEW m \in Model PROVE wal'[i].rels \cap Binds[m] \subseteq wal'[i].sent
    <3>1. CASE i = Len(wal) + 1
      BY <2>2, <3>1 DEF AllSent, Published
    <3>2. CASE i # Len(wal) + 1
      <4>1. i \in Txns
        BY <2>1, <3>2 DEF Txns
      <4> QED
        BY <2>1, <4>1 DEF AllSent
    <3> QED
      BY <3>1, <3>2
  <2>8. ASSUME NEW r \in Rel
        PROVE  table'[r] = 0 \/ (table'[r] \in Txns' /\ r \in wal'[table'[r]].rels)
    <3>1. Txns \subseteq Txns' /\ Len(wal) + 1 \in Txns'
      BY <2>1 DEF Txns
    <3>2. CASE r \in rels
      BY <2>2, <2>3, <3>1, <3>2
    <3>3. CASE r \notin rels
      BY <2>1, <2>3, <3>1, <3>3 DEF AllSent
    <3> QED
      BY <3>2, <3>3
  <2> QED
    BY <2>5, <2>6, <2>7, <2>8 DEF AllSent
<1>3. ASSUME NEW i \in hidden, Show(i)
      PROVE  AllSent' /\ \A r \in Rel : table[r] <= table'[r]
  BY <1>3 DEF TablesHold
<1>4. ASSUME NEW r \in Rel, MovePartition(r)
      PROVE  AllSent' /\ \A q \in Rel : table[q] <= table'[q]
  BY <1>4 DEF MovePartition
<1>5. ASSUME NEW m \in Model, SetSyncMode(m)
      PROVE  AllSent' /\ \A r \in Rel : table[r] <= table'[r]
  BY <1>5 DEF SetSyncMode
<1> QED
  BY <1>1, <1>2, <1>3, <1>4, <1>5, SessionStep

\* A load is within the tables, and so is what a batch makes of data that is.
LEMMA LoadWithin ==
  ASSUME TypeOK, NEW m \in Model
  PROVE  Within(m, Load(m))
  BY DEF Within, Load, TypeOK, DatabaseOK, Contents

LEMMA MappedWithin ==
  ASSUME TypeOK, TablesHold, NEW m \in Model, NEW data \in Contents, NEW txns \in SUBSET Txns,
         Within(m, data)
  PROVE  Within(m, Mapped(m, data, txns))
<1> SUFFICES ASSUME NEW r \in Rel
             PROVE  IF r \in Binds[m] THEN Mapped(m, data, txns)[r] <= table[r]
                                      ELSE Mapped(m, data, txns)[r] = 0
  BY DEF Within
<1> DEFINE w == {j \in txns : r \in wal[j].sent \cap Binds[m]}
<1>1. Mapped(m, data, txns)[r] = IF w = {} THEN data[r] ELSE Max(w)
  BY DEF Mapped
<1>2. w \in SUBSET Txns /\ (w # {} => r \in Binds[m]) /\ \A j \in w : r \in wal[j].sent
  OBVIOUS
<1> HIDE DEF w
<1>3. w # {} => Max(w) \in w
  BY <1>2, MaxTxns
<1>4. w # {} => r \in Binds[m] /\ Max(w) <= table[r]
  <2>1. \A j \in w : table[r] >= j /\ j \in Nat
    BY <1>2, RowTypes DEF TablesHold
  <2> QED
    BY <1>2, <1>3, <2>1 DEF TypeOK, DatabaseOK, Contents
<1>5. w = {} => IF r \in Binds[m] THEN data[r] <= table[r] ELSE data[r] = 0
  BY DEF Within
<1> QED
  BY <1>1, <1>4, <1>5

LEMMA BatchWithin ==
  ASSUME TypeOK, TablesHold, LoadedWithin, NEW m \in Model
  PROVE  Within(m, Mapped(m, Current(m).data, Unapplied(m)))
<1>1. Current(m).data \in Contents /\ Unapplied(m) \in SUBSET Txns
  BY CurrentType DEF LiveStates
<1>2. CASE NeedsBuild(m)
  <2>1. Current(m).data = Load(m)
    BY <1>2 DEF Current, Rebuilt
  <2> QED
    BY <1>1, <2>1, LoadWithin, MappedWithin
<1>3. CASE ~NeedsBuild(m)
  <2>1. Current(m) = live[m] /\ live[m].on
    BY <1>3, NoneTypes DEF Current, NeedsBuild, Taken, KeptLive
  <2> QED
    BY <1>1, <2>1, MappedWithin DEF LoadedWithin
<1> QED
  BY <1>2, <1>3

\* What a step leaves loaded for model m comes from what was, from the tables, or
\* from a batch.
LEMMA LoadedStep ==
  ASSUME TypeOK, [Next]_vars, NEW o \in Model
  PROVE  /\ live'[o].on =>
              \/ live[o].on /\ live'[o].data = live[o].data
              \/ inflight[o].on /\ live'[o].data = inflight[o].data
              \/ live'[o].data = Load(o)
              \/ live'[o].data = Mapped(o, Current(o).data, Unapplied(o))
         /\ inflight'[o].on =>
              \/ inflight[o].on /\ inflight'[o].data = inflight[o].data
              \/ inflight'[o].data = Mapped(o, Current(o).data, Unapplied(o))
<1> DEFINE Goal == /\ live'[o].on =>
                        \/ live[o].on /\ live'[o].data = live[o].data
                        \/ inflight[o].on /\ live'[o].data = inflight[o].data
                        \/ live'[o].data = Load(o)
                        \/ live'[o].data = Mapped(o, Current(o).data, Unapplied(o))
                   /\ inflight'[o].on =>
                        \/ inflight[o].on /\ inflight'[o].data = inflight[o].data
                        \/ inflight'[o].data = Mapped(o, Current(o).data, Unapplied(o))
<1> SUFFICES Goal
  OBVIOUS
<1> USE NoneTypes
<1>1. ASSUME NEW rels \in SUBSET Rel, Commit(rels) PROVE Goal
  BY <1>1 DEF Commit, memory
<1>2. ASSUME NEW i \in hidden, Show(i) PROVE Goal
  BY <1>2 DEF Show, memory
<1>3. ASSUME NEW r \in Rel, MovePartition(r) PROVE Goal
  BY <1>3 DEF MovePartition, memory
<1>4. ASSUME NEW m \in Model, Define(m) PROVE Goal
  BY <1>4 DEF Define, memory
<1>5. ASSUME NEW m \in Model, SetSyncMode(m) PROVE Goal
  BY <1>5 DEF SetSyncMode, memory
<1>6. CASE LoseSlot
  BY <1>6 DEF LoseSlot, memory
<1>7. ASSUME NEW m \in Model, EndRound(m) PROVE Goal
  <2>1. CASE o = m
    BY <1>7, <2>1, RowTypes DEF EndRound, TypeOK, MemoryOK, Rounds
  <2>2. CASE o # m
    BY <1>7, <2>2, RowTypes DEF EndRound, TypeOK, MemoryOK, Rounds
  <2> QED
    BY <2>1, <2>2
<1>8. ASSUME NEW m \in Model, Due(m) PROVE Goal
  BY <1>8 DEF Due, database
<1>9. CASE Listing
  BY <1>9 DEF Listing
<1>10. CASE EnsureSlot
  BY <1>10 DEF EnsureSlot
<1>11. CASE ResetProgress
  BY <1>11 DEF ResetProgress, memory
<1>12. CASE Peek
  BY <1>12 DEF Peek, database
<1>13. ASSUME NEW m \in Model, SkipRunning(m) PROVE Goal
  BY <1>13 DEF SkipRunning, database, memory
<1>14. ASSUME NEW m \in Model, SkipIdle(m) PROVE Goal
  <2>1. CASE o = m
    BY <1>14, <2>1 DEF SkipIdle, TypeOK, MemoryOK, KeptLive
  <2>2. CASE o # m
    BY <1>14, <2>2 DEF SkipIdle, TypeOK, MemoryOK, KeptLive
  <2> QED
    BY <2>1, <2>2
<1>15. ASSUME NEW m \in Model, TickIdle(m) PROVE Goal
  <2>1. CASE o = m
    BY <1>15, <2>1 DEF TickIdle, TypeOK, MemoryOK
  <2>2. CASE o # m
    BY <1>15, <2>2 DEF TickIdle, TypeOK, MemoryOK
  <2> QED
    BY <2>1, <2>2
<1>16. ASSUME NEW m \in Model, TickSubmit(m) PROVE Goal
  <2>1. CASE o = m
    BY <1>16, <2>1, SubmitOf DEF TickSubmit, TypeOK, MemoryOK
  <2>2. CASE o # m
    BY <1>16, <2>2, SubmitOf DEF TickSubmit, TypeOK, MemoryOK
  <2> QED
    BY <2>1, <2>2
<1>17. ASSUME NEW m \in Model, TickRebuild(m) PROVE Goal
  <2>1. CASE o = m
    BY <1>17, <2>1 DEF TickRebuild, TypeOK, MemoryOK, Rebuilt
  <2>2. CASE o # m
    BY <1>17, <2>2 DEF TickRebuild, TypeOK, MemoryOK, Rebuilt
  <2> QED
    BY <2>1, <2>2
<1>18. ASSUME NEW m \in Model, TickFail(m) PROVE Goal
  <2>1. CASE o = m
    BY <1>18, <2>1 DEF TickFail, TypeOK, MemoryOK
  <2>2. CASE o # m
    BY <1>18, <2>2 DEF TickFail, TypeOK, MemoryOK
  <2> QED
    BY <2>1, <2>2
<1>19. CASE Visited
  BY <1>19 DEF Visited, database, memory
<1>20. ASSUME NEW m \in Model, FinishWrite(m) PROVE Goal
  <2>1. CASE o = m
    BY <1>20, <2>1 DEF FinishWrite, Collect, TypeOK, MemoryOK
  <2>2. CASE o # m
    BY <1>20, <2>2 DEF FinishWrite, Collect, TypeOK, MemoryOK
  <2> QED
    BY <2>1, <2>2
<1>21. ASSUME NEW m \in Model, FinishRebuild(m) PROVE Goal
  <2>1. CASE o = m
    BY <1>21, <2>1 DEF FinishRebuild, Collect, Rebuilt, TypeOK, MemoryOK
  <2>2. CASE o # m
    BY <1>21, <2>2 DEF FinishRebuild, Collect, Rebuilt, TypeOK, MemoryOK
  <2> QED
    BY <2>1, <2>2
<1>22. ASSUME NEW m \in Model, FinishFail(m) PROVE Goal
  <2>1. CASE o = m
    BY <1>22, <2>1 DEF FinishFail, Collect, TypeOK, MemoryOK
  <2>2. CASE o # m
    BY <1>22, <2>2 DEF FinishFail, Collect, TypeOK, MemoryOK
  <2> QED
    BY <2>1, <2>2
<1>23. CASE Finished
  BY <1>23 DEF Finished, database, memory
<1>24. CASE Advance
  BY <1>24 DEF Advance, memory
<1>25. CASE Crash
  BY <1>25 DEF Crash, database
<1>26. CASE UNCHANGED vars
  BY <1>26 DEF vars, database, memory
<1> QED
  BY <1>1, <1>2, <1>3, <1>4, <1>5, <1>6, <1>7, <1>8, <1>9, <1>10, <1>11, <1>12,
     <1>13, <1>14, <1>15, <1>16, <1>17, <1>18, <1>19, <1>20, <1>21, <1>22, <1>23,
     <1>24, <1>25, <1>26
  DEF Next, Environment, Worker, Tick, Finish

LEMMA WithinStep ==
  ASSUME TypeOK, TypeOK', TablesHold, LoadedWithin, \A r \in Rel : table[r] <= table'[r], [Next]_vars
  PROVE  LoadedWithin'
<1> SUFFICES ASSUME NEW m \in Model
             PROVE  /\ live'[m].on => Within(m, live[m].data)'
                    /\ inflight'[m].on => Within(m, inflight[m].data)'
  BY DEF LoadedWithin
<1>1. live'[m].on => Within(m, live'[m].data)
  BY LoadedStep, LoadWithin, BatchWithin DEF LoadedWithin
<1>2. inflight'[m].on => Within(m, inflight'[m].data)
  BY LoadedStep, BatchWithin DEF LoadedWithin
<1>3. live'[m].data \in Contents /\ inflight'[m].data \in Contents
      /\ table \in Contents /\ table' \in Contents
  BY DEF TypeOK, DatabaseOK, MemoryOK, LiveStates, Rounds
<1>4. ASSUME NEW data \in Contents, Within(m, data)
      PROVE  \A r \in Rel : IF r \in Binds[m] THEN data[r] <= table'[r] ELSE data[r] = 0
  BY <1>3, <1>4 DEF Within, Contents
<1> QED
  BY <1>1, <1>2, <1>3, <1>4 DEF Within

\* A live state with nothing left to decode is what a load would read.
LEMMA RestIs ==
  ASSUME TypeOK, IInv, ResultsFollowLive, AllSent, LoadedWithin, NEW m \in Model, AtRest(m)
  PROVE  res[m] = Computed(m)
<1>1. res[m] = [version |-> version[m], data |-> live[m].data] /\ live[m].on /\ sync[m].caughtUp
  BY DEF AtRest, ResultsFollowLive
<1>2. live[m].data \in Contents /\ table \in Contents /\ Len(wal) \in Nat
  BY RowTypes DEF LiveStates, TypeOK, DatabaseOK
<1>3. ASSUME NEW r \in Binds[m] PROVE live[m].data[r] = table[r]
  <2>1. r \in Rel
    BY BindsAssumption
  <2>2. live[m].data[r] <= table[r] /\ live[m].data[r] \in Nat /\ table[r] \in Nat
    BY <1>1, <1>2, <2>1 DEF LoadedWithin, Within, Contents
  <2>3. ASSUME table[r] # 0 PROVE live[m].data[r] >= table[r]
    <3>1. table[r] \in Txns /\ r \in wal[table[r]].sent \cap Binds[m]
      BY <2>1, <2>3 DEF AllSent
    <3>2. table[r] <= slot.at
      BY <1>2, <3>1 DEF AtRest, Txns
    <3>3. HoldsChange(m, live[m].data, table[r])
      BY <1>1, <3>1, <3>2 DEF AtRest, IInv, LiveHolds
    <3> QED
      BY <3>1, <3>3 DEF HoldsChange
  <2> QED
    BY <2>2, <2>3
<1>4. \A r \in Rel \ Binds[m] : live[m].data[r] = 0
  BY <1>1 DEF LoadedWithin, Within
<1>5. live[m].data = Load(m)
  BY <1>2, <1>3, <1>4 DEF Load, Contents
<1> QED
  BY <1>1, <1>5 DEF Computed

-----------------------------------------------------------------------------
(* The theorems. *)

LEMMA InitHolds ==
  ASSUME Init
  PROVE  TypeOK /\ ResultsFollowLive /\ IInv
<1> USE NoneTypes
<1>1. wal = <<>> /\ Len(wal) = 0 /\ Txns = {}
  BY DEF Init, Txns
<1>2. DatabaseOK
  BY <1>1 DEF Init, DatabaseOK, Slots, Results
<1>3. MemoryOK /\ SweepOK
  BY <1>1 DEF Init, MemoryOK, SweepOK
<1>4. ResultsFollowLive
  BY DEF Init, ResultsFollowLive
<1>5. Positions /\ TablesHold /\ OneLive /\ Visits
  BY <1>1 DEF Init, Positions, TablesHold, OneLive, Visits
<1>6. DecodedPastSlot /\ DecodedAll /\ VisitedHold
  BY DEF Init, DecodedPastSlot, DecodedAll, VisitedHold, Decoding
<1>7. LiveHolds /\ RoundHolds
  BY DEF Init, LiveHolds, RoundHolds
<1> QED
  BY <1>2, <1>3, <1>4, <1>5, <1>6, <1>7 DEF TypeOK, IInv

\* The types hold whatever sessions, faults and crashes do; what a sweep has
\* decoded stays within the WAL that exists.
THEOREM TypesCorrect == Spec => []TypeOK
<1>1. Init => TypeOK
  BY InitHolds
<1>2. TypeOK /\ [Next]_vars => TypeOK'
  BY TypeStep
<1> QED
  BY <1>1, <1>2, PTL DEF Spec

\* Incremental result writes (write_changed) leave what a rebuild of the live state
\* would write, through failed rounds, crashes and changes of the model.
THEOREM ResultsCorrect == Spec => []ResultsFollowLive
<1>1. Init => ResultsFollowLive
  BY InitHolds
<1>2. TypeOK /\ ResultsFollowLive /\ [Next]_vars => ResultsFollowLive'
  BY ResultsStep
<1> QED
  BY <1>1, <1>2, TypesCorrect, PTL DEF Spec

\* The slot never passes the first transaction of a batch in flight, so a crash
\* during the round decodes the batch again (sweep, live::slot_hold).
THEOREM SlotHeld == Spec => []SlotBehindInFlight
<1> DEFINE J == Positions /\ DecodedPastSlot /\ DecodedAll
<1>1. Init => J
  BY InitHolds DEF IInv
<1>2. TypeOK /\ J /\ [Next]_vars => J'
  BY PositionsStep, DecodedStep
<1>3. J => SlotBehindInFlight
  BY DEF Positions, SlotBehindInFlight
<1> HIDE DEF J
<1> QED
  BY <1>1, <1>2, <1>3, TypesCorrect, PTL DEF Spec

\* The worker never loses a change (worker.rs, module docs), as long as snapshots
\* show every transaction the slot decodes and the transaction that resets the
\* progress after a new slot does not fail: whatever sessions commit, redefine or
\* switch, and wherever the worker fails or dies, a live state it goes on from
\* holds every change it will not decode again.
THEOREM NothingLost ==
  ASSUME "lag" \notin Env, "reset" \notin Env
  PROVE  Spec => []NoLostChange
<1>1. Init => IInv
  BY InitHolds
<1>2. TypeOK /\ IInv /\ [Next]_vars => IInv'
  BY IInvStep
<1>3. TypeOK /\ IInv => NoLostChange
  <2> SUFFICES ASSUME TypeOK, IInv, pc # "reset", NEW m \in logical, Loaded(m),
                      NEW i \in Txns, NEW r \in wal[i].sent \cap Binds[m],
                      i <= slot.at \/ (live[m].on /\ i <= sync[m].confirmed)
               PROVE  LoadedData(m)[r] >= i
    BY DEF NoLostChange
  <2>1. m \in Model
    BY DEF TypeOK, DatabaseOK
  <2>2. CASE live[m].on
    <3>1. sync[m].caughtUp
      BY <2>1, <2>2 DEF Loaded, IInv, OneLive
    <3> QED
      BY <2>1, <2>2, <3>1 DEF IInv, LiveHolds, HoldsChange, LoadedData
  <2>3. CASE ~live[m].on
    <3>1. inflight[m].on
      BY <2>3 DEF Loaded
    <3>2. slot.at < inflight[m].first /\ inflight[m].first <= inflight[m].last
      BY <2>1, <3>1 DEF IInv, Positions
    <3>3. i \in Nat /\ slot.at \in Nat /\ inflight[m].first \in Nat /\ inflight[m].last \in Nat
      BY <2>1, RowTypes DEF Rounds, TypeOK, DatabaseOK, Slots
    <3>4. i <= inflight[m].last
      BY <2>3, <3>2, <3>3
    <3> QED
      BY <2>1, <2>3, <3>1, <3>4 DEF IInv, RoundHolds, HoldsChange, LoadedData
  <2> QED
    BY <2>2, <2>3
<1> QED
  BY <1>1, <1>2, <1>3, TypesCorrect, PTL DEF Spec

\* Progress and results are recorded together (record, in the transaction of the
\* writes): through failed rounds, crashes, lost slots, redefinitions and mode
\* switches, the result tables hold every published change the recorded progress
\* names.  The hypotheses are those of NothingLost, on whose invariant it rests.
THEOREM ProgressBacked ==
  ASSUME "lag" \notin Env, "reset" \notin Env
  PROVE  Spec => []ProgressIsBacked
<1> DEFINE J == IInv /\ ProgressIsBacked
<1>1. Init => J
  <2> SUFFICES ASSUME Init PROVE ProgressIsBacked
    BY InitHolds
  <2>1. Txns = {}
    BY DEF Init, Txns
  <2> QED
    BY <2>1 DEF ProgressIsBacked
<1>2. TypeOK /\ TypeOK' /\ ResultsFollowLive /\ J /\ [Next]_vars => J'
  BY IInvStep, BackedStep
<1>3. J => ProgressIsBacked
  OBVIOUS
<1> HIDE DEF J
<1> QED
  BY <1>1, <1>2, <1>3, TypesCorrect, ResultsCorrect, PTL DEF Spec

\* "re-applying converges" (live.rs, module docs): whatever batches were decoded
\* again, cut short or skipped, a model the worker has nothing left to do for shows
\* exactly what a rebuild from its tables would write.  Mode switches and partition
\* moves are excluded too: both write rows that the publication never sends.
THEOREM RestCurrent ==
  ASSUME Env \cap {"lag", "reset", "partition", "toggle"} = {}
  PROVE  Spec => []RestIsCurrent
<1> DEFINE J == IInv /\ AllSent /\ LoadedWithin
<1>1. Init => J
  <2> SUFFICES ASSUME Init PROVE AllSent /\ LoadedWithin
    BY InitHolds
  <2>1. Txns = {} /\ table = Empty /\ logical = Model
    BY DEF Init, Txns
  <2>2. \A m \in Model : ~live[m].on /\ ~inflight[m].on
    BY NoneTypes DEF Init
  <2> QED
    BY <2>1, <2>2 DEF AllSent, LoadedWithin, Empty
<1>2. TypeOK /\ TypeOK' /\ J /\ [Next]_vars => J'
  <2> SUFFICES ASSUME TypeOK, TypeOK', J, [Next]_vars PROVE J'
    OBVIOUS
  <2>1. TablesHold
    BY DEF IInv
  <2>2. IInv'
    BY IInvStep
  <2>3. AllSent' /\ \A r \in Rel : table[r] <= table'[r]
    BY <2>1, AllSentStep
  <2>4. LoadedWithin'
    BY <2>1, <2>3, WithinStep
  <2> QED
    BY <2>2, <2>3, <2>4
<1>3. TypeOK /\ ResultsFollowLive /\ J => RestIsCurrent
  BY RestIs DEF RestIsCurrent
<1> HIDE DEF J
<1> QED
  BY <1>1, <1>2, <1>3, TypesCorrect, ResultsCorrect, PTL DEF Spec
=============================================================================
