------------------------- MODULE ServerCacheProofs -------------------------
(***************************************************************************)
(* The server's cache matches its mark, a request sees what was saved      *)
(* before it came, and no save of the server's is lost, for any requests,  *)
(* ticks and other processes, and any of the requests dropped.             *)
(*                                                                         *)
(* MatchingPair needs each part of what a load or a save has in hand to be *)
(* of its mark or of a later one.  ReadsAreFresh turns on one case: a      *)
(* request that found no cached model probes nothing, and takes any model  *)
(* it finds later, so whatever may still become the cached model has to be *)
(* as new as the request.  NoLostUpdate rests on the same, for a writer,   *)
(* and on write_lock being held from the look at the cache to the save.    *)
(***************************************************************************)
EXTENDS ServerCache, TLAPS

-----------------------------------------------------------------------------
(* The inductive invariant. *)

\* Where a writer, a GUI write or a tick holds write_lock.
Holding == {"locked", "check", "probe", "look", "relook", "load", "parts", "land", "access", "save",
            "saving", "publish", "conflict", "refresh", "forget"}

\* Where a request has a model in hand that it read or stored.
Carrying == {"land", "access", "save", "saving", "publish"}

\* Who is inside holds the lock.
Locks ==
  /\ \A a \in Actor \ Reader : pc[a] \in Holding => writeLock = a
  /\ \A r \in Request : pc[r] \in {"load", "parts", "land"} => cacheLock = r
  /\ \A a \in Actor : pc[a] \in {"save", "saving", "publish", "conflict"} => a \in Writer

\* A model whose parts were read since its mark.
IsCopy(m) == m.tx \in 1 .. HighWater /\ ReadSince(m.tx, m.edits)

Copies ==
  /\ cache.on => IsCopy(cache) /\ cache.tx = loadedTx
  /\ \A a \in Actor : pc[a] \in Carrying \cup {"refresh"} => IsCopy(model[a]) /\ model[a].on
  /\ \A a \in Actor : pc[a] = "parts" => model[a].tx \in 1 .. HighWater
  /\ \A r \in Request : pc[r] \in {"access", "save"} => loadedTx # 0

\* The marks a request has seen.
Marks ==
  \A r \in Request :
    /\ start[r] <= HighWater
    /\ pc[r] \in {"idle", "check", "probe"} => hw[r] = None
    /\ hw[r] # None => start[r] <= hw[r]

GuiIdle == \A q \in Gui : pc[q] = "idle"

\* What a request that found nothing cached may be given instead of a load of its own
\* is as new as its arrival: so it is for a writer, which has the lock, and for a
\* reader until a GUI route drops a cache that a writer is going to publish over.
Trusted(r) == r \in Writer \/ GuiIdle
Missed(r) == pc[r] \in {"look", "relook"} /\ hw[r] = None
Coming(q) == pc[q] \in {"parts", "land"} \/ (q \in Writer /\ pc[q] \in Carrying)

\* A writer has the cached model in hand, or one that it is going to be.
CacheKept == GuiIdle => \A w \in Writer : pc[w] \in Carrying \ {"land"} => cache.on

MissedFresh ==
  \A r \in Request : Trusted(r) /\ Missed(r) =>
    /\ cache.on => start[r] <= cache.tx
    /\ \A q \in Request : Coming(q) => start[r] <= model[q].tx

ReadFresh ==
  \A r \in Request : Trusted(r) /\ pc[r] \in Carrying \cup {"parts", "done"} => start[r] <= model[r].tx

Freshness == CacheKept /\ MissedFresh /\ ReadFresh

\* Since a writer looked at the cache no other of the server's has saved.
NoDrop == \A a \in Writer \cup Gui : pc[a] # "dropped"
Looked == {"probe", "look", "relook", "load", "parts", "land", "access", "save", "saving"}
Exclusive ==
  NoDrop =>
    /\ orphans = {}
    /\ \A w \in Writer : pc[w] \in Looked =>
         \A i \in 1 .. HighWater : start[w] <= i => history[HighWater] \ Outside \subseteq history[i]

IInv == TypeOK /\ Locks /\ Copies /\ Marks /\ Freshness /\ Exclusive

-----------------------------------------------------------------------------
(* Frames. *)

\* What is in the history stays, and its last content is the newest.
Grown ==
  /\ history' \in Seq(SUBSET Edit)
  /\ HighWater' >= HighWater
  /\ \A i \in 1 .. HighWater : history'[i] = history[i]

\* A save appends to it.
LEMMA Appended ==
  ASSUME TypeOK, NEW e \in SUBSET Edit, history' = Append(history, e)
  PROVE  Grown /\ HighWater' = HighWater + 1 /\ history'[HighWater'] = e
BY DEF TypeOK, Grown, HighWater

\* Anything else leaves it.
LEMMA NotAppended ==
  ASSUME TypeOK, history' = history
  PROVE  Grown /\ HighWater' = HighWater
BY DEF TypeOK, Grown, HighWater

\* A model in hand stays what was stored at its mark.
LEMMA CopyStays ==
  ASSUME TypeOK, Grown, NEW m, IsCopy(m)
  PROVE  m.tx \in 1 .. HighWater' /\ ReadSince(m.tx, m.edits)'
<1>1. HighWater \in Nat /\ HighWater' \in Nat
  BY DEF TypeOK, Grown, HighWater
<1> QED
  BY <1>1 DEF IsCopy, ReadSince, Grown

\* Marks, and the model a load gives.
LEMMA Basics ==
  ASSUME TypeOK
  PROVE  /\ HighWater \in Nat /\ HighWater >= 1 /\ history[HighWater] \in SUBSET Edit
         /\ NoModel \in Models /\ ~NoModel.on
         /\ Begun \in Models /\ Begun.tx = HighWater
BY DEF TypeOK, HighWater, NoModel, Models, Begun

\* An empty server has nothing cached.
LEMMA InitIInv == Init => IInv
<1> SUFFICES ASSUME Init PROVE IInv
  OBVIOUS
<1>1. HighWater = 1 /\ history \in Seq(SUBSET Edit)
  BY DEF Init, HighWater
<1>2. NoModel \in Models
  BY DEF NoModel, Models
<1>3. TypeOK
  BY <1>1, <1>2 DEF Init, TypeOK, None, Request, Actor
<1>4. Locks /\ Copies
  BY DEF Init, Locks, Copies, NoModel, Holding, Carrying, Request, Actor
<1>5. Marks
  BY <1>1 DEF Init, Marks, Request, Actor, None
<1>6. Freshness /\ Exclusive
  BY DEF Init, Freshness, CacheKept, MissedFresh, ReadFresh, Exclusive, Looked, Carrying, Missed, NoModel, Request, Actor
<1> QED
  BY <1>3, <1>4, <1>5, <1>6 DEF IInv

\* While no request is dropped and nothing is saved, no other of the server's saves.
LEMMA ExclusiveStays ==
  ASSUME Exclusive, UNCHANGED <<history, start, orphans>>, NoDrop' => NoDrop,
         \A w \in Writer : pc'[w] \in Looked => pc[w] \in Looked
  PROVE  Exclusive'
BY DEF Exclusive, HighWater

\* A save, whoever's it is, keeps the types of the rest.
LEMMA GrownTypes ==
  ASSUME TypeOK, Grown, UNCHANGED <<cache, loadedTx, cacheLock, sessions, start, hw, base>>,
         writeLock' \in (Actor \ Reader) \cup {Free}, model' \in [Actor -> Models], orphans' \subseteq orphans,
         pc' \in [Actor -> {"idle", "locked", "check", "probe", "look", "relook", "load", "parts",
                       "land", "access", "save", "saving", "publish", "conflict", "invalidate",
                       "refresh", "forget", "done", "refused", "dropped"}]
  PROVE  TypeOK'
<1>1. /\ HighWater \in Nat /\ HighWater' \in Nat /\ HighWater' >= 1
      /\ 0 .. HighWater \subseteq 0 .. HighWater' /\ 1 .. HighWater \subseteq 1 .. HighWater'
  BY DEF TypeOK, Grown, HighWater
<1>2. /\ hw \in [Request -> 0 .. HighWater'] /\ base \in [Actor -> 0 .. HighWater']
      /\ loadedTx \in 0 .. HighWater' /\ DOMAIN sessions \subseteq 1 .. HighWater'
      /\ \A tx \in DOMAIN sessions : sessions[tx] \in 1 .. HighWater'
  BY <1>1 DEF TypeOK
<1>3. orphans' \subseteq [edits : SUBSET Edit, base : 0 .. HighWater']
  BY <1>1 DEF TypeOK
<1> QED
  BY <1>1, <1>2, <1>3 DEF TypeOK, Grown

\* It leaves every copy a copy.
LEMMA GrownCopies ==
  ASSUME TypeOK, Copies, Grown, UNCHANGED <<cache, loadedTx>>,
         \A a \in Actor : pc'[a] \in Carrying \cup {"refresh"} =>
            \/ pc[a] \in Carrying \cup {"refresh"} /\ model'[a] = model[a]
            \/ IsCopy(model[a])' /\ model'[a].on,
         \A a \in Actor : pc'[a] = "parts" => pc[a] = "parts" /\ model'[a] = model[a],
         \A r \in Request : pc'[r] \in {"access", "save"} => pc[r] \in {"access", "save"} \/ loadedTx # 0
  PROVE  Copies'
<1>1. cache.on => IsCopy(cache)' /\ cache'.tx = loadedTx'
  BY CopyStays DEF Copies, IsCopy, ReadSince
<1>2. ASSUME NEW a \in Actor, pc'[a] \in Carrying \cup {"refresh"}
      PROVE  IsCopy(model[a])' /\ model'[a].on
  BY <1>2, CopyStays DEF Copies, IsCopy, ReadSince
<1>3. HighWater \in Nat /\ HighWater' \in Nat /\ HighWater' >= HighWater
  BY DEF TypeOK, Grown, HighWater
<1> QED
  BY <1>1, <1>2, <1>3 DEF Copies

\* It leaves the marks behind it.
LEMMA GrownMarks ==
  ASSUME TypeOK, Marks, Grown, UNCHANGED <<start, hw>>,
         \A r \in Request : pc'[r] \in {"idle", "check", "probe"} => pc[r] \in {"idle", "check", "probe"}
  PROVE  Marks'
<1>1. HighWater \in Nat /\ HighWater' \in Nat /\ HighWater' >= HighWater
  BY DEF TypeOK, Grown, HighWater
<1>2. \A r \in Request : start[r] \in Nat
  BY DEF TypeOK
<1> QED
  BY <1>1, <1>2 DEF Marks

-----------------------------------------------------------------------------
(* load_model and access. *)

\* write_lock is taken when it is free.
LEMMA TakeWriteKeeps ==
  ASSUME IInv, NEW a \in Actor, TakeWrite(a)
  PROVE  IInv'
<1> TypeOK /\ Locks /\ Copies /\ Marks /\ Freshness /\ Exclusive
  BY DEF IInv
<1> HighWater' = HighWater /\ history' = history
  BY DEF TakeWrite, HighWater
<1>1. TypeOK'
  BY FreeAssumption, Basics DEF TakeWrite, Goto, TypeOK
<1>2. Locks'
  BY FreeAssumption, DistinctAssumption DEF TakeWrite, Goto, TypeOK, Locks, Holding, Request, Actor
<1>3. Copies'
  BY Basics DEF TakeWrite, Goto, TypeOK, Copies, Carrying, IsCopy, ReadSince, Request, Actor
<1>4. Marks'
  BY Basics DEF TakeWrite, Goto, TypeOK, Marks, None, Request, Actor
<1>5. Freshness'
  BY DEF TakeWrite, Goto, TypeOK, Freshness, CacheKept, MissedFresh, ReadFresh, Carrying, Trusted, Missed, Coming, GuiIdle, Request, Actor
<1>6. Exclusive'
  BY ExclusiveStays DEF TakeWrite, Goto, TypeOK, NoDrop, Looked, Request, Actor
<1> QED
  BY <1>1, <1>2, <1>3, <1>4, <1>5, <1>6 DEF IInv

\* A reader comes in.
LEMMA ArriveKeeps ==
  ASSUME IInv, NEW a \in Actor, Arrive(a)
  PROVE  IInv'
<1> TypeOK /\ Locks /\ Copies /\ Marks /\ Freshness /\ Exclusive
  BY DEF IInv
<1> HighWater' = HighWater /\ history' = history
  BY DEF Arrive, HighWater
<1>1. TypeOK'
  BY FreeAssumption, Basics DEF Arrive, Goto, TypeOK
<1>2. Locks'
  BY FreeAssumption, DistinctAssumption DEF Arrive, Goto, TypeOK, Locks, Holding, Request, Actor
<1>3. Copies'
  BY Basics DEF Arrive, Goto, TypeOK, Copies, Carrying, IsCopy, ReadSince, Request, Actor
<1>4. Marks'
  BY Basics DEF Arrive, Goto, TypeOK, Marks, None, Request, Actor
<1>5. Freshness'
  BY DEF Arrive, Goto, TypeOK, Freshness, CacheKept, MissedFresh, ReadFresh, Carrying, Trusted, Missed, Coming, GuiIdle, Request, Actor
<1>6. Exclusive'
  BY ExclusiveStays DEF Arrive, Goto, TypeOK, NoDrop, Looked, Request, Actor
<1> QED
  BY <1>1, <1>2, <1>3, <1>4, <1>5, <1>6 DEF IInv

\* The cache is found empty, or to be checked.
LEMMA CheckKeeps ==
  ASSUME IInv, NEW r \in Request, Check(r)
  PROVE  IInv'
<1> TypeOK /\ Locks /\ Copies /\ Marks /\ Freshness /\ Exclusive
  BY DEF IInv
<1> HighWater' = HighWater /\ history' = history
  BY DEF Check, HighWater
<1>1. TypeOK'
  BY FreeAssumption, Basics DEF Check, Goto, TypeOK
<1>2. Locks'
  BY FreeAssumption, DistinctAssumption DEF Check, Goto, TypeOK, Locks, Holding, Request, Actor
<1>3. Copies'
  BY Basics DEF Check, Goto, TypeOK, Copies, Carrying, IsCopy, ReadSince, Request, Actor
<1>4. Marks'
  BY Basics DEF Check, Goto, TypeOK, Marks, None, Request, Actor
<1>5. Freshness'
  <2>1. /\ pc[r] = "check" /\ pc'[r] = (IF cache.on THEN "probe" ELSE "look") /\ cacheLock = Free
        /\ \A q \in Actor \ {r} : pc'[q] = pc[q]
        /\ \A q \in Request \ {r} : start'[q] = start[q]
        /\ UNCHANGED <<cache, model, hw>>
    BY DEF Check, Goto, TypeOK, Request, Actor
  <2>2. GuiIdle' => GuiIdle
    BY <2>1, DistinctAssumption DEF GuiIdle, Request, Actor
  <2>3. CacheKept'
    BY <2>1, <2>2 DEF Freshness, CacheKept, Carrying, Actor, Request
  <2>4. ASSUME NEW s \in Request, Trusted(s)', Missed(s)'
        PROVE  /\ cache'.on => start'[s] <= cache'.tx
               /\ \A q \in Request : Coming(q)' => start'[s] <= model'[q].tx
    <3>1. CASE s # r
      BY <2>1, <2>2, <2>4, <3>1 DEF Freshness, MissedFresh, Trusted, Missed, Coming, Carrying, Request, Actor
    <3>2. CASE s = r
      <4>1. ~cache.on
        BY <2>1, <2>4, <3>2 DEF Missed
      <4>2. ASSUME NEW q \in Request, Coming(q)' PROVE FALSE
        <5>1. q # r /\ pc'[q] = pc[q] /\ Coming(q)
          BY <2>1, <4>2 DEF Coming, Carrying, Request, Actor
        <5>2. pc[q] \notin {"parts", "land"}
          BY <2>1, FreeAssumption DEF Locks, Request, Actor
        <5>3. q \in Writer /\ pc[q] \in Carrying \ {"land"}
          BY <5>1, <5>2 DEF Coming
        <5>4. r \notin Writer
          BY <2>1, <5>1, <5>3, DistinctAssumption DEF Locks, Holding, Carrying, Actor, Request
        <5> QED
          BY <2>2, <2>4, <3>2, <4>1, <5>3, <5>4 DEF Trusted, Freshness, CacheKept
      <4> QED
        BY <2>1, <4>1, <4>2
    <3> QED
      BY <3>1, <3>2
  <2>5. ReadFresh'
    BY <2>1, <2>2 DEF Freshness, ReadFresh, Trusted, Carrying, Request, Actor
  <2> QED
    BY <2>3, <2>4, <2>5 DEF Freshness, MissedFresh
<1>6. Exclusive'
  <2>1. /\ pc'[r] \in {"probe", "look"} /\ start'[r] = HighWater /\ orphans' = orphans
        /\ \A a \in Actor \ {r} : pc'[a] = pc[a]
        /\ \A q \in Request \ {r} : start'[q] = start[q]
    BY DEF Check, Goto, TypeOK, Request, Actor
  <2>2. NoDrop' => NoDrop
    BY <2>1 DEF Check, NoDrop, Request, Actor
  <2>3. HighWater \in Nat
    BY Basics
  <2>4. ASSUME NoDrop', NEW w \in Writer, pc'[w] \in Looked, NEW i \in 1 .. HighWater, start'[w] <= i
        PROVE  history[HighWater] \ Outside \subseteq history[i]
    <3>1. CASE w = r
      BY <2>1, <2>3, <2>4, <3>1
    <3>2. CASE w # r
      BY <2>1, <2>2, <2>4, <3>2 DEF Exclusive, Request, Actor
    <3> QED
      BY <3>1, <3>2
  <2> QED
    BY <2>1, <2>2, <2>4 DEF Exclusive
<1> QED
  BY <1>1, <1>2, <1>3, <1>4, <1>5, <1>6 DEF IInv

\* The store is probed.
LEMMA ProbeKeeps ==
  ASSUME IInv, NEW r \in Request, Probe(r)
  PROVE  IInv'
<1> TypeOK /\ Locks /\ Copies /\ Marks /\ Freshness /\ Exclusive
  BY DEF IInv
<1> HighWater' = HighWater /\ history' = history
  BY DEF Probe, HighWater
<1>1. TypeOK'
  <2>1. HighWater \in 0 .. HighWater
    BY Basics
  <2>2. hw' \in [Request -> 0 .. HighWater]
    BY <2>1 DEF Probe, TypeOK
  <2>3. pc' \in [Actor -> {"idle", "locked", "check", "probe", "look", "relook", "load", "parts",
                       "land", "access", "save", "saving", "publish", "conflict", "invalidate",
                       "refresh", "forget", "done", "refused", "dropped"}]
    BY DEF Probe, Goto, TypeOK
  <2> QED
    BY <2>2, <2>3 DEF Probe, TypeOK
<1>2. Locks'
  BY FreeAssumption, DistinctAssumption DEF Probe, Goto, None, TypeOK, Locks, Holding, Request, Actor
<1>3. Copies'
  BY Basics DEF Probe, Goto, None, TypeOK, Copies, Carrying, IsCopy, ReadSince, Request, Actor
<1>4. Marks'
  BY Basics DEF Probe, Goto, None, TypeOK, Marks, None, Request, Actor
<1>5. Freshness'
  BY DEF Probe, Goto, None, TypeOK, Freshness, CacheKept, MissedFresh, ReadFresh, Carrying, Trusted, Missed, Coming, GuiIdle, Request, Actor
<1>6. Exclusive'
  BY ExclusiveStays DEF Probe, Goto, None, TypeOK, NoDrop, Looked, Request, Actor
<1> QED
  BY <1>1, <1>2, <1>3, <1>4, <1>5, <1>6 DEF IInv

\* The cached copy is taken, or missed.
LEMMA LookKeeps ==
  ASSUME IInv, NEW r \in Request, Look(r)
  PROVE  IInv'
<1> TypeOK /\ Locks /\ Copies /\ Marks /\ Freshness /\ Exclusive
  BY DEF IInv
<1> HighWater' = HighWater /\ history' = history
  BY DEF Look, HighWater
<1>1. TypeOK'
  BY FreeAssumption, Basics DEF Look, Goto, Fresh, TypeOK
<1>2. Locks'
  BY FreeAssumption, DistinctAssumption DEF Look, Goto, Fresh, TypeOK, Locks, Holding, Request, Actor
<1>3. Copies'
  <2>1. Grown
    BY NotAppended
  <2>2. /\ pc[r] = "look"
        /\ \/ Fresh(r) /\ model'[r] = cache /\ pc'[r] = "access"
           \/ pc'[r] = "relook"
        /\ \A a \in Actor \ {r} : pc'[a] = pc[a] /\ model'[a] = model[a]
        /\ UNCHANGED <<cache, loadedTx>>
    BY DEF Look, Goto, TypeOK, Request, Actor
  <2>3. cache.on => loadedTx # 0 /\ IsCopy(cache)'
    BY <2>1, <2>2, CopyStays, Basics DEF Copies, IsCopy
  <2>4. Fresh(r) /\ model'[r] = cache => IsCopy(model[r])' /\ model'[r].on
    BY <2>2, <2>3 DEF Fresh, IsCopy, ReadSince
  <2>5. \A a \in Actor : pc'[a] \in Carrying \cup {"refresh"} =>
            \/ pc[a] \in Carrying \cup {"refresh"} /\ model'[a] = model[a]
            \/ IsCopy(model[a])' /\ model'[a].on
    BY <2>2, <2>4 DEF Carrying
  <2>6. /\ \A a \in Actor : pc'[a] = "parts" => pc[a] = "parts" /\ model'[a] = model[a]
        /\ \A q \in Request : pc'[q] \in {"access", "save"} => pc[q] \in {"access", "save"} \/ loadedTx # 0
    BY <2>2, <2>3 DEF Fresh, Request, Actor
  <2> QED
    BY <2>1, <2>2, <2>5, <2>6, GrownCopies
<1>4. Marks'
  BY Basics DEF Look, Goto, Fresh, TypeOK, Marks, None, Request, Actor
<1>5. Freshness'
  <2>1. /\ pc[r] = "look" /\ \A q \in Actor \ {r} : pc'[q] = pc[q] /\ model'[q] = model[q]
        /\ UNCHANGED <<cache, start, hw>>
    BY DEF Look, Goto, TypeOK, Request, Actor
  <2>2. GuiIdle' => GuiIdle
    BY <2>1, DistinctAssumption DEF GuiIdle, Request, Actor
  <2>3. CASE Fresh(r)
    <3>1. pc'[r] = "access" /\ model'[r] = cache /\ cache.on
      BY <2>3 DEF Look, Fresh, Goto, TypeOK, Request, Actor
    <3>2. CacheKept'
      BY <2>1, <3>1 DEF CacheKept
    <3>3. ASSUME NEW s \in Request, Trusted(s)', Missed(s)'
          PROVE  /\ cache'.on => start'[s] <= cache'.tx
                 /\ \A q \in Request : Coming(q)' => start'[s] <= model'[q].tx
      <4>1. s # r /\ Trusted(s) /\ Missed(s)
        BY <2>1, <2>2, <3>1, <3>3 DEF Trusted, Missed, Request, Actor
      <4>2. /\ start[s] <= cache.tx
            /\ \A q \in Request : Coming(q) => start[s] <= model[q].tx
        BY <3>1, <4>1 DEF Freshness, MissedFresh
      <4> QED
        BY <2>1, <3>1, <4>2 DEF Coming, Request, Actor
    <3>4. ASSUME NEW s \in Request, Trusted(s)', pc'[s] \in Carrying \cup {"parts", "done"}
          PROVE  start'[s] <= model'[s].tx
      <4>1. Trusted(s)
        BY <2>2, <3>4 DEF Trusted
      <4>2. CASE s # r
        BY <2>1, <3>4, <4>1, <4>2 DEF Freshness, ReadFresh, Request, Actor
      <4>3. CASE s = r
        <5>1. CASE hw[r] = None
          BY <2>1, <3>1, <4>1, <4>3, <5>1 DEF Freshness, MissedFresh, Missed
        <5>2. CASE hw[r] # None
          BY <2>1, <2>3, <3>1, <4>3, <5>2 DEF Fresh, Marks, Copies
        <5> QED
          BY <5>1, <5>2
      <4> QED
        BY <4>2, <4>3
    <3> QED
      BY <3>2, <3>3, <3>4 DEF Freshness, MissedFresh, ReadFresh
  <2>4. CASE ~Fresh(r)
    <3>1. pc'[r] = "relook" /\ model' = model
      BY <2>4 DEF Look, Goto, TypeOK, Request, Actor
    <3> QED
      BY <2>1, <2>2, <3>1 DEF Freshness, CacheKept, MissedFresh, ReadFresh, Carrying, Trusted, Missed, Coming, Request, Actor
  <2> QED
    BY <2>3, <2>4
<1>6. Exclusive'
  BY ExclusiveStays DEF Look, Goto, Fresh, TypeOK, NoDrop, Looked, Request, Actor
<1> QED
  BY <1>1, <1>2, <1>3, <1>4, <1>5, <1>6 DEF IInv

\* The same under the lock, which a miss keeps.
LEMMA RelookKeeps ==
  ASSUME IInv, NEW r \in Request, Relook(r)
  PROVE  IInv'
<1> TypeOK /\ Locks /\ Copies /\ Marks /\ Freshness /\ Exclusive
  BY DEF IInv
<1> HighWater' = HighWater /\ history' = history
  BY DEF Relook, HighWater
<1>1. TypeOK'
  BY FreeAssumption, Basics DEF Relook, Goto, Fresh, TypeOK
<1>2. Locks'
  BY FreeAssumption, DistinctAssumption DEF Relook, Goto, Fresh, TypeOK, Locks, Holding, Request, Actor
<1>3. Copies'
  <2>1. Grown
    BY NotAppended
  <2>2. /\ pc[r] = "relook"
        /\ \/ Fresh(r) /\ model'[r] = cache /\ pc'[r] = "access"
           \/ pc'[r] = "load"
        /\ \A a \in Actor \ {r} : pc'[a] = pc[a] /\ model'[a] = model[a]
        /\ UNCHANGED <<cache, loadedTx>>
    BY DEF Relook, Goto, TypeOK, Request, Actor
  <2>3. cache.on => loadedTx # 0 /\ IsCopy(cache)'
    BY <2>1, <2>2, CopyStays, Basics DEF Copies, IsCopy
  <2>4. Fresh(r) /\ model'[r] = cache => IsCopy(model[r])' /\ model'[r].on
    BY <2>2, <2>3 DEF Fresh, IsCopy, ReadSince
  <2>5. \A a \in Actor : pc'[a] \in Carrying \cup {"refresh"} =>
            \/ pc[a] \in Carrying \cup {"refresh"} /\ model'[a] = model[a]
            \/ IsCopy(model[a])' /\ model'[a].on
    BY <2>2, <2>4 DEF Carrying
  <2>6. /\ \A a \in Actor : pc'[a] = "parts" => pc[a] = "parts" /\ model'[a] = model[a]
        /\ \A q \in Request : pc'[q] \in {"access", "save"} => pc[q] \in {"access", "save"} \/ loadedTx # 0
    BY <2>2, <2>3 DEF Fresh, Request, Actor
  <2> QED
    BY <2>1, <2>2, <2>5, <2>6, GrownCopies
<1>4. Marks'
  BY Basics DEF Relook, Goto, Fresh, TypeOK, Marks, None, Request, Actor
<1>5. Freshness'
  <2>1. /\ pc[r] = "relook" /\ \A q \in Actor \ {r} : pc'[q] = pc[q] /\ model'[q] = model[q]
        /\ UNCHANGED <<cache, start, hw>>
    BY DEF Relook, Goto, TypeOK, Request, Actor
  <2>2. GuiIdle' => GuiIdle
    BY <2>1, DistinctAssumption DEF GuiIdle, Request, Actor
  <2>3. CASE Fresh(r)
    <3>1. pc'[r] = "access" /\ model'[r] = cache /\ cache.on
      BY <2>3 DEF Relook, Fresh, Goto, TypeOK, Request, Actor
    <3>2. CacheKept'
      BY <2>1, <3>1 DEF CacheKept
    <3>3. ASSUME NEW s \in Request, Trusted(s)', Missed(s)'
          PROVE  /\ cache'.on => start'[s] <= cache'.tx
                 /\ \A q \in Request : Coming(q)' => start'[s] <= model'[q].tx
      <4>1. s # r /\ Trusted(s) /\ Missed(s)
        BY <2>1, <2>2, <3>1, <3>3 DEF Trusted, Missed, Request, Actor
      <4>2. /\ start[s] <= cache.tx
            /\ \A q \in Request : Coming(q) => start[s] <= model[q].tx
        BY <3>1, <4>1 DEF Freshness, MissedFresh
      <4> QED
        BY <2>1, <3>1, <4>2 DEF Coming, Request, Actor
    <3>4. ASSUME NEW s \in Request, Trusted(s)', pc'[s] \in Carrying \cup {"parts", "done"}
          PROVE  start'[s] <= model'[s].tx
      <4>1. Trusted(s)
        BY <2>2, <3>4 DEF Trusted
      <4>2. CASE s # r
        BY <2>1, <3>4, <4>1, <4>2 DEF Freshness, ReadFresh, Request, Actor
      <4>3. CASE s = r
        <5>1. CASE hw[r] = None
          BY <2>1, <3>1, <4>1, <4>3, <5>1 DEF Freshness, MissedFresh, Missed
        <5>2. CASE hw[r] # None
          BY <2>1, <2>3, <3>1, <4>3, <5>2 DEF Fresh, Marks, Copies
        <5> QED
          BY <5>1, <5>2
      <4> QED
        BY <4>2, <4>3
    <3> QED
      BY <3>2, <3>3, <3>4 DEF Freshness, MissedFresh, ReadFresh
  <2>4. CASE ~Fresh(r)
    <3>1. pc'[r] = "load" /\ model' = model
      BY <2>4 DEF Relook, Goto, TypeOK, Request, Actor
    <3> QED
      BY <2>1, <2>2, <3>1 DEF Freshness, CacheKept, MissedFresh, ReadFresh, Carrying, Trusted, Missed, Coming, Request, Actor
  <2> QED
    BY <2>3, <2>4
<1>6. Exclusive'
  BY ExclusiveStays DEF Relook, Goto, Fresh, TypeOK, NoDrop, Looked, Request, Actor
<1> QED
  BY <1>1, <1>2, <1>3, <1>4, <1>5, <1>6 DEF IInv

\* A load reads the mark.
LEMMA LoadMarkKeeps ==
  ASSUME IInv, NEW r \in Request, LoadMark(r)
  PROVE  IInv'
<1> TypeOK /\ Locks /\ Copies /\ Marks /\ Freshness /\ Exclusive
  BY DEF IInv
<1> HighWater' = HighWater /\ history' = history
  BY DEF LoadMark, HighWater
<1>1. TypeOK'
  BY FreeAssumption, Basics DEF LoadMark, Goto, Begun, TypeOK
<1>2. Locks'
  BY FreeAssumption, DistinctAssumption DEF LoadMark, Goto, Begun, TypeOK, Locks, Holding, Request, Actor
<1>3. Copies'
  <2>1. /\ pc'[r] = "parts" /\ model'[r].tx = HighWater
        /\ \A a \in Actor \ {r} : pc'[a] = pc[a] /\ model'[a] = model[a]
        /\ UNCHANGED <<cache, loadedTx>>
    BY Basics DEF LoadMark, Goto, TypeOK, Request, Actor
  <2> QED
    BY <2>1, Basics DEF Copies, Carrying, IsCopy, ReadSince, Request, Actor
<1>4. Marks'
  BY Basics DEF LoadMark, Goto, Begun, TypeOK, Marks, None, Request, Actor
<1>5. Freshness'
  <2>1. /\ pc[r] = "load" /\ pc'[r] = "parts" /\ model'[r] = Begun
        /\ \A q \in Actor \ {r} : pc'[q] = pc[q] /\ model'[q] = model[q]
        /\ UNCHANGED <<cache, start, hw>>
    BY DEF LoadMark, Goto, TypeOK, Request, Actor
  <2>2. GuiIdle' => GuiIdle
    BY <2>1, DistinctAssumption DEF GuiIdle, Request, Actor
  <2>3. \A s \in Request : start[s] <= model'[r].tx
    BY <2>1, Basics DEF Marks
  <2>4. CacheKept'
    BY <2>1, <2>2 DEF Freshness, CacheKept, Carrying, Request, Actor
  <2>5. MissedFresh'
    BY <2>1, <2>2, <2>3 DEF Freshness, MissedFresh, Trusted, Missed, Coming, Carrying, Request, Actor
  <2>6. ReadFresh'
    BY <2>1, <2>2, <2>3 DEF Freshness, ReadFresh, Trusted, Carrying, Request, Actor
  <2> QED
    BY <2>4, <2>5, <2>6 DEF Freshness
<1>6. Exclusive'
  BY ExclusiveStays DEF LoadMark, Goto, Begun, TypeOK, NoDrop, Looked, Request, Actor
<1> QED
  BY <1>1, <1>2, <1>3, <1>4, <1>5, <1>6 DEF IInv

\* And then the parts.
LEMMA LoadKeeps ==
  ASSUME IInv, NEW r \in Request, Load(r)
  PROVE  IInv'
<1> TypeOK /\ Locks /\ Copies /\ Marks /\ Freshness /\ Exclusive
  BY DEF IInv
<1> HighWater' = HighWater /\ history' = history
  BY DEF Load, HighWater
<1>1. TypeOK'
  <2>1. PICK E \in SUBSET Edit : model' = [model EXCEPT ![r] = [on |-> TRUE, tx |-> model[r].tx, edits |-> E]]
    BY DEF Load
  <2>2. [on |-> TRUE, tx |-> model[r].tx, edits |-> E] \in Models
    BY DEF TypeOK, Models, Request, Actor
  <2>3. model' \in [Actor -> Models]
    BY <2>1, <2>2 DEF TypeOK
  <2> QED
    BY <2>3, FreeAssumption, Basics DEF Load, Goto, TypeOK
<1>2. Locks'
  BY FreeAssumption, DistinctAssumption DEF Load, Goto, TypeOK, Locks, Holding, Request, Actor
<1>3. Copies'
  <2>1. /\ pc[r] = "parts" /\ pc'[r] = "land" /\ r \in Actor
        /\ \A a \in Actor \ {r} : pc'[a] = pc[a] /\ model'[a] = model[a]
        /\ UNCHANGED <<cache, loadedTx>>
    BY DEF Load, Goto, TypeOK, Request, Actor
  <2>2. PICK E \in SUBSET Edit :
          ReadSince(model[r].tx, E) /\ model'[r] = [on |-> TRUE, tx |-> model[r].tx, edits |-> E]
    BY <2>1 DEF Load, TypeOK
  <2>3. IsCopy(model[r])' /\ model'[r].on
    BY <2>1, <2>2 DEF Copies, IsCopy, ReadSince
  <2>4. Grown
    BY NotAppended
  <2>5. /\ \A a \in Actor : pc'[a] \in Carrying \cup {"refresh"} =>
            \/ pc[a] \in Carrying \cup {"refresh"} /\ model'[a] = model[a]
            \/ IsCopy(model[a])' /\ model'[a].on
        /\ \A a \in Actor : pc'[a] = "parts" => pc[a] = "parts" /\ model'[a] = model[a]
    BY <2>1, <2>3
  <2>6. \A q \in Request : pc'[q] \in {"access", "save"} => pc[q] \in {"access", "save"} \/ loadedTx # 0
    BY <2>1 DEF Request, Actor
  <2> QED
    BY <2>1, <2>4, <2>5, <2>6, GrownCopies
<1>4. Marks'
  BY Basics DEF Load, Goto, TypeOK, Marks, None, Request, Actor
<1>5. Freshness'
  <2>1. /\ pc[r] = "parts" /\ pc'[r] = "land" /\ model'[r].tx = model[r].tx
        /\ \A q \in Actor \ {r} : pc'[q] = pc[q] /\ model'[q] = model[q]
        /\ UNCHANGED <<cache, start, hw>>
    BY DEF Load, Goto, TypeOK, Request, Actor
  <2>2. GuiIdle' => GuiIdle
    BY <2>1, DistinctAssumption DEF GuiIdle, Request, Actor
  <2>3. CacheKept'
    BY <2>1, <2>2 DEF Freshness, CacheKept, Carrying, Request, Actor
  <2>4. MissedFresh'
    BY <2>1, <2>2 DEF Freshness, MissedFresh, Trusted, Missed, Coming, Carrying, Request, Actor
  <2>5. ReadFresh'
    BY <2>1, <2>2 DEF Freshness, ReadFresh, Trusted, Carrying, Request, Actor
  <2> QED
    BY <2>3, <2>4, <2>5 DEF Freshness
<1>6. Exclusive'
  BY ExclusiveStays DEF Load, Goto, TypeOK, NoDrop, Looked, Request, Actor
<1> QED
  BY <1>1, <1>2, <1>3, <1>4, <1>5, <1>6 DEF IInv

\* It becomes the cached copy.
LEMMA LandKeeps ==
  ASSUME IInv, NEW r \in Request, Land(r)
  PROVE  IInv'
<1> TypeOK /\ Locks /\ Copies /\ Marks /\ Freshness /\ Exclusive
  BY DEF IInv
<1> HighWater' = HighWater /\ history' = history
  BY DEF Land, HighWater
<1>1. TypeOK'
  <2>1. pc' \in [Actor -> {"idle", "locked", "check", "probe", "look", "relook", "load", "parts",
                       "land", "access", "save", "saving", "publish", "conflict", "invalidate",
                       "refresh", "forget", "done", "refused", "dropped"}]
    BY DEF Land, Goto, TypeOK, Actor, Request
  <2>2. model[r] \in Models /\ model[r].tx \in 1 .. HighWater
    BY DEF Land, TypeOK, Copies, Carrying, IsCopy, ReadSince, Request, Actor
  <2>3. loadedTx' \in 0 .. HighWater /\ cache' \in Models
    BY <2>2, Basics DEF Land
  <2> QED
    BY <2>1, <2>3 DEF Land, TypeOK
<1>2. Locks'
  BY FreeAssumption, DistinctAssumption DEF Land, Goto, TypeOK, Locks, Holding, Request, Actor
<1>3. Copies'
  BY Basics DEF Land, Goto, TypeOK, Copies, Carrying, IsCopy, ReadSince, Request, Actor
<1>4. Marks'
  BY Basics DEF Land, Goto, TypeOK, Marks, None, Request, Actor
<1>5. Freshness'
  <2>1. /\ pc[r] = "land" /\ pc'[r] = "access" /\ cache' = model[r]
        /\ \A q \in Actor \ {r} : pc'[q] = pc[q]
        /\ UNCHANGED <<model, start, hw>>
    BY DEF Land, Goto, TypeOK, Request, Actor
  <2>2. GuiIdle' => GuiIdle
    BY <2>1, DistinctAssumption DEF GuiIdle, Request, Actor
  <2>3. model[r].on
    BY <2>1 DEF Copies, Carrying, Request, Actor
  <2>4. CacheKept'
    BY <2>1, <2>3 DEF CacheKept
  <2>5. ASSUME NEW s \in Request, Trusted(s)', Missed(s)'
        PROVE  /\ cache'.on => start'[s] <= cache'.tx
               /\ \A q \in Request : Coming(q)' => start'[s] <= model'[q].tx
    <3>1. s # r /\ Trusted(s) /\ Missed(s) /\ start' = start
      BY <2>1, <2>2, <2>5 DEF Trusted, Missed, Request, Actor
    <3>2. \A q \in Request : Coming(q) => start[s] <= model[q].tx
      BY <3>1 DEF Freshness, MissedFresh
    <3>3. Coming(r)
      BY <2>1 DEF Coming
    <3>4. \A q \in Request : Coming(q)' => Coming(q)
      BY <2>1 DEF Coming, Request, Actor
    <3> QED
      BY <2>1, <3>1, <3>2, <3>3, <3>4
  <2>6. ReadFresh'
    BY <2>1, <2>2 DEF Freshness, ReadFresh, Trusted, Carrying, Request, Actor
  <2> QED
    BY <2>4, <2>5, <2>6 DEF Freshness, MissedFresh
<1>6. Exclusive'
  BY ExclusiveStays DEF Land, Goto, TypeOK, NoDrop, Looked, Request, Actor
<1> QED
  BY <1>1, <1>2, <1>3, <1>4, <1>5, <1>6 DEF IInv

\* The decisions are made, from a session of the mark or a new one.
LEMMA AccessKeeps ==
  ASSUME IInv, NEW r \in Request, Access(r)
  PROVE  IInv'
<1> TypeOK /\ Locks /\ Copies /\ Marks /\ Freshness /\ Exclusive
  BY DEF IInv
<1> HighWater' = HighWater /\ history' = history
  BY DEF Access, HighWater
<1>1. TypeOK'
  <2>1. pc' \in [Actor -> {"idle", "locked", "check", "probe", "look", "relook", "load", "parts",
                       "land", "access", "save", "saving", "publish", "conflict", "invalidate",
                       "refresh", "forget", "done", "refused", "dropped"}]
    BY DEF Access, Goto, TypeOK, Actor, Request
  <2>2. model[r].tx \in 1 .. HighWater /\ loadedTx \in 1 .. HighWater
    BY DEF Access, TypeOK, Copies, Carrying, IsCopy, ReadSince, Request, Actor
  <2>3. DOMAIN sessions' = DOMAIN sessions \cup {loadedTx}
    BY DEF Access
  <2>4. \A tx \in DOMAIN sessions' : sessions'[tx] \in 1 .. HighWater
    BY <2>2 DEF Access, TypeOK
  <2>5. writeLock' \in (Actor \ Reader) \cup {Free}
    BY DEF Access, Release, TypeOK
  <2>6. DOMAIN sessions' \subseteq 1 .. HighWater
    BY <2>2, <2>3 DEF TypeOK
  <2> QED
    BY <2>1, <2>4, <2>5, <2>6 DEF Access, TypeOK
<1>2. Locks'
  BY FreeAssumption, DistinctAssumption DEF Access, Goto, Release, TypeOK, Locks, Holding, Request, Actor
<1>3. Copies'
  BY Basics DEF Access, Goto, Release, TypeOK, Copies, Carrying, IsCopy, ReadSince, Request, Actor
<1>4. Marks'
  BY Basics DEF Access, Goto, Release, TypeOK, Marks, None, Request, Actor
<1>5. Freshness'
  BY DEF Access, Goto, Release, TypeOK, Freshness, CacheKept, MissedFresh, ReadFresh, Carrying, Trusted, Missed, Coming, GuiIdle, Request, Actor
<1>6. Exclusive'
  BY ExclusiveStays DEF Access, Goto, Release, TypeOK, NoDrop, Looked, Request, Actor
<1> QED
  BY <1>1, <1>2, <1>3, <1>4, <1>5, <1>6 DEF IInv

\* A probe or a load fails.
LEMMA LoadFailKeeps ==
  ASSUME IInv, NEW r \in Request, LoadFail(r)
  PROVE  IInv'
<1> TypeOK /\ Locks /\ Copies /\ Marks /\ Freshness /\ Exclusive
  BY DEF IInv
<1> HighWater' = HighWater /\ history' = history
  BY DEF LoadFail, HighWater
<1>1. TypeOK'
  BY FreeAssumption, Basics DEF LoadFail, Goto, Release, TypeOK
<1>2. Locks'
  BY FreeAssumption, DistinctAssumption DEF LoadFail, Goto, Release, TypeOK, Locks, Holding, Request, Actor
<1>3. Copies'
  BY Basics DEF LoadFail, Goto, Release, TypeOK, Copies, Carrying, IsCopy, ReadSince, Request, Actor
<1>4. Marks'
  BY Basics DEF LoadFail, Goto, Release, TypeOK, Marks, None, Request, Actor
<1>5. Freshness'
  BY DEF LoadFail, Goto, Release, TypeOK, Freshness, CacheKept, MissedFresh, ReadFresh, Carrying, Trusted, Missed, Coming, GuiIdle, Request, Actor
<1>6. Exclusive'
  BY ExclusiveStays DEF LoadFail, Goto, Release, TypeOK, NoDrop, Looked, Request, Actor
<1> QED
  BY <1>1, <1>2, <1>3, <1>4, <1>5, <1>6 DEF IInv

-----------------------------------------------------------------------------
(* save_model. *)

\* A save takes loaded_tx for its base.
LEMMA BaseKeeps ==
  ASSUME IInv, NEW r \in Writer, Base(r)
  PROVE  IInv'
<1> TypeOK /\ Locks /\ Copies /\ Marks /\ Freshness /\ Exclusive
  BY DEF IInv
<1> HighWater' = HighWater /\ history' = history
  BY DEF Base, HighWater
<1>1. TypeOK'
  BY FreeAssumption, Basics DEF Base, Goto, TypeOK
<1>2. Locks'
  BY FreeAssumption, DistinctAssumption DEF Base, Goto, TypeOK, Locks, Holding, Request, Actor
<1>3. Copies'
  BY Basics DEF Base, Goto, TypeOK, Copies, Carrying, IsCopy, ReadSince, Request, Actor
<1>4. Marks'
  BY Basics DEF Base, Goto, TypeOK, Marks, None, Request, Actor
<1>5. Freshness'
  BY DEF Base, Goto, TypeOK, Freshness, CacheKept, MissedFresh, ReadFresh, Carrying, Trusted, Missed, Coming, GuiIdle, Request, Actor
<1>6. Exclusive'
  BY ExclusiveStays DEF Base, Goto, TypeOK, NoDrop, Looked, Request, Actor
<1> QED
  BY <1>1, <1>2, <1>3, <1>4, <1>5, <1>6 DEF IInv

\* A save stores the model in hand with the request's edit, or conflicts.
LEMMA SaveKeeps ==
  ASSUME IInv, NEW r \in Writer, Save(r)
  PROVE  IInv'
<1> TypeOK /\ Locks /\ Copies /\ Marks /\ Freshness /\ Exclusive
  BY DEF IInv
<1> DEFINE e == model[r].edits \cup {r}
           m == [on |-> TRUE, tx |-> HighWater + 1, edits |-> e]
<1>1. /\ pc[r] = "saving" /\ pc'[r] \in {"conflict", "publish"}
      /\ \A a \in Actor \ {r} : pc'[a] = pc[a] /\ model'[a] = model[a]
      /\ UNCHANGED <<cache, loadedTx, writeLock, cacheLock, sessions, start, hw, base, orphans>>
  BY DEF Save, Goto, TypeOK, Request, Actor
<1>2. r \in Actor \ Reader /\ r \in Request /\ r \notin Gui
  BY DistinctAssumption DEF Request, Actor
<1>3. e \in SUBSET Edit /\ m \in Models
  BY <1>2, Basics DEF Edit, TypeOK, Models
<1>4. /\ Grown
      /\ \/ model'[r] = model[r] /\ pc'[r] = "conflict"
         \/ IsCopy(model[r])' /\ model'[r].on /\ model'[r].tx = HighWater + 1 /\ pc'[r] = "publish"
      /\ model' \in [Actor -> Models]
  <2>1. CASE Conflicts(base[r])
    BY <1>2, <2>1, NotAppended DEF Save, Goto, TypeOK
  <2>2. CASE ~Conflicts(base[r])
    <3>1. history' = Append(history, e) /\ model' = [model EXCEPT ![r] = m] /\ pc'[r] = "publish"
      BY <1>2, <2>2 DEF Save, Goto, TypeOK
    <3>2. model'[r] = m /\ model' \in [Actor -> Models]
      BY <1>2, <1>3, <3>1 DEF TypeOK
    <3> HIDE DEF e
    <3>3. Grown /\ HighWater' = HighWater + 1 /\ history'[HighWater'] = e
      BY <1>3, <3>1, Appended
    <3>4. IsCopy(model[r])' /\ model'[r].on /\ model'[r].tx = HighWater + 1
      BY <3>2, <3>3, Basics DEF IsCopy, ReadSince
    <3> QED
      BY <3>1, <3>2, <3>3, <3>4
  <2> QED
    BY <2>1, <2>2
<1> HIDE DEF e, m
<1>5. TypeOK'
  <2>1. pc' \in [Actor -> {"idle", "locked", "check", "probe", "look", "relook", "load", "parts",
                       "land", "access", "save", "saving", "publish", "conflict", "invalidate",
                       "refresh", "forget", "done", "refused", "dropped"}]
    BY DEF Save, Goto, TypeOK
  <2> QED
    BY <1>1, <1>4, <2>1, GrownTypes DEF TypeOK
<1>6. Copies' /\ Marks'
  <2>1. \A a \in Actor : pc'[a] \in Carrying \cup {"refresh"} =>
            \/ pc[a] \in Carrying \cup {"refresh"} /\ model'[a] = model[a]
            \/ IsCopy(model[a])' /\ model'[a].on
    BY <1>1, <1>4 DEF Carrying
  <2>2. \A q \in Request : q \in Actor
    BY DEF Request, Actor
  <2> QED
    BY <1>1, <1>4, <2>1, <2>2, GrownCopies, GrownMarks
<1>7. Locks'
  BY <1>1, <1>2 DEF Locks, Holding, Request, Actor
<1>8. GuiIdle' <=> GuiIdle
  BY <1>1, <1>2 DEF GuiIdle, Actor
<1>9. Freshness'
  <2>1. \A s \in Request : start[s] <= HighWater + 1
    BY Basics DEF Marks, TypeOK
  <2>2. CacheKept'
    BY <1>1, <1>2, <1>8 DEF Freshness, CacheKept, Carrying, Request, Actor
  <2>3. MissedFresh'
    BY <1>1, <1>2, <1>4, <1>8, <2>1 DEF Freshness, MissedFresh, Trusted, Missed, Coming, Carrying, Request, Actor
  <2>4. ReadFresh'
    BY <1>1, <1>2, <1>4, <1>8, <2>1 DEF Freshness, ReadFresh, Trusted, Carrying, Request, Actor
  <2> QED
    BY <2>2, <2>3, <2>4 DEF Freshness
<1>10. Exclusive'
  <2>1. NoDrop' => NoDrop
    BY <1>1 DEF NoDrop, Actor, Request
  <2>2. \A w \in Writer : pc'[w] \notin Looked
    BY <1>1, <1>2, DistinctAssumption DEF Locks, Holding, Looked, Actor, Request
  <2> QED
    BY <1>1, <2>1, <2>2 DEF Exclusive
<1> QED
  BY <1>5, <1>6, <1>7, <1>9, <1>10 DEF IInv

\* A save fails.
LEMMA SaveFailKeeps ==
  ASSUME IInv, NEW r \in Writer, SaveFail(r)
  PROVE  IInv'
<1> TypeOK /\ Locks /\ Copies /\ Marks /\ Freshness /\ Exclusive
  BY DEF IInv
<1> HighWater' = HighWater /\ history' = history
  BY DEF SaveFail, HighWater
<1>1. TypeOK'
  BY FreeAssumption, Basics DEF SaveFail, Goto, Release, TypeOK
<1>2. Locks'
  BY FreeAssumption, DistinctAssumption DEF SaveFail, Goto, Release, TypeOK, Locks, Holding, Request, Actor
<1>3. Copies'
  BY Basics DEF SaveFail, Goto, Release, TypeOK, Copies, Carrying, IsCopy, ReadSince, Request, Actor
<1>4. Marks'
  BY Basics DEF SaveFail, Goto, Release, TypeOK, Marks, None, Request, Actor
<1>5. Freshness'
  BY DEF SaveFail, Goto, Release, TypeOK, Freshness, CacheKept, MissedFresh, ReadFresh, Carrying, Trusted, Missed, Coming, GuiIdle, Request, Actor
<1>6. Exclusive'
  BY ExclusiveStays DEF SaveFail, Goto, Release, TypeOK, NoDrop, Looked, Request, Actor
<1> QED
  BY <1>1, <1>2, <1>3, <1>4, <1>5, <1>6 DEF IInv

\* What was saved becomes the cached copy.
LEMMA PublishKeeps ==
  ASSUME IInv, NEW r \in Writer, Publish(r)
  PROVE  IInv'
<1> TypeOK /\ Locks /\ Copies /\ Marks /\ Freshness /\ Exclusive
  BY DEF IInv
<1> HighWater' = HighWater /\ history' = history
  BY DEF Publish, HighWater
<1>1. TypeOK'
  <2>1. pc' \in [Actor -> {"idle", "locked", "check", "probe", "look", "relook", "load", "parts",
                       "land", "access", "save", "saving", "publish", "conflict", "invalidate",
                       "refresh", "forget", "done", "refused", "dropped"}]
    BY DEF Publish, Goto, TypeOK, Actor, Request
  <2>2. model[r] \in Models /\ model[r].tx \in 1 .. HighWater
    BY DEF Publish, TypeOK, Copies, Carrying, IsCopy, ReadSince, Request, Actor
  <2>3. loadedTx' \in 0 .. HighWater /\ cache' \in Models
    BY <2>2, Basics DEF Publish
  <2>4. writeLock' \in (Actor \ Reader) \cup {Free}
    BY DEF Publish, Release, TypeOK
  <2> QED
    BY <2>1, <2>3, <2>4 DEF Publish, TypeOK
<1>2. Locks'
  BY FreeAssumption, DistinctAssumption DEF Publish, Goto, Release, TypeOK, Locks, Holding, Request, Actor
<1>3. Copies'
  BY Basics DEF Publish, Goto, Release, TypeOK, Copies, Carrying, IsCopy, ReadSince, Request, Actor
<1>4. Marks'
  BY Basics DEF Publish, Goto, Release, TypeOK, Marks, None, Request, Actor
<1>5. Freshness'
  <2>1. /\ pc[r] = "publish" /\ pc'[r] = "done" /\ cache' = model[r]
        /\ \A q \in Actor \ {r} : pc'[q] = pc[q]
        /\ UNCHANGED <<model, start, hw>>
    BY DEF Publish, Goto, TypeOK, Request, Actor
  <2>2. GuiIdle' => GuiIdle
    BY <2>1, DistinctAssumption DEF GuiIdle, Request, Actor
  <2>3. model[r].on
    BY <2>1 DEF Copies, Carrying, Request, Actor
  <2>4. CacheKept'
    BY <2>1, <2>3 DEF CacheKept
  <2>5. ASSUME NEW s \in Request, Trusted(s)', Missed(s)'
        PROVE  /\ cache'.on => start'[s] <= cache'.tx
               /\ \A q \in Request : Coming(q)' => start'[s] <= model'[q].tx
    <3>1. s # r /\ Trusted(s) /\ Missed(s) /\ start' = start
      BY <2>1, <2>2, <2>5 DEF Trusted, Missed, Request, Actor
    <3>2. \A q \in Request : Coming(q) => start[s] <= model[q].tx
      BY <3>1 DEF Freshness, MissedFresh
    <3>3. Coming(r) /\ r \in Request
      BY <2>1 DEF Coming, Carrying, Request
    <3>4. \A q \in Request : Coming(q)' => Coming(q)
      BY <2>1 DEF Coming, Carrying, Request, Actor
    <3> QED
      BY <2>1, <3>1, <3>2, <3>3, <3>4
  <2>6. ReadFresh'
    BY <2>1, <2>2 DEF Freshness, ReadFresh, Trusted, Carrying, Request, Actor
  <2> QED
    BY <2>4, <2>5, <2>6 DEF Freshness, MissedFresh
<1>6. Exclusive'
  BY ExclusiveStays DEF Publish, Goto, Release, TypeOK, NoDrop, Looked, Request, Actor
<1> QED
  BY <1>1, <1>2, <1>3, <1>4, <1>5, <1>6 DEF IInv

\* A conflict drops the cached copy.
LEMMA ConflictKeeps ==
  ASSUME IInv, NEW r \in Writer, Conflict(r)
  PROVE  IInv'
<1> TypeOK /\ Locks /\ Copies /\ Marks /\ Freshness /\ Exclusive
  BY DEF IInv
<1> HighWater' = HighWater /\ history' = history
  BY DEF Conflict, HighWater
<1>1. TypeOK'
  BY FreeAssumption, Basics DEF Conflict, Goto, Release, NoModel, TypeOK
<1>2. Locks'
  BY FreeAssumption, DistinctAssumption DEF Conflict, Goto, Release, NoModel, TypeOK, Locks, Holding, Request, Actor
<1>3. Copies'
  BY Basics DEF Conflict, Goto, Release, NoModel, TypeOK, Copies, Carrying, IsCopy, ReadSince, Request, Actor
<1>4. Marks'
  BY Basics DEF Conflict, Goto, Release, NoModel, TypeOK, Marks, None, Request, Actor
<1>5. Freshness'
  <2>1. /\ pc[r] = "conflict" /\ pc'[r] = "refused" /\ cache' = NoModel /\ ~cache'.on
        /\ \A q \in Actor \ {r} : pc'[q] = pc[q]
        /\ UNCHANGED <<model, start, hw>>
    BY Basics DEF Conflict, Goto, TypeOK, Request, Actor
  <2>2. GuiIdle' => GuiIdle
    BY <2>1, DistinctAssumption DEF Conflict, GuiIdle, Request, Actor
  <2>3. r \in Actor \ Reader
    BY DistinctAssumption DEF Conflict, Request, Actor
  <2>4. CacheKept'
    <3>1. \A w \in Writer \ {r} : pc'[w] = pc[w] /\ pc[w] \notin Holding
      BY <2>1, <2>3, DistinctAssumption DEF Locks, Holding, Request, Actor
    <3> QED
      BY <2>1, <3>1 DEF CacheKept, Carrying, Holding
  <2>5. MissedFresh'
    BY <2>1, <2>2 DEF Freshness, MissedFresh, Trusted, Missed, Coming, Carrying, Request, Actor
  <2>6. ReadFresh'
    BY <2>1, <2>2 DEF Freshness, ReadFresh, Trusted, Carrying, Request, Actor
  <2> QED
    BY <2>4, <2>5, <2>6 DEF Freshness
<1>6. Exclusive'
  BY ExclusiveStays DEF Conflict, Goto, Release, NoModel, TypeOK, NoDrop, Looked, Request, Actor
<1> QED
  BY <1>1, <1>2, <1>3, <1>4, <1>5, <1>6 DEF IInv

\* A request is dropped.
LEMMA DropKeeps ==
  ASSUME IInv, NEW r \in Request \cup Gui, Drop(r)
  PROVE  IInv'
<1> TypeOK /\ Locks /\ Copies /\ Marks /\ Freshness /\ Exclusive
  BY DEF IInv
<1> HighWater' = HighWater /\ history' = history
  BY DEF Drop, HighWater
<1>1. TypeOK'
  <2>1. pc' \in [Actor -> {"idle", "locked", "check", "probe", "look", "relook", "load", "parts",
                       "land", "access", "save", "saving", "publish", "conflict", "invalidate",
                       "refresh", "forget", "done", "refused", "dropped"}]
    BY DEF Drop, Goto, TypeOK, Actor, Request
  <2>2. writeLock' \in (Actor \ Reader) \cup {Free} /\ cacheLock' \in Request \cup {Free}
    BY DEF Drop, Release, TypeOK
  <2>3. ASSUME pc[r] = "saving"
        PROVE  [edits |-> model[r].edits \cup {r}, base |-> base[r]] \in [edits : SUBSET Edit, base : 0 .. HighWater]
    <3>1. r \in Writer /\ r \in Actor
      BY <2>3 DEF Locks, Request, Actor
    <3>2. model[r].edits \in SUBSET Edit /\ base[r] \in 0 .. HighWater /\ r \in Edit
      BY <3>1 DEF TypeOK, Models, Edit
    <3> QED
      BY <3>2
  <2>4. orphans' \subseteq [edits : SUBSET Edit, base : 0 .. HighWater]
    BY <2>3 DEF Drop, TypeOK
  <2> QED
    BY <2>1, <2>2, <2>4 DEF Drop, TypeOK
<1>2. Locks'
  BY FreeAssumption, DistinctAssumption DEF Drop, Goto, Release, TypeOK, Locks, Holding, Request, Actor
<1>3. Copies'
  BY Basics DEF Drop, Goto, Release, TypeOK, Copies, Carrying, IsCopy, ReadSince, Request, Actor
<1>4. Marks'
  BY Basics DEF Drop, Goto, Release, TypeOK, Marks, None, Request, Actor
<1>5. Freshness'
  BY DEF Drop, Goto, Release, TypeOK, Freshness, CacheKept, MissedFresh, ReadFresh, Carrying, Trusted, Missed, Coming, GuiIdle, Request, Actor
<1>6. Exclusive'
  <2>1. pc'[r] = "dropped" /\ \A a \in Actor \ {r} : pc'[a] = pc[a]
    BY DEF Drop, Goto, TypeOK, Request, Actor
  <2>2. CASE r \in Writer \cup Gui
    BY <2>1, <2>2 DEF Exclusive, NoDrop
  <2>3. CASE r \notin Writer \cup Gui
    <3>1. r \in Reader /\ pc[r] # "saving"
      BY <2>3, DistinctAssumption DEF Locks, Request, Actor
    <3>2. UNCHANGED <<history, start, orphans>>
      BY <3>1 DEF Drop
    <3>3. \A w \in Writer \cup Gui : pc'[w] = pc[w]
      BY <2>1, <2>3 DEF Request, Actor
    <3> QED
      BY <3>2, <3>3, ExclusiveStays DEF NoDrop
  <2> QED
    BY <2>2, <2>3
<1> QED
  BY <1>1, <1>2, <1>3, <1>4, <1>5, <1>6 DEF IInv

\* The save of a dropped request.
LEMMA OrphanSaveKeeps ==
  ASSUME IInv, NEW o \in orphans, OrphanSave(o)
  PROVE  IInv'
<1> TypeOK /\ Locks /\ Copies /\ Marks /\ Freshness /\ Exclusive
  BY DEF IInv
<1>1. /\ UNCHANGED <<cache, loadedTx, writeLock, cacheLock, sessions, pc, start, hw, model, base>>
      /\ orphans' \subseteq orphans
  BY DEF OrphanSave
<1>2. o.edits \in SUBSET Edit
  BY DEF TypeOK
<1>3. Grown
  BY <1>2, Appended, NotAppended DEF OrphanSave
<1>4. TypeOK' /\ Copies' /\ Marks'
  <2>1. TypeOK'
    BY <1>1, <1>3, GrownTypes DEF TypeOK
  <2> QED
    BY <1>1, <1>3, <2>1, GrownCopies, GrownMarks
<1>5. Locks' /\ Freshness'
  BY <1>1 DEF Locks, Freshness, CacheKept, MissedFresh, ReadFresh, GuiIdle, Trusted, Missed, Coming
<1>6. ~NoDrop /\ ~NoDrop'
  BY <1>1 DEF Exclusive, NoDrop
<1> QED
  BY <1>4, <1>5, <1>6 DEF IInv, Exclusive

-----------------------------------------------------------------------------
(* The other writers. *)

\* A GUI write saves under write_lock, or refuses.
LEMMA GuiSaveKeeps ==
  ASSUME IInv, NEW g \in Actor, GuiSave(g)
  PROVE  IInv'
<1> TypeOK /\ Locks /\ Copies /\ Marks /\ Freshness /\ Exclusive
  BY DEF IInv
<1>1. /\ pc[g] = "locked" /\ pc'[g] = "invalidate" /\ writeLock' = Free
      /\ \A a \in Actor \ {g} : pc'[a] = pc[a]
      /\ UNCHANGED <<cache, loadedTx, cacheLock, sessions, start, hw, model, base, orphans>>
  BY DEF GuiSave, Goto, TypeOK
<1>2. g \in Gui /\ g \notin Request /\ g \notin Writer /\ g \in Actor \ Reader
  BY DistinctAssumption DEF GuiSave, Request
<1>3. \A a \in Actor \ Reader : pc'[a] \notin Holding
  BY <1>1, <1>2 DEF Locks, Holding
<1>4. Grown
  <2> DEFINE e == history[HighWater] \cup {g}
  <2>1. e \in SUBSET Edit
    BY <1>2, Basics DEF Edit
  <2>2. history' = history \/ history' = Append(history, e)
    BY DEF GuiSave
  <2> HIDE DEF e
  <2> QED
    BY <2>1, <2>2, Appended, NotAppended
<1>5. TypeOK'
  <2>1. pc' \in [Actor -> {"idle", "locked", "check", "probe", "look", "relook", "load", "parts",
                       "land", "access", "save", "saving", "publish", "conflict", "invalidate",
                       "refresh", "forget", "done", "refused", "dropped"}]
    BY DEF GuiSave, Goto, TypeOK
  <2> QED
    BY <1>1, <1>4, <2>1, GrownTypes DEF TypeOK
<1>6. Copies' /\ Marks'
  <2>1. \A r \in Request : r \in Actor /\ pc'[r] = pc[r]
    BY <1>1, <1>2 DEF Request, Actor
  <2>2. \A a \in Actor : pc'[a] \in Carrying \cup {"refresh"} => pc[a] \in Carrying \cup {"refresh"}
    BY <1>1 DEF Carrying
  <2> QED
    BY <1>1, <1>4, <2>1, <2>2, GrownCopies, GrownMarks
<1>7. Locks'
  BY <1>1, <1>2, <1>3 DEF Locks, Request, Actor
<1>8. Freshness'
  <2>1. ~GuiIdle' /\ \A r \in Request : pc'[r] = pc[r]
    BY <1>1, <1>2 DEF GuiIdle, Request, Actor
  <2> QED
    BY <1>1, <2>1 DEF Freshness, CacheKept, MissedFresh, ReadFresh, Trusted, Missed, Coming
<1>9. Exclusive'
  <2>1. NoDrop' => NoDrop
    BY <1>1 DEF NoDrop, Actor, Request
  <2>2. \A w \in Writer : pc'[w] \notin Looked
    BY <1>3, DistinctAssumption DEF Holding, Looked, Actor, Request
  <2> QED
    BY <1>1, <2>1, <2>2 DEF Exclusive
<1> QED
  BY <1>5, <1>6, <1>7, <1>8, <1>9 DEF IInv

\* Then it drops the cached copy.
LEMMA InvalidateKeeps ==
  ASSUME IInv, NEW g \in Actor, Invalidate(g)
  PROVE  IInv'
<1> TypeOK /\ Locks /\ Copies /\ Marks /\ Freshness /\ Exclusive
  BY DEF IInv
<1> HighWater' = HighWater /\ history' = history
  BY DEF Invalidate, HighWater
<1>1. TypeOK'
  BY FreeAssumption, Basics DEF Invalidate, Goto, NoModel, TypeOK
<1>2. Locks'
  BY FreeAssumption, DistinctAssumption DEF Invalidate, Goto, NoModel, TypeOK, Locks, Holding, Request, Actor
<1>3. Copies'
  BY Basics DEF Invalidate, Goto, NoModel, TypeOK, Copies, Carrying, IsCopy, ReadSince, Request, Actor
<1>4. Marks'
  BY Basics DEF Invalidate, Goto, NoModel, TypeOK, Marks, None, Request, Actor
<1>5. Freshness'
  <2>1. /\ pc[g] = "invalidate" /\ pc'[g] = "done" /\ cache' = NoModel /\ ~cache'.on
        /\ \A q \in Actor \ {g} : pc'[q] = pc[q]
        /\ UNCHANGED <<model, start, hw>>
    BY Basics DEF Invalidate, Goto, TypeOK, Request, Actor
  <2>2. ~GuiIdle' /\ GuiIdle' = FALSE
    BY <2>1 DEF Invalidate, GuiIdle
  <2>4. CacheKept'
    BY <2>2 DEF CacheKept
  <2>5. MissedFresh'
    BY <2>1, <2>2 DEF Freshness, MissedFresh, Trusted, Missed, Coming, Carrying, Request, Actor
  <2>6. ReadFresh'
    BY <2>1, <2>2, DistinctAssumption DEF Invalidate, Freshness, ReadFresh, Trusted, Carrying, Request, Actor
  <2> QED
    BY <2>4, <2>5, <2>6 DEF Freshness
<1>6. Exclusive'
  BY ExclusiveStays DEF Invalidate, Goto, NoModel, TypeOK, NoDrop, Looked, Request, Actor
<1> QED
  BY <1>1, <1>2, <1>3, <1>4, <1>5, <1>6 DEF IInv

\* A tick reads the mark.
LEMMA TickMarkKeeps ==
  ASSUME IInv, NEW t \in Actor, TickMark(t)
  PROVE  IInv'
<1> TypeOK /\ Locks /\ Copies /\ Marks /\ Freshness /\ Exclusive
  BY DEF IInv
<1> HighWater' = HighWater /\ history' = history
  BY DEF TickMark, HighWater
<1>0. /\ t \in Tick /\ t \notin Request /\ t \notin Gui /\ pc[t] = "locked" /\ pc'[t] = "parts"
      /\ model'[t].tx = HighWater /\ \A a \in Actor \ {t} : pc'[a] = pc[a] /\ model'[a] = model[a]
      /\ UNCHANGED <<cache, loadedTx, start, hw>>
  BY DistinctAssumption, Basics DEF TickMark, Goto, TypeOK, Request, Actor
<1>1. TypeOK'
  BY FreeAssumption, Basics DEF TickMark, Goto, Begun, TypeOK
<1>2. Locks'
  BY FreeAssumption, DistinctAssumption DEF TickMark, Goto, Begun, TypeOK, Locks, Holding, Request, Actor
<1>3. Copies'
  BY <1>0, Basics DEF Copies, Carrying, IsCopy, ReadSince, Request, Actor
<1>4. Marks'
  BY <1>0 DEF Marks, Request, Actor
<1>5. Freshness'
  BY <1>0 DEF Freshness, CacheKept, MissedFresh, ReadFresh, Trusted, Missed, Coming, GuiIdle, Request, Actor
<1>6. Exclusive'
  <2>1. UNCHANGED <<history, start, orphans>> /\ \A w \in Writer : pc'[w] = pc[w]
    BY <1>0 DEF TickMark, Request, Actor
  <2>2. NoDrop' => NoDrop
    BY <1>0 DEF NoDrop, Request, Actor
  <2> QED
    BY <2>1, <2>2, ExclusiveStays
<1> QED
  BY <1>1, <1>2, <1>3, <1>4, <1>5, <1>6 DEF IInv

\* A tick reads the parts.
LEMMA TickLoadKeeps ==
  ASSUME IInv, NEW t \in Actor, TickLoad(t)
  PROVE  IInv'
<1> TypeOK /\ Locks /\ Copies /\ Marks /\ Freshness /\ Exclusive
  BY DEF IInv
<1> HighWater' = HighWater /\ history' = history
  BY DEF TickLoad, HighWater
<1>1. TypeOK'
  <2>1. PICK E \in SUBSET Edit : model' = [model EXCEPT ![t] = [on |-> TRUE, tx |-> model[t].tx, edits |-> E]]
    BY DEF TickLoad
  <2>2. [on |-> TRUE, tx |-> model[t].tx, edits |-> E] \in Models
    BY DEF TypeOK, Models
  <2>3. model' \in [Actor -> Models]
    BY <2>1, <2>2 DEF TypeOK
  <2> QED
    BY <2>3, FreeAssumption, Basics DEF TickLoad, Goto, TypeOK
<1>2. Locks'
  BY FreeAssumption, DistinctAssumption DEF TickLoad, Goto, TypeOK, Locks, Holding, Request, Actor
<1>3. Copies'
  <2>1. /\ pc[t] = "parts" /\ pc'[t] = "refresh" /\ t \in Actor
        /\ \A a \in Actor \ {t} : pc'[a] = pc[a] /\ model'[a] = model[a]
        /\ UNCHANGED <<cache, loadedTx>>
    BY DEF TickLoad, Goto, TypeOK, Request, Actor
  <2>2. PICK E \in SUBSET Edit :
          ReadSince(model[t].tx, E) /\ model'[t] = [on |-> TRUE, tx |-> model[t].tx, edits |-> E]
    BY <2>1 DEF TickLoad, TypeOK
  <2>3. IsCopy(model[t])' /\ model'[t].on
    BY <2>1, <2>2 DEF Copies, IsCopy, ReadSince
  <2>4. Grown
    BY NotAppended
  <2>5. /\ \A a \in Actor : pc'[a] \in Carrying \cup {"refresh"} =>
            \/ pc[a] \in Carrying \cup {"refresh"} /\ model'[a] = model[a]
            \/ IsCopy(model[a])' /\ model'[a].on
        /\ \A a \in Actor : pc'[a] = "parts" => pc[a] = "parts" /\ model'[a] = model[a]
    BY <2>1, <2>3
  <2>6. \A q \in Request : pc'[q] \in {"access", "save"} => pc[q] \in {"access", "save"} \/ loadedTx # 0
    BY <2>1 DEF Request, Actor
  <2> QED
    BY <2>1, <2>4, <2>5, <2>6, GrownCopies
<1>4. Marks'
  BY Basics DEF TickLoad, Goto, TypeOK, Marks, None, Request, Actor
<1>5. Freshness'
  BY DEF TickLoad, Goto, TypeOK, Freshness, CacheKept, MissedFresh, ReadFresh, Carrying, Trusted, Missed, Coming, GuiIdle, Request, Actor
<1>6. Exclusive'
  BY ExclusiveStays DEF TickLoad, Goto, TypeOK, NoDrop, Looked, Request, Actor
<1> QED
  BY <1>1, <1>2, <1>3, <1>4, <1>5, <1>6 DEF IInv

\* A tick saves what it loaded, or conflicts.
LEMMA TickSaveKeeps ==
  ASSUME IInv, NEW t \in Actor, TickSave(t)
  PROVE  IInv'
<1> TypeOK /\ Locks /\ Copies /\ Marks /\ Freshness /\ Exclusive
  BY DEF IInv
<1>1. /\ pc[t] = "refresh" /\ pc'[t] \in {"refused", "forget"} /\ writeLock' \in {writeLock, Free}
      /\ \A a \in Actor \ {t} : pc'[a] = pc[a]
      /\ UNCHANGED <<cache, loadedTx, cacheLock, sessions, start, hw, base, orphans>>
      /\ model' = [model EXCEPT ![t] = NoModel] /\ \A a \in Actor \ {t} : model'[a] = model[a]
      /\ model' \in [Actor -> Models]
      /\ pc'[t] = "forget" => writeLock' = writeLock
  BY Basics DEF TickSave, Goto, TypeOK
<1>2. t \in Tick /\ t \notin Request /\ t \notin Writer /\ t \in Actor \ Reader /\ t \notin Gui
  BY DistinctAssumption DEF TickSave, Request
<1>3. \A a \in (Actor \ Reader) \ {t} : pc'[a] \notin Holding
  BY <1>1, <1>2 DEF Locks, Holding
<1>4. Grown
  <2> DEFINE e == model[t].edits \cup {t}
  <2>1. e \in SUBSET Edit
    BY <1>2 DEF Edit, TypeOK, Models
  <2>2. history' = history \/ history' = Append(history, e)
    BY DEF TickSave
  <2> HIDE DEF e
  <2> QED
    BY <2>1, <2>2, Appended, NotAppended
<1>5. TypeOK'
  <2>1. pc' \in [Actor -> {"idle", "locked", "check", "probe", "look", "relook", "load", "parts",
                       "land", "access", "save", "saving", "publish", "conflict", "invalidate",
                       "refresh", "forget", "done", "refused", "dropped"}]
    BY DEF TickSave, Goto, TypeOK
  <2> QED
    BY <1>1, <1>4, <2>1, GrownTypes DEF TypeOK
<1>6. Copies' /\ Marks'
  <2>1. \A r \in Request : r \in Actor /\ pc'[r] = pc[r]
    BY <1>1, <1>2 DEF Request, Actor
  <2>2. \A a \in Actor : pc'[a] \in Carrying \cup {"refresh"} => pc[a] \in Carrying \cup {"refresh"}
    BY <1>1 DEF Carrying
  <2>3. \A a \in Actor : pc'[a] = "parts" => pc[a] = "parts" /\ model'[a] = model[a]
    BY <1>1
  <2>4. \A a \in Actor : pc'[a] \in Carrying \cup {"refresh"} => model'[a] = model[a]
    BY <1>1 DEF Carrying
  <2>5. Copies'
    BY <1>1, <1>4, <2>1, <2>2, <2>3, <2>4, GrownCopies
  <2> QED
    BY <1>1, <1>4, <2>1, <2>5, GrownMarks
<1>7. Locks'
  <2>1. writeLock = t
    BY <1>1, <1>2 DEF Locks, Holding
  <2> QED
    BY <1>1, <1>2, <1>3, <2>1 DEF Locks, Holding, Request, Actor
<1>8. Freshness'
  <2>1. (GuiIdle' <=> GuiIdle) /\ \A r \in Request : pc'[r] = pc[r]
    BY <1>1, <1>2 DEF GuiIdle, Request, Actor
  <2>2. Writer \subseteq Request
    BY DEF Request
  <2> QED
    BY <1>1, <2>1, <2>2 DEF Freshness, CacheKept, MissedFresh, ReadFresh, Trusted, Missed, Coming
<1>9. Exclusive'
  <2>1. NoDrop' => NoDrop
    BY <1>1 DEF NoDrop, Actor, Request
  <2>2. \A w \in Writer : pc'[w] \notin Looked
    BY <1>2, <1>3, DistinctAssumption DEF Holding, Looked, Actor, Request
  <2> QED
    BY <1>1, <2>1, <2>2 DEF Exclusive
<1> QED
  BY <1>5, <1>6, <1>7, <1>8, <1>9 DEF IInv

\* It has nothing to save.
LEMMA TickNothingKeeps ==
  ASSUME IInv, NEW t \in Actor, TickNothing(t)
  PROVE  IInv'
<1> TypeOK /\ Locks /\ Copies /\ Marks /\ Freshness /\ Exclusive
  BY DEF IInv
<1> HighWater' = HighWater /\ history' = history
  BY DEF TickNothing, HighWater
<1>0. /\ t \in Tick /\ t \notin Request /\ t \notin Gui /\ pc'[t] = "refused"
      /\ \A a \in Actor \ {t} : pc'[a] = pc[a] /\ model'[a] = model[a]
      /\ UNCHANGED <<cache, loadedTx, start, hw>>
  BY DistinctAssumption DEF TickNothing, Goto, TypeOK, Request, Actor
<1>1. TypeOK'
  BY FreeAssumption, Basics DEF TickNothing, Goto, TypeOK
<1>2. Locks'
  BY FreeAssumption, DistinctAssumption DEF TickNothing, Goto, TypeOK, Locks, Holding, Request, Actor
<1>3. Copies'
  BY <1>0, Basics DEF Copies, Carrying, IsCopy, ReadSince, Request, Actor
<1>4. Marks'
  BY <1>0 DEF Marks, Request, Actor
<1>5. Freshness'
  BY <1>0 DEF Freshness, CacheKept, MissedFresh, ReadFresh, Trusted, Missed, Coming, GuiIdle, Request, Actor
<1>6. Exclusive'
  BY ExclusiveStays DEF TickNothing, Goto, TypeOK, NoDrop, Looked, Request, Actor
<1> QED
  BY <1>1, <1>2, <1>3, <1>4, <1>5, <1>6 DEF IInv

\* It drops the cached copy.
LEMMA TickForgetKeeps ==
  ASSUME IInv, NEW t \in Actor, TickForget(t)
  PROVE  IInv'
<1> TypeOK /\ Locks /\ Copies /\ Marks /\ Freshness /\ Exclusive
  BY DEF IInv
<1> HighWater' = HighWater /\ history' = history
  BY DEF TickForget, HighWater
<1>1. TypeOK'
  BY FreeAssumption, Basics DEF TickForget, Goto, NoModel, TypeOK
<1>2. Locks'
  BY FreeAssumption, DistinctAssumption DEF TickForget, Goto, NoModel, TypeOK, Locks, Holding, Request, Actor
<1>3. Copies'
  BY Basics DEF TickForget, Goto, NoModel, TypeOK, Copies, Carrying, IsCopy, ReadSince, Request, Actor
<1>4. Marks'
  BY Basics DEF TickForget, Goto, NoModel, TypeOK, Marks, None, Request, Actor
<1>5. Freshness'
  <2>1. /\ pc[t] = "forget" /\ pc'[t] = "done" /\ cache' = NoModel /\ ~cache'.on
        /\ \A q \in Actor \ {t} : pc'[q] = pc[q]
        /\ UNCHANGED <<model, start, hw>>
    BY Basics DEF TickForget, Goto, TypeOK, Request, Actor
  <2>2. GuiIdle' => GuiIdle
    BY <2>1, DistinctAssumption DEF TickForget, GuiIdle, Request, Actor
  <2>3. t \in Actor \ Reader
    BY DistinctAssumption DEF TickForget, Request, Actor
  <2>4. CacheKept'
    <3>1. \A w \in Writer \ {t} : pc'[w] = pc[w] /\ pc[w] \notin Holding
      BY <2>1, <2>3, DistinctAssumption DEF Locks, Holding, Request, Actor
    <3> QED
      BY <2>1, <3>1 DEF CacheKept, Carrying, Holding
  <2>5. MissedFresh'
    BY <2>1, <2>2 DEF Freshness, MissedFresh, Trusted, Missed, Coming, Carrying, Request, Actor
  <2>6. ReadFresh'
    BY <2>1, <2>2, DistinctAssumption DEF TickForget, Freshness, ReadFresh, Trusted, Carrying, Request, Actor
  <2> QED
    BY <2>4, <2>5, <2>6 DEF Freshness
<1>6. Exclusive'
  BY ExclusiveStays DEF TickForget, Goto, NoModel, TypeOK, NoDrop, Looked, Request, Actor
<1> QED
  BY <1>1, <1>2, <1>3, <1>4, <1>5, <1>6 DEF IInv

\* Another process saves.
LEMMA OutsideSaveKeeps ==
  ASSUME IInv, NEW o \in Outside, OutsideSave(o)
  PROVE  IInv'
<1> TypeOK /\ Locks /\ Copies /\ Marks /\ Freshness /\ Exclusive
  BY DEF IInv
<1> DEFINE e == history[HighWater] \cup {o}
<1>1. UNCHANGED <<cache, loadedTx, writeLock, cacheLock, sessions, pc, start, hw, model, base, orphans>>
  BY DEF OutsideSave
<1>2. e \in SUBSET Edit /\ history' = Append(history, e)
  BY Basics DEF OutsideSave, Edit
<1>3. Grown /\ HighWater' = HighWater + 1 /\ history'[HighWater'] = e
  <2> HIDE DEF e
  <2> QED
    BY <1>2, Appended
<1>4. TypeOK' /\ Copies' /\ Marks'
  <2>1. TypeOK'
    BY <1>1, <1>3, GrownTypes DEF TypeOK
  <2> QED
    BY <1>1, <1>3, <2>1, GrownCopies, GrownMarks
<1>5. Locks' /\ Freshness'
  BY <1>1 DEF Locks, Freshness, CacheKept, MissedFresh, ReadFresh, GuiIdle, Trusted, Missed, Coming
<1>6. ASSUME NoDrop, NEW w \in Writer, pc[w] \in Looked, NEW i \in 1 .. HighWater + 1, start[w] <= i
      PROVE  e \ Outside \subseteq history'[i]
  <2>1. HighWater \in Nat /\ HighWater >= 1
    BY Basics
  <2>2. CASE i = HighWater + 1
    BY <1>3, <2>2
  <2>3. CASE i # HighWater + 1
    <3>1. i \in 1 .. HighWater
      BY <2>1, <2>3
    <3>2. history[HighWater] \ Outside \subseteq history[i] /\ history'[i] = history[i]
      BY <1>3, <1>6, <3>1 DEF Exclusive, Grown
    <3> QED
      BY <3>2
  <2> QED
    BY <2>2, <2>3
<1>7. Exclusive'
  BY <1>1, <1>3, <1>6 DEF Exclusive, NoDrop
<1> QED
  BY <1>4, <1>5, <1>7 DEF IInv

-----------------------------------------------------------------------------
(* The theorems. *)

\* Every step of any request, tick or process keeps the invariant.
LEMMA NextKeeps == IInv /\ [Next]_vars => IInv'
<1> SUFFICES ASSUME IInv, [Next]_vars PROVE IInv'
  OBVIOUS
<1>1. CASE UNCHANGED vars
  BY <1>1 DEF vars, IInv, TypeOK, Locks, Copies, IsCopy, ReadSince, Marks, Freshness, CacheKept, MissedFresh, ReadFresh,
              GuiIdle, Trusted, Missed, Coming, Exclusive, NoDrop, HighWater
<1>2. ASSUME NEW a \in Actor, Step(a) PROVE IInv'
  <2>1. CASE a \in Request /\ (LoadModel(a) \/ Access(a))
    BY <2>1, CheckKeeps, ProbeKeeps, LookKeeps, RelookKeeps, LoadMarkKeeps, LoadKeeps, LandKeeps, LoadFailKeeps, AccessKeeps
       DEF LoadModel
  <2>2. CASE a \in Writer /\ SaveModel(a)
    BY <2>2, BaseKeeps, SaveKeeps, SaveFailKeeps, PublishKeeps, ConflictKeeps DEF SaveModel
  <2>3. CASE Scheduler(a)
    BY <2>3, TickMarkKeeps, TickLoadKeeps, TickSaveKeeps, TickNothingKeeps, TickForgetKeeps DEF Scheduler
  <2> QED
    BY <1>2, <2>1, <2>2, <2>3, TakeWriteKeeps, ArriveKeeps, GuiSaveKeeps, InvalidateKeeps DEF Step
<1>3. Ended => UNCHANGED vars
  BY DEF Ended
<1> QED
  BY <1>1, <1>2, <1>3, DropKeeps, OrphanSaveKeeps, OutsideSaveKeeps DEF Next

\* The server keeps the invariant.
THEOREM Invariant == Spec => []IInv
BY InitIInv, NextKeeps, PTL DEF Spec

\* The marks are marks of the store's, and the locks are held by who may hold them.
THEOREM TypeCorrect == Spec => []TypeOK
<1>1. IInv => TypeOK
  BY DEF IInv
<1> QED
  BY <1>1, Invariant, PTL

\* A cache reader sees a matching pair: no part of the cached model is older than
\* loaded_tx, whatever saves, conflicts and dropped requests fell between its parts.
THEOREM PairMatches == Spec => []MatchingPair
<1>1. IInv => MatchingPair
  BY DEF IInv, Copies, IsCopy, ReadSince, MatchingPair
<1> QED
  BY <1>1, Invariant, PTL

\* Until a GUI route writes, load_model gives a request every save made before it
\* looked at the cache, also when it found none and probed nothing.
THEOREM FreshlyRead == Spec => []ReadsAreFresh
<1>1. IInv => ReadsAreFresh
  <2> SUFFICES ASSUME IInv, GuiIdle, NEW r \in Request, pc[r] \in {"access", "save", "done"}
               PROVE  start[r] <= model[r].tx
    BY DEF ReadsAreFresh, FreshReads, GuiIdle
  <2> QED
    BY DEF IInv, Freshness, ReadFresh, Trusted, Carrying
<1> QED
  BY <1>1, Invariant, PTL

\* What a save under write_lock is made from has every write the server stored before.
LEMMA WriterHasAll ==
  ASSUME IInv, NoDrop, NEW r \in Writer, pc[r] \in {"land", "access", "save", "saving"}
  PROVE  history[HighWater] \ Outside \subseteq model[r].edits
<1>1. IsCopy(model[r]) /\ start[r] <= model[r].tx
  BY DEF IInv, Copies, Carrying, Freshness, ReadFresh, Trusted, Request, Actor
<1>2. HighWater \in Nat /\ start[r] \in Nat /\ history[HighWater] \in SUBSET Edit
  BY Basics DEF IInv, TypeOK, Request
<1>3. ASSUME NEW e \in history[HighWater] \ Outside PROVE e \in model[r].edits
  <2>1. PICK i \in model[r].tx .. HighWater : e \in model[r].edits <=> e \in history[i]
    BY <1>1, <1>2, <1>3 DEF IsCopy, ReadSince
  <2>2. i \in 1 .. HighWater /\ start[r] <= i
    BY <1>1, <1>2, <2>1 DEF IsCopy
  <2>3. history[HighWater] \ Outside \subseteq history[i]
    BY <2>2 DEF IInv, Exclusive, Looked
  <2> QED
    BY <1>3, <2>1, <2>3
<1> QED
  BY <1>3

\* write_lock is enough: while no request is dropped, no save of the server's takes
\* back what another writer, GUI write or tick stored, whatever other processes save.
THEOREM NothingLost == Spec => NoLostUpdate
<1> DEFINE Kept == history[HighWater] \ Outside \subseteq history'[HighWater']
<1>1. ASSUME IInv, NoDrop, [Next]_vars PROVE Kept
  <2> TypeOK
    BY <1>1 DEF IInv
  <2>1. CASE UNCHANGED history
    BY <2>1 DEF HighWater
  <2>2. ASSUME NEW e \in SUBSET Edit, history' = Append(history, e), history[HighWater] \ Outside \subseteq e
        PROVE  Kept
    BY <2>2, Appended
  <2>3. history[HighWater] \in SUBSET Edit
    BY Basics
  <2>4. ASSUME NEW r \in Writer, Save(r) PROVE Kept
    <3>1. pc[r] = "saving" /\ model[r].edits \cup {r} \in SUBSET Edit
      BY <2>4 DEF Save, TypeOK, Models, Edit, Request, Actor
    <3>2. CASE Conflicts(base[r])
      BY <2>1, <2>4, <3>2 DEF Save
    <3>3. CASE ~Conflicts(base[r])
      <4> DEFINE e == model[r].edits \cup {r}
      <4>1. history' = Append(history, e)
        BY <2>4, <3>3 DEF Save
      <4>2. history[HighWater] \ Outside \subseteq e
        BY <1>1, <3>1, WriterHasAll
      <4> HIDE DEF e
      <4> QED
        BY <2>2, <3>1, <4>1, <4>2 DEF e
    <3> QED
      BY <3>2, <3>3
  <2>5. ASSUME NEW g \in Actor, GuiSave(g) PROVE Kept
    <3> DEFINE e == history[HighWater] \cup {g}
    <3>1. e \in SUBSET Edit /\ (history' = history \/ history' = Append(history, e))
      BY <2>3, <2>5 DEF GuiSave, Edit
    <3>2. history[HighWater] \ Outside \subseteq e
      OBVIOUS
    <3> HIDE DEF e
    <3> QED
      BY <2>1, <2>2, <3>1, <3>2
  <2>6. ASSUME NEW t \in Actor, TickSave(t) PROVE Kept
    <3> DEFINE e == model[t].edits \cup {t}
    <3>1. CASE Conflicts(model[t].tx)
      BY <2>1, <2>6, <3>1 DEF TickSave
    <3>2. CASE ~Conflicts(model[t].tx)
      <4>1. IsCopy(model[t])
        BY <1>1, <2>6 DEF TickSave, IInv, Copies
      <4>2. model[t].edits = history[HighWater]
        <5>1. model[t].tx = HighWater /\ HighWater .. HighWater = {HighWater}
          BY <3>2, <4>1, Basics DEF Conflicts, IsCopy, None
        <5>2. \A d \in Edit : d \in model[t].edits <=> d \in history[HighWater]
          BY <4>1, <5>1 DEF IsCopy, ReadSince
        <5>3. model[t].edits \in SUBSET Edit
          BY <2>6 DEF TypeOK, Models
        <5> QED
          BY <2>3, <5>2, <5>3
      <4>3. history' = Append(history, e) /\ e \in SUBSET Edit
        BY <2>6, <3>2 DEF TickSave, TypeOK, Models, Edit
      <4>4. history[HighWater] \ Outside \subseteq e
        BY <4>2
      <4> HIDE DEF e
      <4> QED
        BY <2>2, <4>3, <4>4
    <3> QED
      BY <3>1, <3>2
  <2>7. ASSUME NEW o \in Outside, OutsideSave(o) PROVE Kept
    <3> DEFINE e == history[HighWater] \cup {o}
    <3>1. e \in SUBSET Edit /\ history' = Append(history, e) /\ history[HighWater] \ Outside \subseteq e
      BY <2>3, <2>7 DEF OutsideSave, Edit
    <3> HIDE DEF e
    <3> QED
      BY <2>2, <3>1
  <2>8. ASSUME NEW a \in Actor, Step(a) PROVE Kept
    <3>1. TakeWrite(a) \/ Arrive(a) \/ LoadModel(a) \/ Access(a) \/ Invalidate(a) => UNCHANGED history
      BY DEF TakeWrite, Arrive, LoadModel, Check, Probe, Look, Relook, LoadMark, Load, Land, LoadFail, Access, Invalidate
    <3>2. Base(a) \/ SaveFail(a) \/ Publish(a) \/ Conflict(a) => UNCHANGED history
      BY DEF Base, SaveFail, Publish, Conflict
    <3>3. TickMark(a) \/ TickLoad(a) \/ TickNothing(a) \/ TickForget(a) => UNCHANGED history
      BY DEF TickMark, TickLoad, TickNothing, TickForget
    <3> HIDE DEF Kept
    <3> QED
      BY <2>1, <2>4, <2>5, <2>6, <2>8, <3>1, <3>2, <3>3 DEF Step, SaveModel, Scheduler
  <2>9. (\E r \in Request \cup Gui : Drop(r)) \/ Ended \/ UNCHANGED vars => UNCHANGED history
    BY DEF Drop, Ended, vars
  <2>10. ~\E o \in orphans : OrphanSave(o)
    BY <1>1 DEF IInv, Exclusive
  <2> HIDE DEF Kept
  <2> QED
    BY <1>1, <2>1, <2>7, <2>8, <2>9, <2>10 DEF Next
<1>2. IInv /\ [Next]_vars => [(\A a \in Writer \cup Gui : pc[a] # "dropped") => Kept]_vars
  BY <1>1 DEF NoDrop
<1> QED
  BY <1>2, Invariant, PTL DEF Spec, NoLostUpdate
=============================================================================
