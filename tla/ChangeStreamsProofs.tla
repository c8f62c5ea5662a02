------------------------ MODULE ChangeStreamsProofs ------------------------
(***************************************************************************)
(* ChangeStreams is well typed, counts its slots exactly and keeps one     *)
(* poller while a stream is open, for any connections, callers, limits and *)
(* bounds.                                                                 *)
(*                                                                         *)
(* OnePoller alone is not inductive: a stream starts a poller by what      *)
(* `polling` says, so the flag has to agree with the pollers there are.    *)
(* The types need the counts (a slot is given back only when one is taken) *)
(* and a version of the authority the store has reached.                   *)
(***************************************************************************)
EXTENDS ChangeStreams, FiniteSetTheorems, TLAPS

OpenSet == {s \in Stream : Open(s)}
OpenOf(c) == {s \in Stream : Open(s) /\ Who[s] = c}

\* The flag says whether there is a poller, and an open stream has set it.
PollerFlag ==
  /\ sleeping + probing + telling = IF polling THEN 1 ELSE 0
  /\ total > 0 => polling

IInv ==
  /\ TypeOK
  /\ SlotsCounted
  /\ PollerFlag
  /\ version <= storeTx

-----------------------------------------------------------------------------
(* The slots. *)

\* The sets that are counted are finite.
LEMMA FiniteOpen ==
  /\ IsFiniteSet(OpenSet)
  /\ \A c \in Caller : IsFiniteSet(OpenOf(c))
BY LimitAssumption, FS_Subset DEF OpenSet, OpenOf

\* A stream that has a slot is counted in both counts, so both can be lowered.
LEMMA Counted ==
  ASSUME TypeOK, SlotsCounted, NEW s \in Stream, Open(s)
  PROVE  total >= 1 /\ per[Who[s]] >= 1
<1>1. s \in OpenSet /\ s \in OpenOf(Who[s])
  BY DEF OpenSet, OpenOf
<1>2. Who[s] \in Caller
  BY WhoAssumption
<1>3. Cardinality(OpenSet) # 0 /\ Cardinality(OpenOf(Who[s])) # 0
  BY <1>1, <1>2, FiniteOpen, FS_EmptySet
<1>4. total = Cardinality(OpenSet) /\ per[Who[s]] = Cardinality(OpenOf(Who[s]))
  BY <1>2 DEF SlotsCounted, OpenSet, OpenOf
<1> QED
  BY <1>2, <1>3, <1>4 DEF TypeOK

\* A stream that takes a slot is counted.
LEMMA SlotTaken ==
  ASSUME TypeOK, SlotsCounted, NEW s \in Stream,
         pc[s] = "idle", Goto(s, "first"),
         total' = total + 1, per' = [per EXCEPT ![Who[s]] = @ + 1]
  PROVE  SlotsCounted'
<1> DEFINE c == Who[s]
<1>1. c \in Caller
  BY WhoAssumption
<1>2. s \notin OpenSet /\ s \notin OpenOf(c)
  BY DEF OpenSet, OpenOf, Open
<1>3. \A t \in Stream : Open(t)' <=> Open(t) \/ t = s
  BY DEF Open, Goto, TypeOK
<1>4. OpenSet' = OpenSet \union {s}
  BY <1>3 DEF OpenSet
<1>5. \A d \in Caller : OpenOf(d)' = IF d = c THEN OpenOf(d) \union {s} ELSE OpenOf(d)
  BY <1>3 DEF OpenOf
<1>6. Cardinality(OpenSet') = Cardinality(OpenSet) + 1
  BY <1>2, <1>4, FiniteOpen, FS_AddElement
<1>7. Cardinality(OpenOf(c) \union {s}) = Cardinality(OpenOf(c)) + 1
  BY <1>1, <1>2, FiniteOpen, FS_AddElement
<1>8. total' = Cardinality(OpenSet')
  BY <1>6 DEF SlotsCounted, OpenSet
<1>9. ASSUME NEW d \in Caller
      PROVE  per'[d] = Cardinality(OpenOf(d)')
  <2>1. per[d] = Cardinality(OpenOf(d))
    BY DEF SlotsCounted, OpenOf
  <2>2. CASE d = c
    BY <1>1, <1>5, <1>7, <2>1, <2>2 DEF TypeOK
  <2>3. CASE d # c
    BY <1>1, <1>5, <2>1, <2>3 DEF TypeOK
  <2> QED
    BY <2>2, <2>3
<1> QED
  BY <1>8, <1>9 DEF SlotsCounted, OpenSet, OpenOf

\* A stream that gives its slot back is no longer counted.
LEMMA SlotFreed ==
  ASSUME TypeOK, SlotsCounted, NEW s \in Stream,
         Open(s), Goto(s, "closed"), FreeSlot(s)
  PROVE  SlotsCounted'
<1> DEFINE c == Who[s]
<1>1. c \in Caller
  BY WhoAssumption
<1>2. s \in OpenSet /\ s \in OpenOf(c)
  BY DEF OpenSet, OpenOf
<1>3. \A t \in Stream : Open(t)' <=> Open(t) /\ t # s
  BY DEF Open, Goto, TypeOK
<1>4. OpenSet' = OpenSet \ {s}
  BY <1>3 DEF OpenSet
<1>5. \A d \in Caller : OpenOf(d)' = IF d = c THEN OpenOf(d) \ {s} ELSE OpenOf(d)
  BY <1>3 DEF OpenOf
<1>6. Cardinality(OpenSet') = Cardinality(OpenSet) - 1
  BY <1>2, <1>4, FiniteOpen, FS_RemoveElement
<1>7. Cardinality(OpenOf(c) \ {s}) = Cardinality(OpenOf(c)) - 1
  BY <1>1, <1>2, FiniteOpen, FS_RemoveElement
<1>8. total' = Cardinality(OpenSet')
  BY <1>6 DEF SlotsCounted, OpenSet, FreeSlot
<1>9. ASSUME NEW d \in Caller
      PROVE  per'[d] = Cardinality(OpenOf(d)')
  <2>1. per[d] = Cardinality(OpenOf(d))
    BY DEF SlotsCounted, OpenOf
  <2>2. CASE d = c
    BY <1>1, <1>5, <1>7, <2>1, <2>2 DEF TypeOK, FreeSlot
  <2>3. CASE d # c
    BY <1>1, <1>5, <2>1, <2>3 DEF TypeOK, FreeSlot
  <2> QED
    BY <2>2, <2>3
<1> QED
  BY <1>8, <1>9 DEF SlotsCounted, OpenSet, OpenOf

\* A step that opens and closes no stream leaves the counts right.
LEMMA SlotsKept ==
  ASSUME SlotsCounted, UNCHANGED <<total, per>>,
         \A t \in Stream : Open(t)' <=> Open(t)
  PROVE  SlotsCounted'
<1>1. OpenSet' = OpenSet /\ \A c \in Caller : OpenOf(c)' = OpenOf(c)
  BY DEF OpenSet, OpenOf
<1> QED
  BY <1>1 DEF SlotsCounted, OpenSet, OpenOf

-----------------------------------------------------------------------------
(* The steps. *)

\* A server that starts has no stream, no poller and the store's version.
LEMMA InitIInv == Init => IInv
<1> SUFFICES ASSUME Init PROVE IInv
  OBVIOUS
<1>1. TypeOK
  <2>1. polling \in BOOLEAN
    BY DEF Init
  <2>2. {storeTx, version} \subseteq 1 .. MaxVersion
    BY LimitAssumption DEF Init
  <2>3. total \in 0 .. MaxStreams /\ per \in [Caller -> 0 .. MaxPer] /\ errors \in 0 .. MaxErrors
    BY LimitAssumption DEF Init
  <2>4. pc \in [Stream -> {"idle", "first", "mark", "wait", "look", "closed"}]
    BY DEF Init
  <2>5. /\ cursor \in [Stream -> 0 .. changed]
        /\ seen \in [Stream -> 0 .. version]
        /\ got \in [Stream -> 0 .. version]
    BY DEF Init
  <2> QED
    BY <2>1, <2>2, <2>3, <2>4, <2>5 DEF Init, TypeOK
<1>2. OpenSet = {} /\ \A c \in Caller : OpenOf(c) = {}
  BY DEF Init, OpenSet, OpenOf, Open
<1>3. SlotsCounted
  BY <1>2, FS_EmptySet DEF Init, SlotsCounted, OpenSet, OpenOf
<1> QED
  BY <1>1, <1>3 DEF Init, IInv, PollerFlag

\* A step of a stream that stays open.
LEMMA StaysOpen ==
  ASSUME TypeOK, NEW s \in Stream, Open(s), NEW l \in {"first", "mark", "wait", "look"},
         Goto(s, l)
  PROVE  \A t \in Stream : Open(t)' <=> Open(t)
BY DEF TypeOK, Open, Goto

\* A refresh brings the authority to the store's version and only ever raises the
\* channel, so what the streams remember of both stays in range.
LEMMA RefreshedTypes ==
  ASSUME IInv, Refreshed, storeTx' = storeTx
  PROVE  /\ {storeTx', version'} \subseteq 1 .. MaxVersion
         /\ version' = storeTx
         /\ changed' \in Nat
         /\ changed <= changed'
         /\ version <= version'
BY LimitAssumption DEF IInv, TypeOK, Refreshed

\* A step that leaves the streams where they are.
LEMMA StreamsStay ==
  ASSUME SlotsCounted, UNCHANGED <<total, per, pc>>
  PROVE  SlotsCounted'
BY SlotsKept DEF Open

\* take_slot counts a stream and starts a poller exactly when there is none.
LEMMA ConnectKeeps == \A s \in Stream : IInv /\ Connect(s) => IInv'
<1> SUFFICES ASSUME NEW s \in Stream, IInv, Connect(s) PROVE IInv'
  OBVIOUS
<1>0. Who[s] \in Caller
  BY WhoAssumption
<1>1. CASE ~Full(s) /\ TakeSlot(s) /\ cursor' = [cursor EXCEPT ![s] = changed] /\ Goto(s, "first")
  <2>1. SlotsCounted'
    BY <1>1, SlotTaken DEF IInv, Connect, TakeSlot
  <2>2. total' \in 0 .. MaxStreams /\ per' \in [Caller -> 0 .. MaxPer]
    BY <1>0, <1>1, LimitAssumption DEF IInv, TypeOK, Full, TakeSlot
  <2>3. TypeOK'
    BY <1>1, <2>2 DEF IInv, TypeOK, Connect, TakeSlot, Goto
  <2>4. PollerFlag'
    BY <1>1 DEF IInv, TypeOK, PollerFlag, Connect, TakeSlot
  <2> QED
    BY <2>1, <2>3, <2>4 DEF IInv, Connect
<1>2. CASE Full(s) /\ Goto(s, "closed") /\ UNCHANGED <<total, per, polling, sleeping, cursor>>
  <2>1. \A t \in Stream : Open(t)' <=> Open(t)
    BY <1>2 DEF IInv, TypeOK, Open, Goto, Connect
  <2>2. SlotsCounted'
    BY <1>2, <2>1, SlotsKept DEF IInv
  <2>3. TypeOK' /\ PollerFlag'
    BY <1>2 DEF IInv, TypeOK, PollerFlag, Connect, Goto
  <2> QED
    BY <2>2, <2>3 DEF IInv, Connect
<1> QED
  BY <1>1, <1>2 DEF Connect

\* The first look of changes moves the stream on and refreshes the authority.
LEMMA FirstLookKeeps == \A s \in Stream : IInv /\ FirstLook(s) => IInv'
<1> SUFFICES ASSUME NEW s \in Stream, IInv, FirstLook(s) PROVE IInv'
  OBVIOUS
<1>1. SlotsCounted'
  BY StaysOpen, SlotsKept DEF IInv, FirstLook, Open, streams
<1>2. TypeOK'
  BY RefreshedTypes DEF IInv, TypeOK, FirstLook, Goto, streams, pollers
<1> QED
  BY <1>1, <1>2, RefreshedTypes DEF IInv, TypeOK, PollerFlag, FirstLook, streams, pollers

\* A stream ends, refused or left by its client.
LEMMA EndKeeps ==
  ASSUME NEW s \in Stream, IInv, Open(s), FreeSlot(s), Goto(s, "closed"),
         errors' \in 0 .. MaxErrors,
         UNCHANGED <<storeTx, version, changed, bumps, polling, sleeping, probing, telling,
                     cursor, seen, got, failed>>
  PROVE  IInv'
<1>1. SlotsCounted'
  BY SlotFreed DEF IInv
<1>2. total >= 1 /\ per[Who[s]] >= 1 /\ Who[s] \in Caller
  BY Counted, WhoAssumption DEF IInv
<1>3. total' \in 0 .. MaxStreams /\ per' \in [Caller -> 0 .. MaxPer] /\ total' < total
  BY <1>2, LimitAssumption DEF IInv, TypeOK, FreeSlot
<1>4. TypeOK'
  BY <1>3 DEF IInv, TypeOK, Goto
<1>5. PollerFlag'
  BY <1>3 DEF IInv, TypeOK, PollerFlag
<1> QED
  BY <1>1, <1>4, <1>5 DEF IInv

\* A refused first look drops the slot.
LEMMA FirstFailsKeeps == \A s \in Stream : IInv /\ FirstFails(s) => IInv'
BY EndKeeps, LimitAssumption DEF IInv, TypeOK, FirstFails, Open

\* A client that goes away drops the stream and its slot, wherever it was.
LEMMA LeaveKeeps == \A s \in Stream : IInv /\ Leave(s) => IInv'
BY EndKeeps DEF IInv, TypeOK, Leave, Open, pollers

\* The steps of a stream that neither refresh nor touch the counts.
LEMMA StreamKeeps == \A s \in Stream : IInv /\ (Mark(s) \/ Wake(s) \/ Look(s)) => IInv'
<1> SUFFICES ASSUME NEW s \in Stream, IInv, Mark(s) \/ Wake(s) \/ Look(s) PROVE IInv'
  OBVIOUS
<1>1. CASE Mark(s)
  <2>1. SlotsCounted'
    BY <1>1, StaysOpen, SlotsKept DEF IInv, Mark, Open, streams
  <2> QED
    BY <1>1, <2>1 DEF IInv, TypeOK, PollerFlag, Mark, Goto, streams, pollers
<1>2. CASE Wake(s)
  <2>1. SlotsCounted'
    BY <1>2, StaysOpen, SlotsKept DEF IInv, Wake, Open, streams
  <2> QED
    BY <1>2, <2>1 DEF IInv, TypeOK, PollerFlag, Wake, Goto, streams, pollers
<1>3. CASE Look(s)
  <2>1. SlotsCounted'
    BY <1>3, StaysOpen, SlotsKept DEF IInv, Look, Open, streams
  <2> QED
    BY <1>3, <2>1 DEF IInv, TypeOK, PollerFlag, Look, Goto, streams, pollers
<1> QED
  BY <1>1, <1>2, <1>3

\* The poller stays one task through its sleep, its refresh and its wake-up, and
\* clears the flag when it ends.
LEMMA PollerKeeps == IInv /\ (Poller \/ ProbeFails) => IInv'
<1> SUFFICES ASSUME IInv, Poller \/ ProbeFails PROVE IInv'
  OBVIOUS
<1>1. CASE PollWakes
  <2>1. SlotsCounted'
    BY <1>1, StreamsStay DEF IInv, PollWakes, conns
  <2>2. polling' \in BOOLEAN
    BY <1>1 DEF IInv, TypeOK, PollWakes
  <2>3. sleeping' \in Nat /\ probing' \in Nat
    BY <1>1 DEF IInv, TypeOK, PollWakes
  <2>4. TypeOK'
    BY <1>1, <2>2, <2>3 DEF IInv, TypeOK, PollWakes, conns
  <2>5. PollerFlag'
    <3>1. CASE total = 0
      BY <1>1, <3>1 DEF IInv, TypeOK, PollerFlag, PollWakes
    <3>2. CASE total # 0
      BY <1>1, <3>2 DEF IInv, TypeOK, PollerFlag, PollWakes
    <3> QED
      BY <3>1, <3>2
  <2> QED
    BY <1>1, <2>1, <2>4, <2>5 DEF IInv, PollWakes
<1>2. CASE Probe
  <2>1. SlotsCounted'
    BY <1>2, StreamsStay DEF IInv, Probe, conns, streams
  <2>2. TypeOK'
    BY <1>2, RefreshedTypes DEF IInv, TypeOK, Probe, conns, streams
  <2>3. PollerFlag'
    BY <1>2 DEF IInv, TypeOK, PollerFlag, Probe, streams
  <2> QED
    BY <1>2, <2>1, <2>2, <2>3, RefreshedTypes DEF IInv, TypeOK, Probe
<1>3. CASE Tell
  <2>1. SlotsCounted'
    BY <1>3, StreamsStay DEF IInv, Tell, conns, streams
  <2> QED
    BY <1>3, <2>1 DEF IInv, TypeOK, PollerFlag, Tell, conns, streams
<1>4. CASE ProbeFails
  <2>1. SlotsCounted'
    BY <1>4, StreamsStay DEF IInv, ProbeFails, conns, streams
  <2> QED
    BY <1>4, <2>1, LimitAssumption DEF IInv, TypeOK, PollerFlag, ProbeFails, conns, streams
<1> QED
  BY <1>1, <1>2, <1>3, <1>4 DEF Poller

\* Writers and readers move versions and the channel, never the streams.
LEMMA WriterKeeps == IInv /\ (Write \/ WriteRefused \/ Bump \/ Read \/ OtherWrite) => IInv'
<1> SUFFICES ASSUME IInv, Write \/ WriteRefused \/ Bump \/ Read \/ OtherWrite PROVE IInv'
  OBVIOUS
<1>0. SlotsCounted'
  BY StreamsStay DEF IInv, Write, WriteRefused, Bump, Read, OtherWrite, conns, streams
<1>1. CASE Write
  BY <1>0, <1>1, LimitAssumption DEF IInv, TypeOK, PollerFlag, Write, conns, streams, pollers
<1>2. CASE WriteRefused
  <2>1. TypeOK'
    BY <1>2, RefreshedTypes, LimitAssumption DEF IInv, TypeOK, WriteRefused, conns, streams
  <2> QED
    BY <1>0, <1>2, <2>1, RefreshedTypes DEF IInv, TypeOK, PollerFlag, WriteRefused, streams
<1>3. CASE Bump
  BY <1>0, <1>3 DEF IInv, TypeOK, PollerFlag, Bump, conns, streams, pollers
<1>4. CASE Read
  <2>1. TypeOK'
    BY <1>4, RefreshedTypes DEF IInv, TypeOK, Read, conns, streams, pollers
  <2> QED
    BY <1>0, <1>4, <2>1, RefreshedTypes DEF IInv, TypeOK, PollerFlag, Read, streams, pollers
<1>5. CASE OtherWrite
  BY <1>0, <1>5, LimitAssumption DEF IInv, TypeOK, PollerFlag, OtherWrite, conns, streams, pollers
<1> QED
  BY <1>1, <1>2, <1>3, <1>4, <1>5

\* Nothing happens.
LEMMA StutterKeeps == IInv /\ UNCHANGED vars => IInv'
<1> SUFFICES ASSUME IInv, UNCHANGED vars PROVE IInv'
  OBVIOUS
<1>1. SlotsCounted'
  BY StreamsStay DEF IInv, vars, conns, streams
<1> QED
  BY <1>1 DEF IInv, TypeOK, PollerFlag, vars, conns, streams, pollers

\* Every step of the specification keeps the inductive invariant.
LEMMA NextKeeps == IInv /\ [Next]_vars => IInv'
BY ConnectKeeps, FirstLookKeeps, FirstFailsKeeps, LeaveKeeps, StreamKeeps, PollerKeeps,
   WriterKeeps, StutterKeeps DEF Next, StreamStep, Quiet

\* The inductive invariant holds in every reachable state of the GUI routes.
THEOREM Invariant == Spec => []IInv
BY InitIInv, NextKeeps, PTL DEF Spec

-----------------------------------------------------------------------------
(* The results. *)

\* Every reachable state of the streams, the poller and the writers is well typed:
\* no count of take_slot and Drop for Slot passes its limit or goes below zero.
THEOREM TypesCorrect == Spec => []TypeOK
<1>1. IInv => TypeOK
  BY DEF IInv
<1> QED
  BY <1>1, Invariant, PTL

\* Streams.total and Streams.per are the open streams, in all and per principal,
\* in every reachable state: no slot leaks and none is given twice.
THEOREM SlotsCorrect == Spec => []SlotsCounted
<1>1. IInv => SlotsCounted
  BY DEF IInv
<1> QED
  BY <1>1, Invariant, PTL

\* take_slot and poller never run two pollers, and run one while a stream is open.
THEOREM PollerCorrect == Spec => []OnePoller
<1>1. IInv => OnePoller
  BY DEF IInv, TypeOK, PollerFlag, OnePoller
<1> QED
  BY <1>1, Invariant, PTL
=============================================================================
