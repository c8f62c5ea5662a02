--------------------------- MODULE ChangeStreams ---------------------------
(***************************************************************************)
(* The change streams of the GUI routes (server/src/gui.rs: changes,       *)
(* take_slot, Slot, poller, with_authority, serve).  A stream takes a      *)
(* slot, looks at the authority once, then waits on the watch channel      *)
(* `changed` and looks again whenever it is woken.  One poller, alive      *)
(* while any stream is open, finds what other programs wrote.              *)
(*                                                                         *)
(* Each action runs from one await point, lock or blocking task to the     *)
(* next.  A version is its number; what an event says is in Authority.     *)
(***************************************************************************)
EXTENDS Integers, FiniteSets

CONSTANTS
  Stream,      \* connections
  Caller,      \* principals
  Who,         \* Who[s]: the principal of connection s
  MaxStreams,  \* MAX_STREAMS
  MaxPer,      \* MAX_STREAMS_PER_CALLER
  MaxVersion,  \* bound: versions of the store
  MaxErrors    \* bound: refreshes that fail and writes that are refused

ASSUME WhoAssumption == Who \in [Stream -> Caller]
ASSUME LimitAssumption == /\ IsFiniteSet(Stream)
                          /\ {MaxStreams, MaxPer, MaxVersion} \subseteq Nat \ {0}
                          /\ MaxErrors \in Nat

VARIABLES
  storeTx,   \* the store's version
  version,   \* the authority's version
  changed,   \* the watch channel's value
  bumps,     \* writes whose request has yet to bump the channel once more
  total,     \* Streams.total
  per,       \* Streams.per
  polling,   \* Streams.polling
  sleeping,  \* pollers that sleep
  probing,   \* pollers that refresh
  telling,   \* pollers that have yet to wake the streams
  errors,    \* of these, so far
  pc,        \* where each connection is
  cursor,    \* the value of the channel each receiver has seen
  seen,      \* the version each stream has looked at
  got,       \* the version its client has been told of
  failed     \* streams that were waiting when the poller's refresh failed

streams == <<total, per, polling>>
pollers == <<sleeping, probing, telling, errors>>
conns == <<pc, cursor, seen, got>>
vars == <<storeTx, version, changed, bumps, streams, pollers, conns, failed>>

-----------------------------------------------------------------------------
Init ==
  /\ storeTx = 1
  /\ version = 1
  /\ changed = 0
  /\ bumps = 0
  /\ total = 0
  /\ per = [c \in Caller |-> 0]
  /\ polling = FALSE
  /\ sleeping = 0
  /\ probing = 0
  /\ telling = 0
  /\ errors = 0
  /\ pc = [s \in Stream |-> "idle"]
  /\ cursor = [s \in Stream |-> 0]
  /\ seen = [s \in Stream |-> 0]
  /\ got = [s \in Stream |-> 0]
  /\ failed = {}

Goto(s, l) == pc' = [pc EXCEPT ![s] = l]

RefreshedSilent == version' = storeTx /\ UNCHANGED changed

\* with_authority around a refresh: the streams are woken when the version moves.
Refreshed ==
  /\ version' = storeTx
  /\ changed' = IF version = storeTx THEN changed ELSE changed + 1

\* Drop for Slot: the slot is given back, whoever ends the stream.
FreeSlotTotal(s) == total' = total - 1 /\ UNCHANGED per
FreeSlot(s) ==
  /\ total' = total - 1
  /\ per' = [per EXCEPT ![Who[s]] = @ - 1]

TakeSlotStarts(s) ==
  /\ total' = total + 1
  /\ per' = [per EXCEPT ![Who[s]] = @ + 1]
  /\ polling' = TRUE
  /\ sleeping' = sleeping + 1

\* take_slot: counted, and the poller started unless it runs.
TakeSlot(s) ==
  /\ total' = total + 1
  /\ per' = [per EXCEPT ![Who[s]] = @ + 1]
  /\ polling' = TRUE
  /\ sleeping' = IF polling THEN sleeping ELSE sleeping + 1

Full(s) == total >= MaxStreams \/ per[Who[s]] >= MaxPer

\* GET /v1/changes: a slot and a receiver, or 429.
Connect(s) ==
  /\ pc[s] = "idle"
  /\ \/ /\ ~Full(s)
        /\ TakeSlot(s)
        /\ cursor' = [cursor EXCEPT ![s] = changed]
        /\ Goto(s, "first")
     \/ /\ Full(s)
        /\ Goto(s, "closed")
        /\ UNCHANGED <<total, per, polling, sleeping, cursor>>
  /\ UNCHANGED <<storeTx, version, changed, bumps, probing, telling, errors, seen, got, failed>>

\* The first look refreshes the authority and says where the stream starts.
FirstLook(s) ==
  /\ pc[s] = "first"
  /\ Refreshed
  /\ seen' = [seen EXCEPT ![s] = storeTx]
  /\ Goto(s, "mark")
  /\ UNCHANGED <<storeTx, bumps, streams, pollers, cursor, got, failed>>

\* It fails: the stream is refused.
FirstFails(s) ==
  /\ pc[s] = "first"
  /\ errors < MaxErrors
  /\ errors' = errors + 1
  /\ FreeSlot(s)
  /\ Goto(s, "closed")
  /\ UNCHANGED <<storeTx, version, changed, bumps, polling, sleeping, probing, telling, cursor, seen,
                 got, failed>>

\* mark_unchanged, then the first event goes out.
Mark(s) ==
  /\ pc[s] = "mark"
  /\ cursor' = [cursor EXCEPT ![s] = changed]
  /\ got' = [got EXCEPT ![s] = seen[s]]
  /\ Goto(s, "wait")
  /\ UNCHANGED <<storeTx, version, changed, bumps, streams, pollers, seen, failed>>

\* changed(): something happened since the receiver looked.
Wake(s) ==
  /\ pc[s] = "wait"
  /\ cursor[s] # changed
  /\ cursor' = [cursor EXCEPT ![s] = changed]
  /\ Goto(s, "look")
  /\ UNCHANGED <<storeTx, version, changed, bumps, streams, pollers, seen, got, failed>>

\* The stream looks at the authority, which is open by now, and sends what is new.
Look(s) ==
  /\ pc[s] = "look"
  /\ seen' = [seen EXCEPT ![s] = version]
  /\ got' = [got EXCEPT ![s] = version]
  /\ Goto(s, "wait")
  /\ UNCHANGED <<storeTx, version, changed, bumps, streams, pollers, cursor, failed>>

\* The client goes away: the stream and its slot are dropped.
Leave(s) ==
  /\ pc[s] \in {"first", "mark", "wait", "look"}
  /\ FreeSlot(s)
  /\ Goto(s, "closed")
  /\ UNCHANGED <<storeTx, version, changed, bumps, polling, pollers, cursor, seen, got, failed>>

-----------------------------------------------------------------------------
(* The poller. *)

\* It slept for POLL: with no stream left it ends.
PollWakes ==
  /\ sleeping > 0
  /\ sleeping' = sleeping - 1
  /\ IF total = 0
     THEN polling' = FALSE /\ UNCHANGED probing
     ELSE probing' = probing + 1 /\ UNCHANGED polling
  /\ UNCHANGED <<storeTx, version, changed, bumps, total, per, telling, errors, conns, failed>>

\* Its refresh: with_authority wakes the streams when the version moved, and the
\* poller does once more.
Probe ==
  /\ probing > 0
  /\ probing' = probing - 1
  /\ Refreshed
  /\ IF version = storeTx
     THEN sleeping' = sleeping + 1 /\ UNCHANGED telling
     ELSE telling' = telling + 1 /\ UNCHANGED sleeping
  /\ UNCHANGED <<storeTx, bumps, streams, errors, conns, failed>>

\* It fails: the streams are to be woken too.
ProbeFails ==
  /\ probing > 0
  /\ errors < MaxErrors
  /\ errors' = errors + 1
  /\ probing' = probing - 1
  /\ telling' = telling + 1
  /\ failed' = {s \in Stream : pc[s] = "wait"}
  /\ UNCHANGED <<storeTx, version, changed, bumps, streams, sleeping, conns>>

Tell ==
  /\ telling > 0
  /\ telling' = telling - 1
  /\ sleeping' = sleeping + 1
  /\ changed' = changed + 1
  /\ UNCHANGED <<storeTx, version, bumps, streams, probing, errors, conns, failed>>

-----------------------------------------------------------------------------
(* Writers. *)

\* serve: a write through these routes refreshes, saves and wakes the streams, and
\* its request wakes them once more when its blocking task has ended.
Write ==
  /\ storeTx < MaxVersion
  /\ storeTx' = storeTx + 1
  /\ version' = storeTx + 1
  /\ changed' = changed + 1
  /\ bumps' = bumps + 1
  /\ UNCHANGED <<streams, pollers, conns, failed>>

\* A write that is refused has refreshed, and wakes the streams all the same.
WriteRefused ==
  /\ errors < MaxErrors
  /\ errors' = errors + 1
  /\ Refreshed
  /\ bumps' = bumps + 1
  /\ UNCHANGED <<storeTx, streams, sleeping, probing, telling, conns, failed>>

Bump ==
  /\ bumps > 0
  /\ bumps' = bumps - 1
  /\ changed' = changed + 1
  /\ UNCHANGED <<storeTx, version, streams, pollers, conns, failed>>

\* A read through these routes refreshes too.
Read ==
  /\ storeTx # version
  /\ Refreshed
  /\ UNCHANGED <<storeTx, bumps, streams, pollers, conns, failed>>

\* Another program saves.
OtherWrite ==
  /\ storeTx < MaxVersion
  /\ storeTx' = storeTx + 1
  /\ UNCHANGED <<version, changed, bumps, streams, pollers, conns, failed>>

-----------------------------------------------------------------------------
StreamStep(s) == FirstLook(s) \/ Mark(s) \/ Wake(s) \/ Look(s)
Poller == PollWakes \/ Probe \/ Tell

\* Nothing is left to happen but polling, or nobody is connected.
Quiet == /\ storeTx = MaxVersion
         /\ UNCHANGED vars

Next ==
  \/ \E s \in Stream : Connect(s) \/ FirstFails(s) \/ Leave(s) \/ StreamStep(s)
  \/ Poller
  \/ ProbeFails
  \/ Write
  \/ WriteRefused
  \/ Bump
  \/ Read
  \/ OtherWrite
  \/ Quiet

Spec == Init /\ [][Next]_vars

\* The runtime polls every task that can go on: the streams, the poller's timer
\* and its blocking refresh, and the request that has a channel to bump.
Fairness ==
  /\ \A s \in Stream : WF_vars(StreamStep(s))
  /\ WF_vars(PollWakes)
  /\ WF_vars(Probe)
  /\ WF_vars(Tell)
  /\ WF_vars(Bump)
FairSpec == Spec /\ Fairness

-----------------------------------------------------------------------------
(* Properties. *)

Open(s) == pc[s] \in {"first", "mark", "wait", "look"}

TypeOK ==
  /\ {storeTx, version} \subseteq 1 .. MaxVersion
  /\ changed \in Nat
  /\ bumps \in Nat
  /\ total \in 0 .. MaxStreams
  /\ per \in [Caller -> 0 .. MaxPer]
  /\ polling \in BOOLEAN
  /\ {sleeping, probing, telling} \subseteq Nat
  /\ errors \in 0 .. MaxErrors
  /\ pc \in [Stream -> {"idle", "first", "mark", "wait", "look", "closed"}]
  /\ cursor \in [Stream -> 0 .. changed]
  /\ seen \in [Stream -> 0 .. version]
  /\ got \in [Stream -> 0 .. version]
  /\ failed \subseteq Stream

\* A slot is "freed when the stream is dropped (the client went away, or the server
\* ended it)" (Slot): the counts are those of the open streams, in all and per
\* principal, so no slot leaks and none is given twice.
SlotsCounted ==
  /\ total = Cardinality({s \in Stream : Open(s)})
  /\ \A c \in Caller : per[c] = Cardinality({s \in Stream : Open(s) /\ Who[s] = c})

\* "The one task that looks for other writers' changes ... Ends when the last
\* stream closes" (poller): never two, and never none while a stream is open,
\* however a new stream races the end of the last poller.
OnePoller ==
  /\ sleeping + probing + telling <= 1
  /\ total > 0 => sleeping + probing + telling = 1

\* "one event per change the caller may see" (changes): a change another program
\* makes while a stream waits reaches its client.
ChangesArrive ==
  \A s \in Stream : \A v \in 1 .. MaxVersion :
    pc[s] = "wait" /\ storeTx = v /\ version < v ~> ~Open(s) \/ got[s] >= v

\* The same of every change since the first look: a stream that waits with nothing
\* to wake it has looked at the authority's version.
NothingMissed ==
  \A s \in Stream :
    pc[s] = "wait" /\ cursor[s] = changed /\ bumps + telling = 0 => seen[s] = version

\* "An error (the store is unreachable) wakes the streams too: they end, and their
\* clients reconnect with `since`" (poller).
StreamsEnd == \A s \in Stream : s \in failed ~> ~Open(s)
=============================================================================
