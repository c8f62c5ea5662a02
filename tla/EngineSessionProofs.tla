------------------------- MODULE EngineSessionProofs -------------------------
(***************************************************************************)
(* Proofs about EngineSession for every model that compiles (plans, what   *)
(* they read, FIXPOINTs), every set of coordinates and numbers, every      *)
(* batch of edits and any number of rounds.                                *)
(*                                                                         *)
(* SnapshotCurrent rests on components being closed under reads: a plan    *)
(* outside the advanced ones reads nothing that was fed, so evaluating it  *)
(* anew gives what it showed.  ViewFollows and ChangesAreExact rest on the *)
(* log: with it, the cells as the round began can be told from the cells   *)
(* as they are at every step of the round, and the replies outstanding     *)
(* lead from the caller's view to that.  ConvergedIsCurrent and            *)
(* HostCutOffIsCold rest on the build order: what a FIXPOINT starts from   *)
(* and its body reads rests on no FIXPOINT after it, so a solve does not   *)
(* disturb those the round has passed.                                     *)
(***************************************************************************)
EXTENDS EngineSession, TLAPS, FiniteSetTheorems, WellFoundedInduction

-----------------------------------------------------------------------------
(* The inductive invariant. *)

\* The visible cells when the round began: the logged ones, and the rest as they are.
Start(b, s) ==
  [m \in Shown \ Hidden |-> [k \in Coord |->
     IF b # None /\ <<m, k>> \in DOMAIN b THEN b[<<m, k>>] ELSE s[m][k]]]

RoundStart == Start(log, snapshot)

\* The dataflow's outputs are the plans over the sessions, all of it advanced as far.
Current(s, shown) == \A m \in Flow : shown[m] = Evaluate(s)[m]

SnapshotInv ==
  /\ flowed = sess /\ Current(sess, snapshot)
  /\ \A f \in Fix : snapshot[Fixes[f].id] = result[f] /\ sess[Fixes[f].id] = result[f]

\* A round logs what a caller asked for; before the first command nothing is outstanding.
Idle == pc \in {"idle", "gone"}
WorkInv ==
  /\ Idle => cmd = NoCmd /\ log = None
  /\ pc = "gone" => cmds = <<>>
  /\ ~Idle /\ cmd = NoCmd => cmds = <<>> /\ replies = <<>> /\ ~viewOk /\ log = None /\ sent = 0
  /\ cmd # NoCmd => (log \in Logs <=> cmd.reply = "changes")
  /\ \A i \in 1 .. Len(cmds) : cmds[i].kind = "shutdown" => i = Len(cmds)

\* The commands still to be answered.
Closing == IF cmds # <<>> /\ cmds[Len(cmds)].kind = "shutdown" THEN 1 ELSE 0
Busy == IF cmd = NoCmd THEN 0 ELSE 1
Outstanding == Len(cmds) - Closing + Busy
LastAsked == IF Len(cmds) - Closing > 0 THEN cmds[Len(cmds) - Closing] ELSE cmd

AsksSnapshot(c) == c.kind = "snapshot" \/ (c.kind = "edit" /\ c.reply = "snapshot")
AsksChanges(c) == c.kind = "edit" /\ c.reply = "changes"
AllChanges ==
  /\ cmd # NoCmd => AsksChanges(cmd)
  /\ \A i \in 1 .. Len(cmds) : cmds[i].kind = "shutdown" \/ AsksChanges(cmds[i])

Exact(v, cells) == \A ch \in cells : ch.old # ch.new /\ ch.old = v[ch.cell[1]][ch.cell[2]]

\* A view kept by changes: hist is what it will be, reply after reply, up to where the
\* round began.
Linked(n, hist) ==
  /\ hist[0] = view
  /\ \A i \in 1 .. n : /\ replies[i].kind = "changes" /\ Exact(hist[i - 1], replies[i].cells)
                       /\ hist[i] = Applied(hist[i - 1], replies[i].cells)
  /\ \A i \in n + 1 .. Len(replies) : replies[i] = Waiting
Follows(n, hist) == Linked(n, hist) /\ hist[n] = RoundStart /\ Len(replies) - n = Outstanding

\* A view to be rebuilt: its replies were dropped, a snapshot is asked for behind them,
\* or has been given.
AllDropped == Len(replies) = Outstanding /\ \A i \in 1 .. Len(replies) : replies[i] = Dropped
Asked ==
  /\ Len(replies) = Outstanding /\ replies # <<>>
  /\ \A i \in 1 .. Len(replies) - 1 : replies[i] = Dropped
  /\ replies[Len(replies)] = Waiting /\ AsksSnapshot(LastAsked)
Given == replies = <<SnapshotReply>> /\ Outstanding = 0 /\ Idle

ViewInv ==
  /\ viewOk => AllChanges /\ \E n \in 0 .. Len(replies) : \E hist \in [0 .. n -> Views] : Follows(n, hist)
  /\ ~viewOk => AllDropped \/ Asked \/ Given

IInv == TypeOK /\ SnapshotInv /\ WorkInv /\ ViewInv

-----------------------------------------------------------------------------
(* Induction over the plans, as the least counterexample. *)

LEMMA Least ==
  ASSUME NEW S \in SUBSET Nat, S # {}
  PROVE  \E n \in S : \A k \in S : n <= k
<1> DEFINE R == {ss \in Nat \X Nat : ss[1] < ss[2]}
<1>1. OpToRel(<, Nat) = R
  BY DEF OpToRel
<1>2. \A k, l \in Nat : k < l => <<k, l>> \in R
  OBVIOUS
<1> HIDE DEF R
<1>3. IsWellFoundedOn(R, Nat)
  BY <1>1, NatLessThanWellFounded, Zenon
<1>4. PICK n \in S : \A k \in S : ~(<<k, n>> \in R)
  BY <1>3, WFMin
<1>5. \A k \in S : n <= k
  <2> TAKE k \in S
  <2>1. n \in Nat /\ k \in Nat
    OBVIOUS
  <2>2. ~(k < n)
    BY <1>2, <1>4, <2>1
  <2> QED
    BY <2>1, <2>2
<1> QED
  BY <1>5

\* What the i-th plan adds to the cells e of those before it.
Step(s, i, e) ==
  [m \in Measure |->
     IF i = 0 THEN IF m \in Session THEN s[m] ELSE Empty
     ELSE IF m = Order[i] /\ m \in Flow THEN Plan(m, Sees(m, e))
     ELSE e[m]]

\* u is an evaluation of the first n plans over s.
Runs(s, n, u) == u = [i \in 0 .. n |-> Step(s, i, u[i - 1])]

LEMMA StepFirst ==
  ASSUME NEW s, NEW d, NEW e
  PROVE  Step(s, 0, d) = Step(s, 0, e)
  BY DEF Step

LEMMA RunsExist ==
  ASSUME NEW s
  PROVE  \A n \in Nat : \E u : Runs(s, n, u)
<1> DEFINE Bad == {n \in Nat : ~\E u : Runs(s, n, u)}
<1> SUFFICES ASSUME Bad # {} PROVE FALSE
  OBVIOUS
<1>1. Bad \in SUBSET Nat
  OBVIOUS
<1>2. PICK n \in Bad : \A k \in Bad : n <= k
  <2> HIDE DEF Bad
  <2> QED
    BY <1>1, Least
<1>3. CASE n = 0
  <2> DEFINE w == [i \in 0 .. 0 |-> Step(s, 0, s)]
  <2>1. \A i \in 0 .. 0 : w[i] = Step(s, i, w[i - 1])
    BY StepFirst
  <2>2. Runs(s, 0, w)
    <3> DEFINE v == [i \in 0 .. 0 |-> Step(s, i, w[i - 1])]
    <3>1. w = v
      BY <2>1
    <3> QED
      BY <3>1 DEF Runs
  <2> QED
    BY <1>3, <2>2
<1>4. CASE n # 0
  <2>1. n - 1 \in Nat /\ n - 1 \notin Bad
    BY <1>2, <1>4
  <2>2. PICK u : Runs(s, n - 1, u)
    BY <2>1
  <2> DEFINE w == [i \in 0 .. n |-> IF i < n THEN u[i] ELSE Step(s, n, u[n - 1])]
  <2>3. \A i \in 0 .. n - 1 : u[i] = Step(s, i, u[i - 1])
    <3> DEFINE v == [i \in 0 .. n - 1 |-> Step(s, i, u[i - 1])]
    <3>1. u = v
      BY <2>2 DEF Runs
    <3>2. \A i \in 0 .. n - 1 : v[i] = Step(s, i, u[i - 1])
      OBVIOUS
    <3> HIDE DEF v
    <3> QED
      BY <3>1, <3>2
  <2>4. \A i \in 0 .. n : w[i] = Step(s, i, w[i - 1])
    <3> TAKE i \in 0 .. n
    <3>1. CASE i = 0
      <4>1. w[0] = u[0] /\ u[0] = Step(s, 0, u[-1])
        BY <2>1, <2>3
      <4> QED
        BY <3>1, <4>1, StepFirst
    <3>2. CASE i # 0 /\ i < n
      BY <2>1, <2>3, <3>2
    <3>3. CASE i = n
      BY <1>4, <2>1, <3>3
    <3> QED
      BY <2>1, <3>1, <3>2, <3>3
  <2>5. Runs(s, n, w)
    <3> DEFINE v == [i \in 0 .. n |-> Step(s, i, w[i - 1])]
    <3>1. w = v
      BY <2>4
    <3> QED
      BY <3>1 DEF Runs
  <2> QED
    BY <2>5
<1> QED
  BY <1>3, <1>4

LEMMA EvaluateRuns ==
  ASSUME NEW s
  PROVE  \E u : /\ Evaluate(s) = u[Len(Order)]
                /\ \A i \in 0 .. Len(Order) : u[i] = Step(s, i, u[i - 1])
<1> DEFINE u == CHOOSE w : Runs(s, Len(Order), w)
<1>1. Runs(s, Len(Order), u)
  BY RunsExist, StructureAssumption
<1>2. Evaluate(s) = u[Len(Order)]
  BY DEF Evaluate, Runs, Step
<1> HIDE DEF u
<1>3. \A i \in 0 .. Len(Order) : u[i] = Step(s, i, u[i - 1])
  <2> DEFINE v == [i \in 0 .. Len(Order) |-> Step(s, i, u[i - 1])]
  <2>1. u = v
    BY <1>1 DEF Runs
  <2>2. \A i \in 0 .. Len(Order) : v[i] = Step(s, i, u[i - 1])
    OBVIOUS
  <2> HIDE DEF v
  <2> QED
    BY <2>1, <2>2
<1> QED
  BY <1>2, <1>3

\* What the plans compute are cells.
LEMMA EmptyType == Empty \in Cells
  BY DEF Empty, Cells

LEMMA SeesType ==
  ASSUME NEW m \in Planned, NEW v \in [Measure -> Cells]
  PROVE  Plan(m, Sees(m, v)) \in Cells
<1>1. Sees(m, v) \in [Reads[m] -> Cells]
  BY EmptyType DEF Sees
<1> QED
  BY <1>1, StructureAssumption

LEMMA StepType ==
  ASSUME NEW s \in [Session -> Cells], NEW i \in Nat, NEW e, i # 0 => e \in [Measure -> Cells]
  PROVE  Step(s, i, e) \in [Measure -> Cells]
<1>1. ASSUME NEW m \in Measure, i # 0, m = Order[i], m \in Flow
      PROVE  Plan(m, Sees(m, e)) \in Cells
  BY <1>1, SeesType DEF Flow
<1> QED
  BY <1>1, EmptyType DEF Step

LEMMA EvaluateType ==
  ASSUME NEW s \in [Session -> Cells]
  PROVE  Evaluate(s) \in [Measure -> Cells]
<1>1. PICK u : /\ Evaluate(s) = u[Len(Order)]
               /\ \A i \in 0 .. Len(Order) : u[i] = Step(s, i, u[i - 1])
  BY EvaluateRuns
<1> DEFINE Bad == {i \in 0 .. Len(Order) : u[i] \notin [Measure -> Cells]}
<1>2. Len(Order) \in Nat
  BY StructureAssumption
<1>3. ASSUME Bad # {} PROVE FALSE
  <2>1. Bad \in SUBSET Nat
    BY <1>2
  <2>2. PICK i \in Bad : \A k \in Bad : i <= k
    <3> HIDE DEF Bad
    <3> QED
      BY <1>3, <2>1, Least
  <2>3. i # 0 => u[i - 1] \in [Measure -> Cells]
    BY <1>2, <2>2
  <2>4. Step(s, i, u[i - 1]) \in [Measure -> Cells]
    BY <1>2, <2>2, <2>3, StepType
  <2> QED
    BY <1>1, <2>2, <2>4
<1>4. Len(Order) \notin Bad
  BY <1>3
<1> QED
  BY <1>1, <1>2, <1>4

\* Of a set of measures that holds what its plans read, the cells depend on its
\* sessions alone.
LEMMA EvaluateAgree ==
  ASSUME NEW s, NEW t, NEW A, \A m \in Flow \cap A : Reads[m] \subseteq A,
         \A m \in Session \cap A : s[m] = t[m]
  PROVE  \A m \in Measure \cap A : Evaluate(s)[m] = Evaluate(t)[m]
<1>1. PICK u : /\ Evaluate(s) = u[Len(Order)]
               /\ \A i \in 0 .. Len(Order) : u[i] = Step(s, i, u[i - 1])
  BY EvaluateRuns
<1>2. PICK v : /\ Evaluate(t) = v[Len(Order)]
               /\ \A i \in 0 .. Len(Order) : v[i] = Step(t, i, v[i - 1])
  BY EvaluateRuns
<1> DEFINE Bad == {i \in 0 .. Len(Order) : \E m \in Measure \cap A : u[i][m] # v[i][m]}
<1>3. Len(Order) \in Nat
  BY StructureAssumption
<1>4. ASSUME Bad # {} PROVE FALSE
  <2>1. Bad \in SUBSET Nat
    BY <1>3
  <2>2. PICK i \in Bad : \A k \in Bad : i <= k
    <3> HIDE DEF Bad
    <3> QED
      BY <1>4, <2>1, Least
  <2>3. PICK m \in Measure \cap A : u[i][m] # v[i][m]
    BY <2>2
  <2>4. u[i] = Step(s, i, u[i - 1]) /\ v[i] = Step(t, i, v[i - 1])
    BY <1>1, <1>2, <2>2
  <2>5. CASE i = 0
    BY <2>3, <2>4, <2>5 DEF Step
  <2>6. CASE i # 0
    <3>1. i - 1 \in 0 .. Len(Order)
      BY <1>3, <2>2, <2>6
    <3>2. \A n \in Measure \cap A : u[i - 1][n] = v[i - 1][n]
      BY <1>3, <2>2, <3>1
    <3>3. DOMAIN u[i - 1] = Measure /\ DOMAIN v[i - 1] = Measure
      BY <1>1, <1>2, <3>1 DEF Step
    <3>4. CASE m = Order[i] /\ m \in Flow
      <4>1. Sees(m, u[i - 1]) = Sees(m, v[i - 1])
        BY <3>2, <3>3, <3>4 DEF Sees
      <4>2. u[i][m] = Plan(m, Sees(m, u[i - 1])) /\ v[i][m] = Plan(m, Sees(m, v[i - 1]))
        BY <2>3, <2>4, <2>6, <3>4 DEF Step
      <4> QED
        BY <2>3, <4>1, <4>2
    <3>5. CASE ~(m = Order[i] /\ m \in Flow)
      BY <2>3, <2>4, <2>6, <3>2, <3>5 DEF Step
    <3> QED
      BY <3>4, <3>5
  <2> QED
    BY <2>5, <2>6
<1>5. Len(Order) \notin Bad
  BY <1>4
<1> QED
  BY <1>1, <1>2, <1>3, <1>5

-----------------------------------------------------------------------------
(* Components. *)

LEMMA ComponentJoined ==
  ASSUME NEW m
  PROVE  Joined(Component(m))
<1> DEFINE all == Measure \cup UNION Links
           C == Component(m)
<1> SUFFICES ASSUME NEW l \in Links, l \cap C # {} PROVE l \subseteq C
  BY DEF Joined
<1>1. PICK n : n \in l /\ n \in C
  OBVIOUS
<1>2. \A S \in SUBSET all : m \in S /\ Joined(S) => l \subseteq S
  BY <1>1 DEF Component, Joined
<1>3. l \subseteq all
  OBVIOUS
<1> QED
  BY <1>2, <1>3 DEF Component

LEMMA AdvancedOf ==
  ASSUME NEW fed \in SUBSET Measure
  PROVE  Joined(Advanced(fed)) /\ fed \subseteq Advanced(fed)
<1>1. \A B \in Components : Joined(B)
  BY ComponentJoined DEF Components
<1>2. Joined(Advanced(fed))
  BY <1>1 DEF Advanced, Joined
<1>3. \A m \in fed : m \in Component(m) /\ Component(m) \in Components
  BY DEF Component, Components
<1> QED
  BY <1>2, <1>3 DEF Advanced

\* A plan and what it reads are advanced together, or neither.
LEMMA AdvancedReads ==
  ASSUME NEW fed \in SUBSET Measure, NEW m \in Flow
  PROVE  /\ m \in Advanced(fed) => Reads[m] \subseteq Advanced(fed)
         /\ m \notin Advanced(fed) => Reads[m] \cap Advanced(fed) = {}
<1>1. \A r \in Reads[m] : {m, r} \in Links
  BY DEF Links, PlanReads
<1>2. Joined(Advanced(fed))
  BY AdvancedOf
<1>3. \A r \in Reads[m] : {m, r} \cap Advanced(fed) = {} \/ {m, r} \subseteq Advanced(fed)
  BY <1>1, <1>2 DEF Joined
<1> QED
  BY <1>3

-----------------------------------------------------------------------------
(* A round of the dataflow. *)

\* Advancing the components of what was fed is advancing everything.
LEMMA RunToCurrent ==
  ASSUME sess \in [Session -> Cells], flowed = sess, NEW s \in [Session -> Cells],
         NEW fed \in SUBSET Measure, \A m \in Session \ fed : s[m] = sess[m],
         NEW shown \in [Shown -> Cells], Current(sess, shown), NEW d, NEW b, RunTo(s, fed, d, b, shown)
  PROVE  /\ sess' = s /\ flowed' = s
         /\ snapshot' \in [Shown -> Cells] /\ Current(s, snapshot')
         /\ \A m \in Shown \ Flow : snapshot'[m] = shown[m]
<1> DEFINE adv == Advanced(fed)
           to == [m \in Session |-> IF m \in adv THEN s[m] ELSE flowed[m]]
           out == Evaluate(to)
           next == [m \in Shown |-> IF m \in Flow \cap adv THEN out[m] ELSE shown[m]]
<1>1. sess' = s /\ flowed' = to /\ snapshot' = next
  BY DEF RunTo
<1>2. fed \subseteq adv
  BY AdvancedOf
<1>3. to = s
  <2>1. \A m \in Session : to[m] = s[m]
    BY <1>2
  <2> QED
    BY <2>1
<1>4. out = Evaluate(s)
  BY <1>3
<1> HIDE DEF to, out
<1>5. out \in [Measure -> Cells] /\ Flow \subseteq Measure /\ Flow \subseteq Shown
  BY <1>4, EvaluateType DEF Measure, Shown
<1>6. next \in [Shown -> Cells]
  BY <1>5
<1>7. \A m \in Measure \ adv : Evaluate(sess)[m] = Evaluate(s)[m]
  <2> DEFINE A == {m \in Measure \cup UNION {Reads[n] : n \in Flow} : m \notin adv}
  <2>1. \A m \in Flow \cap A : Reads[m] \subseteq A
    BY AdvancedReads
  <2>2. \A m \in Session \cap A : sess[m] = s[m]
    BY <1>2
  <2> HIDE DEF A
  <2>3. \A m \in Measure \cap A : Evaluate(sess)[m] = Evaluate(s)[m]
    BY <2>1, <2>2, EvaluateAgree
  <2> QED
    BY <2>3 DEF A
<1>8. \A m \in Flow : next[m] = Evaluate(s)[m]
  BY <1>4, <1>5, <1>7 DEF Current
<1> QED
  BY <1>1, <1>3, <1>5, <1>6, <1>8 DEF Current

-----------------------------------------------------------------------------
(* The log. *)

LEMMA StartType ==
  ASSUME NEW b \in Logs \cup {None}, NEW s \in [Shown -> Cells]
  PROVE  Start(b, s) \in Views
<1>1. \A m \in Shown \ Hidden, k \in Coord : s[m][k] \in Num \cup {None}
  BY DEF Cells
<1>2. b # None => \A c \in DOMAIN b : b[c] \in Num \cup {None}
  BY DEF Logs
<1> QED
  BY <1>1, <1>2 DEF Start, Views, Cells

LEMMA StartNone ==
  ASSUME NEW s \in [Shown -> Cells]
  PROVE  Start(None, s) = Visible(s)
<1>1. \A m \in Shown \ Hidden : [k \in Coord |-> s[m][k]] = s[m]
  BY DEF Cells
<1> QED
  BY <1>1 DEF Start, Visible

LEMMA LogNotNone ==
  ASSUME NEW b \in Logs
  PROVE  b # None
  BY NoneAssumption DEF Logs

\* Noting what changed leaves the start of the round as it was.
LEMMA NoteStart ==
  ASSUME NEW b \in Logs, NEW s \in [Shown -> Cells], NEW t \in [Shown -> Cells],
         NEW ms \in SUBSET Shown, \A m \in Shown \ ms : t[m] = s[m]
  PROVE  Note(b, s, t, ms) \in Logs /\ Start(Note(b, s, t, ms), t) = Start(b, s)
<1> DEFINE D == Differ(s, t, ms)
           n == [c \in DOMAIN b \cup D |-> IF c \in DOMAIN b THEN b[c] ELSE s[c[1]][c[2]]]
<1>1. b # None
  BY LogNotNone
<1>2. Note(b, s, t, ms) = n
  BY <1>1 DEF Note
<1>3. DOMAIN b \in SUBSET (Shown \X Coord) /\ \A c \in DOMAIN b : b[c] \in Num \cup {None}
  BY DEF Logs
<1>4. D \in SUBSET (Shown \X Coord) /\ \A c \in D : s[c[1]][c[2]] \in Num \cup {None}
  BY DEF Differ, Cells
<1>5. n \in [DOMAIN b \cup D -> Num \cup {None}]
  BY <1>3, <1>4
<1>6. n \in Logs
  BY <1>3, <1>4, <1>5 DEF Logs
<1>7. n # None
  BY <1>6, LogNotNone
<1>8. \A m \in Shown \ Hidden, k \in Coord : <<m, k>> \notin D => s[m][k] = t[m][k]
  BY DEF Differ
<1>9. \A m \in Shown \ Hidden, k \in Coord :
        (IF n # None /\ <<m, k>> \in DOMAIN n THEN n[<<m, k>>] ELSE t[m][k])
          = (IF b # None /\ <<m, k>> \in DOMAIN b THEN b[<<m, k>>] ELSE s[m][k])
  <2> TAKE m \in Shown \ Hidden, k \in Coord
  <2>1. CASE <<m, k>> \in DOMAIN b
    BY <1>1, <1>7, <2>1
  <2>2. CASE <<m, k>> \notin DOMAIN b /\ <<m, k>> \in D
    BY <1>1, <1>7, <2>2
  <2>3. CASE <<m, k>> \notin DOMAIN b /\ <<m, k>> \notin D
    BY <1>1, <1>7, <1>8, <2>3
  <2> QED
    BY <2>1, <2>2, <2>3
<1> HIDE DEF n
<1> QED
  BY <1>2, <1>6, <1>9 DEF Start

\* What a round of the dataflow does to the log.
LEMMA RunToLog ==
  ASSUME NEW s, NEW fed, NEW d \in SUBSET Measure, NEW b \in Logs \cup {None},
         NEW shown \in [Shown -> Cells], RunTo(s, fed, d, b, shown), snapshot' \in [Shown -> Cells]
  PROVE  /\ dirty' \in SUBSET Measure
         /\ b = None => log' = None
         /\ b \in Logs => log' \in Logs /\ Start(log', snapshot') = Start(b, shown)
<1> DEFINE adv == Advanced(fed)
           moved == Flow \cap adv
<1>1. log' = Note(b, shown, snapshot', moved) /\ dirty' = d \cup Moved(shown, snapshot', moved)
  BY DEF RunTo
<1>2. moved \in SUBSET Shown /\ moved \in SUBSET Measure
  BY DEF Shown, Measure
<1>3. \A m \in Shown \ moved : snapshot'[m] = shown[m]
  BY DEF RunTo
<1>4. dirty' \in SUBSET Measure
  BY <1>1, <1>2 DEF Moved
<1>5. b = None => log' = None
  BY <1>1 DEF Note
<1> HIDE DEF moved
<1>6. ASSUME b \in Logs PROVE log' \in Logs /\ Start(log', snapshot') = Start(b, shown)
  <2>1. PICK t \in [Shown -> Cells], ms \in SUBSET Shown : t = snapshot' /\ ms = moved
    BY <1>2
  <2>2. Note(b, shown, t, ms) \in Logs /\ Start(Note(b, shown, t, ms), t) = Start(b, shown)
    BY <1>3, <1>6, <2>1, NoteStart
  <2> QED
    BY <1>1, <2>1, <2>2
<1> QED
  BY <1>4, <1>5, <1>6

-----------------------------------------------------------------------------
(* Replies. *)

\* The first unanswered reply is answered.
LEMMA DeliverOf ==
  ASSUME replies \in Seq(Reply), NEW n \in 1 .. Len(replies), replies[n] \in {Waiting, Dropped},
         \A i \in 1 .. n - 1 : replies[i] \notin {Waiting, Dropped}, NEW r, Deliver(r)
  PROVE  /\ replies[n] = Waiting => replies' = [replies EXCEPT ![n] = r]
         /\ replies[n] = Dropped /\ n = 1 => replies' = Tail(replies)
<1>1. n \in Unanswered /\ \A i \in Unanswered : n <= i
  BY DEF Unanswered
<1>2. Min(Unanswered) = n
  <2>1. \A i \in Unanswered : (\A j \in Unanswered : i <= j) => i = n
    BY <1>1 DEF Unanswered
  <2> QED
    BY <1>1, <2>1 DEF Min
<1>3. Waiting # Dropped
  BY DEF Waiting, Dropped
<1>4. replies' = IF replies[n] = Waiting THEN [replies EXCEPT ![n] = r]
                 ELSE SubSeq(replies, 1, n - 1) \o SubSeq(replies, n + 1, Len(replies))
  BY <1>2 DEF Deliver
<1>5. ASSUME replies[n] = Dropped, n = 1 PROVE replies' = Tail(replies)
  <2>1. replies' = SubSeq(replies, 1, 0) \o SubSeq(replies, 2, Len(replies))
    BY <1>3, <1>4, <1>5
  <2>2. SubSeq(replies, 1, 0) = <<>> /\ SubSeq(replies, 2, Len(replies)) \in Seq(Reply)
    OBVIOUS
  <2>3. SubSeq(replies, 2, Len(replies)) = Tail(replies)
    BY <1>5
  <2>4. \A q \in Seq(Reply) : <<>> \o q = q
    OBVIOUS
  <2> QED
    BY <2>1, <2>2, <2>3, <2>4
<1> QED
  BY <1>4, <1>5

\* What a reply r, given to the oldest command, does to the view and its replies.
Fits(r) ==
  /\ viewOk => /\ r.kind = "changes" /\ Exact(RoundStart, r.cells)
               /\ RoundStart' = Applied(RoundStart, r.cells)
  /\ ~viewOk /\ Asked => IF Outstanding = 1 THEN r = SnapshotReply' /\ Idle' ELSE LastAsked' = LastAsked

LEMMA Kinds ==
  ASSUME NEW r \in Reply, r.kind \in {"changes", "snapshot"}
  PROVE  r \notin {Waiting, Dropped}
  BY DEF Waiting, Dropped

LEMMA DeliverView ==
  ASSUME ViewInv, replies \in Seq(Reply), Outstanding \in Nat, Outstanding # 0,
         Outstanding' = Outstanding - 1, UNCHANGED <<view, viewOk>>, NEW r \in Reply, Deliver(r), Fits(r),
         RoundStart \in Views, viewOk => RoundStart' \in Views, AllChanges => AllChanges', viewOk \in BOOLEAN
  PROVE  replies' \in Seq(Reply) /\ ViewInv'
<1>1. CASE viewOk
  <2>1. AllChanges
    BY <1>1 DEF ViewInv
  <2>2. PICK n \in 0 .. Len(replies) : \E hist \in [0 .. n -> Views] : Follows(n, hist)
    BY <1>1 DEF ViewInv
  <2>3. PICK hist \in [0 .. n -> Views] : Follows(n, hist)
    BY <2>2
  <2>4. n + 1 \in 1 .. Len(replies) /\ Len(replies) \in Nat /\ n \in Nat
    BY <2>3 DEF Follows
  <2>5. replies[n + 1] = Waiting /\ \A i \in 1 .. n : replies[i] \notin {Waiting, Dropped}
    <3>1. replies[n + 1] = Waiting
      BY <2>3, <2>4 DEF Follows, Linked
    <3>2. ASSUME NEW i \in 1 .. n PROVE replies[i] \notin {Waiting, Dropped}
      <4>1. replies[i] \in Reply
        BY <2>4
      <4>2. replies[i].kind = "changes"
        BY <2>3 DEF Follows, Linked
      <4> QED
        BY <4>1, <4>2, Kinds
    <3> QED
      BY <3>1, <3>2
  <2>6. replies' = [replies EXCEPT ![n + 1] = r]
    <3>1. PICK k \in 1 .. Len(replies) : k = n + 1
      BY <2>4
    <3>2. replies[k] = Waiting /\ \A i \in 1 .. k - 1 : replies[i] \notin {Waiting, Dropped}
      BY <2>4, <2>5, <3>1
    <3>3. replies' = [replies EXCEPT ![k] = r]
      BY <3>2, DeliverOf
    <3> QED
      BY <3>1, <3>3
  <2>7. /\ replies' \in Seq(Reply) /\ Len(replies') = Len(replies) /\ replies'[n + 1] = r
        /\ \A i \in 1 .. Len(replies) : i # n + 1 => replies'[i] = replies[i]
    BY <2>4, <2>6
  <2>8. PICK h \in [0 .. n + 1 -> Views] : h[n + 1] = RoundStart' /\ \A i \in 0 .. n : h[i] = hist[i]
    <3> DEFINE w == [i \in 0 .. n + 1 |-> IF i <= n THEN hist[i] ELSE RoundStart']
    <3>1. w \in [0 .. n + 1 -> Views] /\ w[n + 1] = RoundStart' /\ \A i \in 0 .. n : w[i] = hist[i]
      BY <1>1, <2>4
    <3> HIDE DEF w
    <3> QED
      BY <3>1
  <2>9. hist[n] = RoundStart
    BY <2>3 DEF Follows
  <2>10. \A i \in 1 .. n + 1 : /\ replies'[i].kind = "changes" /\ Exact(h[i - 1], replies'[i].cells)
                               /\ h[i] = Applied(h[i - 1], replies'[i].cells)
    <3> TAKE i \in 1 .. n + 1
    <3>1. CASE i = n + 1
      <4>1. h[i] = RoundStart' /\ h[i - 1] = RoundStart /\ replies'[i] = r
        BY <2>4, <2>7, <2>8, <2>9, <3>1
      <4> QED
        BY <1>1, <4>1 DEF Fits
    <3>2. CASE i # n + 1
      <4>1. i \in 1 .. n /\ h[i] = hist[i] /\ h[i - 1] = hist[i - 1] /\ replies'[i] = replies[i]
        BY <2>4, <2>7, <2>8, <3>2
      <4> QED
        BY <2>3, <4>1 DEF Follows, Linked
    <3> QED
      BY <3>1, <3>2
  <2>11. \A i \in n + 2 .. Len(replies) : replies'[i] = Waiting
    BY <2>3, <2>4, <2>7 DEF Follows, Linked
  <2>12. h[0] = view'
    BY <2>3, <2>4, <2>8 DEF Follows, Linked
  <2>13. Len(replies') - (n + 1) = Outstanding'
    BY <2>3, <2>4, <2>7 DEF Follows
  <2>14. PICK p \in 0 .. Len(replies') : p = n + 1
    BY <2>4, <2>7
  <2>15. (\A i \in p + 1 .. Len(replies') : replies'[i] = Waiting) /\ h \in [0 .. p -> Views]
    BY <2>4, <2>7, <2>8, <2>11, <2>14
  <2>16. Follows(p, h)'
    <3>1. h[p] = RoundStart' /\ \A i \in 1 .. p : /\ replies'[i].kind = "changes"
                                                 /\ Exact(h[i - 1], replies'[i].cells)
                                                 /\ h[i] = Applied(h[i - 1], replies'[i].cells)
      BY <2>4, <2>8, <2>10, <2>14
    <3>2. Len(replies') - p = Outstanding'
      BY <2>13, <2>14
    <3> QED
      BY <2>12, <2>15, <3>1, <3>2 DEF Follows, Linked, Exact, Applied
  <2> QED
    BY <1>1, <2>1, <2>7, <2>15, <2>16 DEF ViewInv
<1>2. CASE ~viewOk /\ AllDropped
  <2>1. Len(replies) = Outstanding /\ Len(replies) \in Nat /\ replies # <<>>
    BY <1>2 DEF AllDropped
  <2>2. replies' = Tail(replies)
    <3>1. 1 \in 1 .. Len(replies) /\ replies[1] = Dropped
      BY <1>2, <2>1 DEF AllDropped
    <3>2. PICK k \in 1 .. Len(replies) : k = 1
      BY <3>1
    <3> QED
      BY <3>1, <3>2, DeliverOf
  <2>3. /\ replies' \in Seq(Reply) /\ Len(replies') = Len(replies) - 1
        /\ \A i \in 1 .. Len(replies') : replies'[i] = replies[i + 1] /\ i + 1 \in 1 .. Len(replies)
    BY <2>1, <2>2
  <2>4. AllDropped'
    BY <1>2, <2>1, <2>3 DEF AllDropped
  <2> QED
    BY <1>2, <2>3, <2>4 DEF ViewInv
<1>3. CASE ~viewOk /\ Asked
  <2>1. Len(replies) = Outstanding /\ Len(replies) \in Nat /\ replies # <<>> /\ Dropped # Waiting
    BY <1>3 DEF Asked, Dropped, Waiting
  <2>2. CASE Outstanding = 1
    <3>1. PICK k \in 1 .. Len(replies) : k = 1 /\ replies[k] = Waiting
      BY <1>3, <2>1, <2>2 DEF Asked
    <3>2. \A i \in 1 .. k - 1 : replies[i] \notin {Waiting, Dropped}
      BY <3>1
    <3>3. replies' = [replies EXCEPT ![k] = r]
      BY <3>1, <3>2, DeliverOf
    <3>4. Len(replies') = 1 /\ replies'[1] = r /\ replies' \in Seq(Reply)
      BY <2>1, <2>2, <3>1, <3>3
    <3>5. replies' = <<r>>
      BY <3>4
    <3>6. Given'
      BY <1>3, <2>2, <3>5 DEF Given, Fits
    <3> QED
      BY <1>3, <3>4, <3>6 DEF ViewInv
  <2>3. CASE Outstanding # 1
    <3>1. Len(replies) > 1 /\ replies[1] = Dropped
      BY <1>3, <2>1, <2>3 DEF Asked
    <3>2. PICK k \in 1 .. Len(replies) : k = 1
      BY <3>1
    <3>3. \A i \in 1 .. k - 1 : replies[i] \notin {Waiting, Dropped}
      BY <3>2
    <3>4. replies' = Tail(replies)
      BY <3>1, <3>2, <3>3, DeliverOf
    <3>5. /\ replies' \in Seq(Reply) /\ Len(replies') = Len(replies) - 1
          /\ \A i \in 1 .. Len(replies') : replies'[i] = replies[i + 1]
      BY <2>1, <3>1, <3>4
    <3>6. LastAsked' = LastAsked
      BY <1>3, <2>3 DEF Fits
    <3>7. \A i \in 1 .. Len(replies') - 1 : replies'[i] = Dropped
      BY <1>3, <2>1, <3>5 DEF Asked
    <3>8. replies'[Len(replies')] = Waiting /\ replies' # <<>>
      BY <1>3, <2>1, <3>1, <3>5 DEF Asked
    <3>9. Asked'
      BY <1>3, <2>1, <3>5, <3>6, <3>7, <3>8 DEF Asked, AsksSnapshot
    <3> QED
      BY <1>3, <3>5, <3>9 DEF ViewInv
  <2> QED
    BY <2>2, <2>3
<1> QED
  BY <1>1, <1>2, <1>3 DEF ViewInv, Given

-----------------------------------------------------------------------------
(* Parts of the types. *)

TypeFlow ==
  /\ sess \in [Session -> Cells] /\ flowed \in [Session -> Cells] /\ snapshot \in [Shown -> Cells]
  /\ dirty \subseteq Measure /\ log \in Logs \cup {None}
TypeSolve ==
  /\ pc \in {"solve", "iterate", "publish", "idle", "gone"}
  /\ fix \in 1 .. Len(Fixes) + 1 /\ left \in Nat /\ x \in Cells /\ attempt \in {"warm", "cold"}
  /\ (pc \in {"iterate", "publish"} => fix \in Fix)
  /\ first \in [Fix -> Cells \cup {None}] /\ result \in [Fix -> Cells] /\ conv \in [Fix -> BOOLEAN]
TypeCall ==
  /\ cmds \in Seq(Command) /\ replies \in Seq(Reply)
  /\ cmd = NoCmd \/ (cmd \in Command /\ cmd.kind = "edit")
  /\ view \in Views /\ viewOk \in BOOLEAN /\ sent \in 0 .. MaxRounds

LEMMA TypeParts ==
  TypeOK <=> TypeFlow /\ TypeSolve /\ TypeCall
  BY DEF TypeOK, TypeFlow, TypeSolve, TypeCall

LEMMA TypePartsNext ==
  TypeOK' <=> TypeFlow' /\ TypeSolve' /\ TypeCall'
  BY DEF TypeOK, TypeFlow, TypeSolve, TypeCall

LEMMA Together ==
  ASSUME TypeFlow', TypeSolve', TypeCall', SnapshotInv', WorkInv', ViewInv'
  PROVE  IInv'
  BY TypePartsNext DEF IInv

LEMMA Parts ==
  ASSUME IInv
  PROVE  /\ TypeFlow /\ TypeSolve /\ TypeCall /\ SnapshotInv /\ WorkInv /\ ViewInv
         /\ RoundStart \in Views
<1>1. TypeFlow /\ TypeSolve /\ TypeCall /\ SnapshotInv /\ WorkInv /\ ViewInv
  BY TypeParts DEF IInv
<1> QED
  BY <1>1, StartType DEF TypeFlow, RoundStart

LEMMA Edits ==
  ASSUME NEW c \in Command
  PROVE  /\ c.kind = "edit" => c.edits \in Batch /\ c.reply \in {"changes", "snapshot"} /\ c # NoCmd
         /\ c.kind \in {"edit", "snapshot", "shutdown"}
  BY DEF Command, NoCmd

\* The names of a FIXPOINT's measure.
LEMMA FixOf ==
  ASSUME NEW f \in Fix
  PROVE  /\ Fixes[f].id \in Session /\ Fixes[f].id \in Measure /\ Fixes[f].id \in Shown
         /\ Fixes[f].id \notin Flow /\ Fixes[f].id \in Internal
         /\ Fixes[f].r \in Session /\ Fixes[f].r \in Measure
         /\ Fixes[f].init \in Flow /\ Fixes[f].init \in Shown
         /\ \A h \in Fix : Fixes[f].id # Fixes[h].r /\ (f # h => Fixes[f].id # Fixes[h].id)
<1>1. Flow \subseteq Planned
  BY DEF Flow
<1>2. Fixes[f].id \in Session /\ Fixes[f].r \in Session
  BY DEF Session
<1> QED
  BY <1>1, <1>2, StructureAssumption DEF Measure, Shown, FixIds, Internal

-----------------------------------------------------------------------------
(* The edits of a batch. *)

LEMMA LastSetting ==
  ASSUME NEW n \in Nat, NEW S \in SUBSET (1 .. n), S # {}
  PROVE  Max(S) \in S
<1> DEFINE T == {n - i : i \in S}
<1>1. T \in SUBSET Nat /\ T # {}
  <2>1. \A i \in S : i \in 1 .. n /\ n - i \in Nat
    OBVIOUS
  <2>2. PICK i \in S : TRUE
    OBVIOUS
  <2>3. n - i \in T
    OBVIOUS
  <2>4. \A t \in T : t \in Nat
    BY <2>1
  <2> QED
    BY <2>3, <2>4
<1> HIDE DEF T
<1>2. PICK k \in T : \A j \in T : k <= j
  BY <1>1, Least
<1>3. PICK i \in S : k = n - i
  BY DEF T
<1>4. \A j \in S : n - j \in T
  BY DEF T
<1>5. \A j \in S : i >= j
  BY <1>2, <1>3, <1>4
<1> QED
  BY <1>5 DEF Max

LEMMA FedByOf ==
  ASSUME sess \in [Session -> Cells], NEW edits \in Batch
  PROVE  /\ FedBy(edits) \in [Session -> Cells]
         /\ \A m \in Session \ Touched(edits) : FedBy(edits)[m] = sess[m]
         /\ Touched(edits) \in SUBSET Measure
         /\ \A f \in Fix : Fixes[f].id \notin Touched(edits)
<1> DEFINE S(m, k) == Setting(edits, m, k)
<1>1. Len(edits) \in Nat /\ \A i \in 1 .. Len(edits) : edits[i].value \in Num \cup {None}
  BY StructureAssumption
<1>2. ASSUME NEW m, NEW k, S(m, k) # {} PROVE edits[Max(S(m, k))].value \in Num \cup {None}
  <2>1. S(m, k) \in SUBSET (1 .. Len(edits))
    BY DEF Setting
  <2>2. Max(S(m, k)) \in S(m, k)
    <3> HIDE DEF S
    <3> QED
      BY <1>1, <1>2, <2>1, LastSetting
  <2>3. Max(S(m, k)) \in 1 .. Len(edits)
    BY <2>1, <2>2
  <2> QED
    BY <1>1, <2>3
<1>3. \A m \in Session, k \in Coord : sess[m][k] \in Num \cup {None}
  BY DEF Cells
<1>4. FedBy(edits) \in [Session -> Cells]
  BY <1>2, <1>3 DEF FedBy, Cells
<1>5. ASSUME NEW m \in Session \ Touched(edits) PROVE FedBy(edits)[m] = sess[m]
  <2>1. \A k \in Coord : Setting(edits, m, k) = {}
    BY DEF Touched, Setting
  <2>2. FedBy(edits)[m] = [k \in Coord |-> sess[m][k]]
    BY <2>1 DEF FedBy
  <2> QED
    BY <2>2 DEF Cells
<1>6. Touched(edits) \in SUBSET Measure
  BY DEF Touched, Measure
<1>7. \A f \in Fix : Fixes[f].id \notin Touched(edits)
  BY FixOf DEF Touched
<1> QED
  BY <1>4, <1>5, <1>6, <1>7

-----------------------------------------------------------------------------
(* What is outstanding. *)

LEMMA TailLast ==
  ASSUME NEW q, NEW t, NEW n \in Nat, Len(q) = n + 1, Len(t) = n, \A i \in 1 .. n : t[i] = q[i + 1],
         \A i \in 1 .. n + 1 : q[i].kind = "shutdown" => i = n + 1
  PROVE  \A i \in 1 .. Len(t) : t[i].kind = "shutdown" => i = Len(t)
<1> TAKE i \in 1 .. Len(t)
<1>1. i \in 1 .. n /\ i + 1 \in 1 .. n + 1
  OBVIOUS
<1>2. t[i].kind = "shutdown" => i + 1 = n + 1
  BY <1>1
<1> QED
  BY <1>1, <1>2

LEMMA TailCount ==
  ASSUME cmds \in Seq(Command), cmds # <<>>, WorkInv, cmds' = Tail(cmds)
  PROVE  /\ Len(cmds) \in Nat /\ cmds' \in Seq(Command) /\ Len(cmds') = Len(cmds) - 1
         /\ Head(cmds) = cmds[1] /\ Head(cmds) \in Command
         /\ \A i \in 1 .. Len(cmds') : cmds'[i] = cmds[i + 1]
         /\ \A i \in 1 .. Len(cmds') : cmds'[i].kind = "shutdown" => i = Len(cmds')
         /\ Head(cmds).kind # "shutdown" => Closing' = Closing /\ Closing \in 0 .. Len(cmds) - 1
         /\ Head(cmds).kind = "shutdown" => cmds' = <<>> /\ Len(cmds) = 1 /\ Closing = 1
<1>1. /\ Len(cmds) \in Nat /\ cmds' \in Seq(Command) /\ Len(cmds') = Len(cmds) - 1
      /\ Head(cmds) = cmds[1] /\ Head(cmds) \in Command /\ Len(cmds) # 0
      /\ \A i \in 1 .. Len(cmds') : cmds'[i] = cmds[i + 1]
  OBVIOUS
<1>2. \A i \in 1 .. Len(cmds) : cmds[i].kind = "shutdown" => i = Len(cmds)
  BY DEF WorkInv
<1>3. \A i \in 1 .. Len(cmds') : cmds'[i].kind = "shutdown" => i = Len(cmds')
  <2>1. PICK n \in Nat : Len(cmds) = n + 1 /\ Len(cmds') = n
    <3>1. PICK a \in Nat : a = Len(cmds) /\ a # 0
      BY <1>1
    <3>2. a - 1 \in Nat /\ a = (a - 1) + 1
      BY <3>1
    <3>3. Len(cmds') = a - 1
      BY <1>1, <3>1
    <3> QED
      BY <3>1, <3>2, <3>3
  <2>2. PICK t : t = cmds'
    OBVIOUS
  <2>3. /\ Len(t) = n /\ \A i \in 1 .. n : t[i] = cmds[i + 1]
        /\ \A i \in 1 .. n + 1 : cmds[i].kind = "shutdown" => i = n + 1
    BY <1>1, <1>2, <2>1, <2>2
  <2>4. \A i \in 1 .. Len(t) : t[i].kind = "shutdown" => i = Len(t)
    BY <2>1, <2>3, TailLast
  <2> QED
    BY <2>2, <2>4
<1>4. ASSUME Head(cmds).kind # "shutdown"
      PROVE  Closing' = Closing /\ Closing \in 0 .. Len(cmds) - 1
  <2>1. CASE Len(cmds) = 1
    <3>1. cmds' = <<>> /\ cmds[Len(cmds)].kind # "shutdown"
      BY <1>1, <1>4, <2>1
    <3> QED
      BY <1>1, <2>1, <3>1 DEF Closing
  <2>2. CASE Len(cmds) # 1
    <3>1. cmds' # <<>> /\ cmds'[Len(cmds')] = cmds[Len(cmds)]
      BY <1>1, <2>2
    <3> QED
      BY <1>1, <2>2, <3>1 DEF Closing
  <2> QED
    BY <2>1, <2>2
<1>5. ASSUME Head(cmds).kind = "shutdown" PROVE cmds' = <<>> /\ Len(cmds) = 1 /\ Closing = 1
  <2>1. Len(cmds) = 1
    <3>1. 1 \in 1 .. Len(cmds) /\ cmds[1].kind = "shutdown"
      BY <1>1, <1>5
    <3> QED
      BY <1>2, <3>1
  <2> QED
    BY <1>1, <1>5, <2>1 DEF Closing
<1> QED
  BY <1>1, <1>3, <1>4, <1>5

LEMMA CountType ==
  ASSUME cmds \in Seq(Command)
  PROVE  Len(cmds) \in Nat /\ Closing \in {0, 1} /\ Busy \in {0, 1} /\ Len(cmds) - Closing \in Nat
         /\ Outstanding \in Nat
<1>1. Len(cmds) \in Nat /\ (cmds # <<>> => Len(cmds) # 0)
  OBVIOUS
<1>2. Closing \in {0, 1} /\ Busy \in {0, 1} /\ (Closing = 1 => Len(cmds) # 0)
  BY <1>1 DEF Closing, Busy
<1> QED
  BY <1>1, <1>2 DEF Outstanding

\* A step that leaves the replies, and what they are relative to, leaves what holds of the view.
LEMMA ViewSame ==
  ASSUME ViewInv, UNCHANGED <<replies, view, viewOk>>, viewOk \in BOOLEAN, Outstanding' = Outstanding,
         Asked => LastAsked' = LastAsked, viewOk /\ AllChanges => AllChanges' /\ RoundStart' = RoundStart,
         Given => SnapshotReply' = SnapshotReply /\ Idle'
  PROVE  ViewInv'
<1>1. CASE viewOk
  <2>1. PICK n \in 0 .. Len(replies) : \E hist \in [0 .. n -> Views] : Follows(n, hist)
    BY <1>1 DEF ViewInv
  <2>2. PICK hist \in [0 .. n -> Views] : Follows(n, hist)
    BY <2>1
  <2>3. AllChanges' /\ RoundStart' = RoundStart
    BY <1>1 DEF ViewInv
  <2>4. Follows(n, hist)'
    <3>1. Linked(n, hist) /\ hist[n] = RoundStart /\ Len(replies) - n = Outstanding
      BY <2>2 DEF Follows
    <3>2. Linked(n, hist)'
      BY <3>1 DEF Linked
    <3> QED
      BY <2>3, <3>1, <3>2 DEF Follows
  <2>5. n \in 0 .. Len(replies')
    OBVIOUS
  <2> QED
    BY <1>1, <2>3, <2>4, <2>5 DEF ViewInv
<1>2. CASE ~viewOk
  <2>1. AllDropped \/ Asked \/ Given
    BY <1>2 DEF ViewInv
  <2>2. (AllDropped => AllDropped') /\ (Asked => Asked') /\ (Given => Given')
    BY DEF AllDropped, Asked, AsksSnapshot, Given
  <2> QED
    BY <1>2, <2>1, <2>2 DEF ViewInv
<1> QED
  BY <1>1, <1>2

\* Within a round nothing the caller sees changes.
LEMMA BusyView ==
  ASSUME IInv, ~Idle, ~Idle', UNCHANGED <<cmds, cmd, replies, view, viewOk, sent>>,
         log \in Logs => log' \in Logs /\ RoundStart' = RoundStart, log = None => log' = None
  PROVE  TypeCall' /\ WorkInv' /\ ViewInv'
<1>1. TypeFlow /\ TypeCall /\ WorkInv /\ ViewInv
  BY Parts
<1>2. None \notin Logs
  BY LogNotNone
<1>3. log' \in Logs <=> log \in Logs
  BY <1>1, <1>2 DEF TypeFlow
<1>4. TypeCall'
  BY <1>1 DEF TypeCall
<1>5. pc' # "gone"
  BY DEF Idle
<1>6. WorkInv'
  BY <1>1, <1>3, <1>5 DEF WorkInv
<1>7. Outstanding' = Outstanding /\ LastAsked' = LastAsked /\ (AllChanges => AllChanges')
  BY DEF Outstanding, Closing, Busy, LastAsked, AllChanges, AsksChanges
<1>8. viewOk => RoundStart' = RoundStart
  <2>1. viewOk => cmd # NoCmd /\ AsksChanges(cmd)
    BY <1>1 DEF WorkInv, ViewInv, AllChanges
  <2> QED
    BY <1>1, <2>1 DEF WorkInv, AsksChanges
<1>9. ~Given
  BY DEF Given
<1>10. ViewInv'
  BY <1>1, <1>7, <1>8, <1>9, ViewSame DEF TypeCall
<1> QED
  BY <1>4, <1>6, <1>10

-----------------------------------------------------------------------------
(* Steps within a round. *)

\* A step of the solver alone.
LEMMA SolverStep ==
  ASSUME IInv, ~Idle, ~Idle', TypeSolve', UNCHANGED <<cmd, sess, flowed, snapshot, dirty, log, result>>,
         UNCHANGED <<caller, replies>>
  PROVE  IInv'
<1>1. TypeFlow /\ SnapshotInv
  BY Parts
<1>2. TypeFlow'
  BY <1>1 DEF TypeFlow
<1>3. SnapshotInv'
  BY <1>1 DEF SnapshotInv, Current
<1>4. RoundStart' = RoundStart
  BY DEF RoundStart, Start
<1>5. UNCHANGED <<cmds, cmd, replies, view, viewOk, sent>>
  BY DEF caller
<1>6. TypeCall' /\ WorkInv' /\ ViewInv'
  BY <1>4, <1>5, BusyView
<1> QED
  BY <1>2, <1>3, <1>6, Together

\* A step of the dataflow within a round, to the sessions s, with the log b and the
\* snapshot shown to start from.
LEMMA FlowStep ==
  ASSUME IInv, ~Idle, ~Idle', TypeSolve', UNCHANGED <<cmd, caller, replies>>,
         NEW s \in [Session -> Cells], NEW fed \in SUBSET Measure, \A m \in Session \ fed : s[m] = sess[m],
         NEW d \in SUBSET Measure, NEW b \in Logs \cup {None}, NEW shown \in [Shown -> Cells],
         RunTo(s, fed, d, b, shown), \A m \in Flow : shown[m] = snapshot[m],
         log = None => b = None, log \in Logs => b \in Logs /\ Start(b, shown) = RoundStart,
         \A f \in Fix : shown[Fixes[f].id] = result'[f] /\ s[Fixes[f].id] = result'[f]
  PROVE  IInv'
<1>1. TypeFlow /\ SnapshotInv
  BY Parts
<1>2. Current(sess, shown)
  BY <1>1 DEF SnapshotInv, Current
<1>3. sess \in [Session -> Cells] /\ flowed = sess
  BY <1>1 DEF TypeFlow, SnapshotInv
<1>4. /\ sess' = s /\ flowed' = s
      /\ snapshot' \in [Shown -> Cells] /\ Current(s, snapshot')
      /\ \A m \in Shown \ Flow : snapshot'[m] = shown[m]
  BY <1>2, <1>3, RunToCurrent
<1>5. /\ dirty' \in SUBSET Measure
      /\ b = None => log' = None
      /\ b \in Logs => log' \in Logs /\ Start(log', snapshot') = Start(b, shown)
  BY <1>4, RunToLog
<1>6. TypeFlow'
  BY <1>4, <1>5 DEF TypeFlow
<1>7. \A f \in Fix : snapshot'[Fixes[f].id] = result'[f] /\ sess'[Fixes[f].id] = result'[f]
  BY <1>4, FixOf
<1>8. Current(sess', snapshot')
  BY <1>4
<1>9. SnapshotInv'
  BY <1>4, <1>7, <1>8 DEF SnapshotInv, Current
<1>10. log \in Logs => log' \in Logs /\ RoundStart' = RoundStart
  BY <1>5 DEF RoundStart
<1>11. UNCHANGED <<cmds, cmd, replies, view, viewOk, sent>>
  BY DEF caller
<1>12. log = None => log' = None
  BY <1>5
<1>13. TypeCall' /\ WorkInv' /\ ViewInv'
  BY <1>10, <1>11, <1>12, BusyView
<1> QED
  BY <1>6, <1>9, <1>13, Together

LEMMA SkipHolds ==
  ASSUME IInv, Skip
  PROVE  IInv'
<1>1. TypeSolve
  BY Parts
<1>2. fix \in 1 .. Len(Fixes) /\ Len(Fixes) \in Nat
  BY StructureAssumption DEF Skip, Fix
<1>3. ~Idle /\ ~Idle' /\ pc' = "solve"
  BY DEF Skip, Idle
<1>4. fix' \in 1 .. Len(Fixes) + 1
  BY <1>2 DEF Skip
<1>5. TypeSolve'
  BY <1>1, <1>3, <1>4 DEF TypeSolve, Skip, solver
<1> QED
  BY <1>3, <1>5, SolverStep DEF Skip

LEMMA CellsOf ==
  ASSUME IInv, NEW f \in Fix
  PROVE  InitOf(f) \in Cells /\ WarmStart(f) \in Cells
<1>1. InitOf(f) \in Cells /\ result[f] \in Cells
  BY Parts, FixOf DEF InitOf, TypeFlow, TypeSolve
<1> QED
  BY <1>1 DEF WarmStart, Cells

LEMMA SolveHolds ==
  ASSUME IInv, Solve
  PROVE  IInv'
<1>1. TypeSolve /\ fix \in Fix
  BY Parts DEF Solve
<1>2. ~Idle /\ ~Idle' /\ pc' = "iterate"
  BY DEF Solve, Idle
<1>3. InitOf(fix) \in Cells /\ WarmStart(fix) \in Cells
  BY <1>1, CellsOf
<1>4. x' \in Cells /\ attempt' \in {"warm", "cold"}
  BY <1>3 DEF Solve
<1>5. left' \in Nat
  BY <1>1, StructureAssumption DEF Solve
<1>6. TypeSolve'
  BY <1>1, <1>2, <1>4, <1>5 DEF TypeSolve, Solve
<1> QED
  BY <1>2, <1>6, SolverStep DEF Solve

LEMMA OutOfRoundsHolds ==
  ASSUME IInv, OutOfRounds
  PROVE  IInv'
<1>1. TypeSolve
  BY Parts
<1>2. fix \in Fix /\ pc = "iterate"
  BY <1>1 DEF TypeSolve, OutOfRounds, GiveUp, CutOff
<1>3. InitOf(fix) \in Cells /\ Fixes[fix].maxIter \in Nat
  BY <1>2, CellsOf, StructureAssumption
<1>4. pc' \in {"iterate", "publish"}
  BY <1>2 DEF OutOfRounds, GiveUp, CutOff
<1>5. x' \in Cells /\ left' \in Nat /\ attempt' \in {"warm", "cold"}
  BY <1>1, <1>3 DEF TypeSolve, OutOfRounds, GiveUp, CutOff, solver
<1>6. TypeSolve'
  BY <1>1, <1>2, <1>4, <1>5 DEF TypeSolve, OutOfRounds
<1>7. ~Idle /\ ~Idle'
  BY <1>2, <1>4 DEF Idle
<1> QED
  BY <1>6, <1>7, SolverStep DEF OutOfRounds

LEMMA HostStepType ==
  ASSUME TypeFlow, NEW f \in Fix, Host(f), NEW it \in Cells
  PROVE  HostStep(f, it) \in Cells
<1> DEFINE env == [m \in Reads[Fixes[f].body] |->
                     CASE m = Fixes[f].r -> it
                       [] m # Fixes[f].r /\ m \in Input -> sess[m]
                       [] m # Fixes[f].r /\ m \in Shown \ Input -> snapshot[m]
                       [] OTHER -> Empty]
<1>1. \A m \in Input : sess[m] \in Cells
  BY DEF TypeFlow, Session
<1>2. \A m \in Shown : snapshot[m] \in Cells
  BY DEF TypeFlow
<1>3. env \in [Reads[Fixes[f].body] -> Cells]
  <2>1. ASSUME NEW m \in Reads[Fixes[f].body] PROVE env[m] \in Cells
    <3>1. CASE m = Fixes[f].r
      BY <3>1
    <3>2. CASE m # Fixes[f].r /\ m \in Input
      BY <1>1, <3>2
    <3>3. CASE m # Fixes[f].r /\ m \in Shown \ Input
      BY <1>2, <3>3
    <3>4. CASE m # Fixes[f].r /\ m \notin Input /\ m \notin Shown
      BY <3>4, EmptyType
    <3> QED
      BY <3>1, <3>2, <3>3, <3>4
  <2> HIDE DEF env
  <2>2. DOMAIN env = Reads[Fixes[f].body] /\ env = [m \in DOMAIN env |-> env[m]]
    BY DEF env
  <2> QED
    BY <2>1, <2>2
<1>4. Fixes[f].body \in Planned
  BY StructureAssumption
<1>5. HostStep(f, it) = Plan(Fixes[f].body, env)
  BY DEF HostStep
<1> HIDE DEF env
<1> QED
  BY <1>3, <1>4, <1>5, StructureAssumption

LEMMA IterateHolds ==
  ASSUME IInv, Iterate
  PROVE  IInv'
<1>1. TypeFlow /\ TypeSolve /\ SnapshotInv
  BY Parts
<1>2. fix \in Fix /\ pc = "iterate" /\ left \in Nat /\ left > 0
  BY <1>1 DEF TypeSolve, Iterate, Remaining
<1>3. pc' \in {"iterate", "publish"} /\ left' \in Nat
  <2>1. left - 1 \in Nat
    BY <1>2
  <2> QED
    BY <1>2, <2>1 DEF Iterate
<1>4. ~Idle /\ ~Idle'
  BY <1>2, <1>3 DEF Idle
<1>5. x' \in Cells => TypeSolve'
  BY <1>1, <1>2, <1>3 DEF TypeSolve, Iterate
<1>6. CASE Host(fix)
  <2>1. x' = HostStep(fix, x) /\ UNCHANGED <<sess, flowed, snapshot, dirty, log>>
    BY <1>6 DEF Iterate
  <2>2. x' \in Cells
    BY <1>1, <1>2, <1>6, <2>1, HostStepType DEF TypeSolve
  <2>3. UNCHANGED <<cmd, sess, flowed, snapshot, dirty, log, result>> /\ UNCHANGED <<caller, replies>>
    BY <2>1 DEF Iterate
  <2> QED
    BY <1>4, <1>5, <2>2, <2>3, SolverStep
<1>7. CASE ~Host(fix)
  <2>1. /\ RunTo([sess EXCEPT ![Fixes[fix].r] = x], {Fixes[fix].r}, dirty, log, snapshot)
        /\ x' = IF Fixes[fix].body \in Flow THEN snapshot'[Fixes[fix].body] ELSE Empty
    BY <1>7 DEF Iterate
  <2>2. PICK r \in Session : r = Fixes[fix].r
    BY <1>2, FixOf
  <2>3. PICK s \in [Session -> Cells] : s = [sess EXCEPT ![r] = x]
    BY <1>1 DEF TypeFlow, TypeSolve
  <2>4. PICK fed \in SUBSET Measure : fed = {r}
    BY DEF Measure
  <2>5. RunTo(s, fed, dirty, log, snapshot)
    BY <2>1, <2>2, <2>3, <2>4
  <2>6. \A m \in Session \ fed : s[m] = sess[m]
    BY <1>1, <2>3, <2>4 DEF TypeFlow
  <2>7. \A f \in Fix : snapshot[Fixes[f].id] = result'[f] /\ s[Fixes[f].id] = result'[f]
    <3>1. \A f \in Fix : Fixes[f].id \in Session \ fed
      BY <1>2, <2>2, <2>4, FixOf
    <3>2. result' = result
      BY DEF Iterate
    <3> QED
      BY <1>1, <2>6, <3>1, <3>2 DEF SnapshotInv
  <2>8. snapshot' \in [Shown -> Cells]
    BY <1>1, <2>5, <2>6, RunToCurrent DEF TypeFlow, SnapshotInv
  <2>9. x' \in Cells
    BY <2>1, <2>8, EmptyType DEF Shown
  <2>10. UNCHANGED <<cmd, caller, replies>>
    BY DEF Iterate
  <2>11. dirty \in SUBSET Measure /\ log \in Logs \cup {None} /\ snapshot \in [Shown -> Cells]
    BY <1>1 DEF TypeFlow
  <2> QED
    BY <1>4, <1>5, <2>5, <2>6, <2>7, <2>9, <2>10, <2>11, FlowStep DEF RoundStart
<1> QED
  BY <1>6, <1>7

LEMMA PublishHolds ==
  ASSUME IInv, Publish
  PROVE  IInv'
<1>1. TypeFlow /\ TypeSolve /\ SnapshotInv
  BY Parts
<1>2. fix \in Fix /\ pc = "publish" /\ pc' = "solve" /\ x \in Cells
  BY <1>1 DEF TypeSolve, Publish
<1>3. ~Idle /\ ~Idle'
  BY <1>2 DEF Idle
<1>4. TypeSolve'
  <2>1. InitOf(fix) \in Cells
    BY <1>2, CellsOf
  <2>2. fix' \in 1 .. Len(Fixes) + 1
    BY <1>2, StructureAssumption DEF Publish, Fix
  <2>3. UNCHANGED <<x, left, attempt>>
    BY DEF Publish, solver
  <2>4. result' \in [Fix -> Cells] /\ first' \in [Fix -> Cells \cup {None}] /\ conv' \in [Fix -> BOOLEAN]
    <3>1. (left > 0) \in BOOLEAN
      OBVIOUS
    <3> QED
      BY <1>1, <1>2, <2>1, <3>1 DEF TypeSolve, Publish
  <2> QED
    BY <1>1, <1>2, <2>2, <2>3, <2>4 DEF TypeSolve
<1>5. PICK id \in Session : id = Fixes[fix].id /\ id \in Shown \ Flow /\ id \in Measure
  BY <1>2, FixOf
<1>6. PICK s \in [Session -> Cells] : s = [sess EXCEPT ![id] = x]
  BY <1>1, <1>2 DEF TypeFlow
<1>7. PICK shown \in [Shown -> Cells] : shown = [snapshot EXCEPT ![id] = x]
  BY <1>1, <1>2, <1>5 DEF TypeFlow
<1>8. PICK fed \in SUBSET Measure : fed = {id}
  BY <1>5
<1>9. PICK d \in SUBSET Measure : d = dirty \cup Moved(snapshot, shown, fed)
  BY <1>1 DEF TypeFlow, Moved
<1>10. /\ \A m \in Session \ fed : s[m] = sess[m]
       /\ \A m \in Shown \ fed : shown[m] = snapshot[m]
       /\ s[id] = x /\ shown[id] = x
  BY <1>1, <1>2, <1>5, <1>6, <1>7, <1>8 DEF TypeFlow
<1>11. PICK b \in Logs \cup {None} : /\ b = Note(log, snapshot, shown, fed) /\ (log = None => b = None)
                                     /\ log \in Logs => b \in Logs /\ Start(b, shown) = RoundStart
  <2>1. CASE log = None
    <3>1. Note(log, snapshot, shown, fed) = None
      BY <2>1 DEF Note
    <3> QED
      BY <2>1, <3>1, LogNotNone
  <2>2. CASE log \in Logs
    <3>1. fed \in SUBSET Shown /\ snapshot \in [Shown -> Cells]
      BY <1>1, <1>5, <1>8 DEF TypeFlow
    <3>2. /\ Note(log, snapshot, shown, fed) \in Logs
          /\ Start(Note(log, snapshot, shown, fed), shown) = Start(log, snapshot)
      BY <1>10, <2>2, <3>1, NoteStart
    <3> QED
      BY <2>2, <3>2, LogNotNone DEF RoundStart
  <2> QED
    BY <1>1, <2>1, <2>2 DEF TypeFlow
<1>12. RunTo(s, fed, d, b, shown)
  <2>1. RunTo([sess EXCEPT ![id] = x], {id}, dirty \cup Moved(snapshot, [snapshot EXCEPT ![id] = x], {id}),
              NotePublished([snapshot EXCEPT ![id] = x], id), [snapshot EXCEPT ![id] = x])
    BY <1>5 DEF Publish
  <2> QED
    BY <1>6, <1>7, <1>8, <1>9, <1>11, <2>1 DEF NotePublished
<1>13. \A f \in Fix : shown[Fixes[f].id] = result'[f] /\ s[Fixes[f].id] = result'[f]
  <2> TAKE f \in Fix
  <2>1. CASE f = fix
    <3>1. result'[f] = x
      BY <1>1, <1>2, <2>1 DEF TypeSolve, Publish
    <3> QED
      BY <1>5, <1>10, <2>1, <3>1
  <2>2. CASE f # fix
    <3>1. result'[f] = result[f]
      BY <1>1, <1>2, <2>2 DEF TypeSolve, Publish
    <3>2. Fixes[f].id \in Session \ fed /\ Fixes[f].id \in Shown \ fed
      BY <1>2, <1>5, <1>8, <2>2, FixOf
    <3> QED
      BY <1>1, <1>10, <3>1, <3>2 DEF SnapshotInv
  <2> QED
    BY <2>1, <2>2
<1>14. \A m \in Flow : shown[m] = snapshot[m]
  BY <1>5, <1>8, <1>10 DEF Shown
<1>15. UNCHANGED <<cmd, caller, replies>>
  BY DEF Publish
<1> QED
  BY <1>3, <1>4, <1>10, <1>11, <1>12, <1>13, <1>14, <1>15, FlowStep

-----------------------------------------------------------------------------
(* A round begins. *)

LEMMA EmptyLog ==
  ASSUME NEW s \in [Shown -> Cells]
  PROVE  <<>> \in Logs /\ Start(<<>>, s) = Visible(s)
<1>1. <<>> \in [{} -> Num \cup {None}] /\ {} \in SUBSET (Shown \X Coord) /\ DOMAIN <<>> = {}
  OBVIOUS
<1>2. <<>> \in Logs
  BY <1>1 DEF Logs
<1>3. PICK b \in Logs : b = <<>> /\ DOMAIN b = {}
  BY <1>1, <1>2
<1>4. Start(b, s) = Start(None, s)
  BY <1>3 DEF Start
<1> QED
  BY <1>3, <1>4, StartNone

LEMMA RoundHolds ==
  ASSUME IInv, Round
  PROVE  IInv'
<1>1. TypeFlow /\ TypeSolve /\ TypeCall /\ SnapshotInv /\ WorkInv /\ ViewInv
  BY Parts
<1>2. /\ pc = "idle" /\ cmds # <<>> /\ Head(cmds).kind = "edit" /\ pc' = "solve" /\ fix' = 1
      /\ cmd' = Head(cmds) /\ cmds' = Tail(cmds) /\ UNCHANGED <<replies, view, viewOk, sent>>
      /\ UNCHANGED <<x, left, attempt, first, result, conv>>
  BY DEF Round, solver
<1>3. Idle /\ ~Idle' /\ cmd = NoCmd /\ log = None
  BY <1>1, <1>2 DEF Idle, WorkInv
<1>4. /\ Len(cmds) \in Nat /\ cmds' \in Seq(Command) /\ Len(cmds') = Len(cmds) - 1
      /\ Head(cmds) = cmds[1] /\ Head(cmds) \in Command
      /\ \A i \in 1 .. Len(cmds') : cmds'[i] = cmds[i + 1]
      /\ \A i \in 1 .. Len(cmds') : cmds'[i].kind = "shutdown" => i = Len(cmds')
      /\ Closing' = Closing /\ Closing \in 0 .. Len(cmds) - 1
  BY <1>1, <1>2, TailCount DEF TypeCall
<1>5. PICK c \in Command : c = Head(cmds) /\ c = cmd' /\ c.kind = "edit"
  BY <1>2, <1>4
<1>6. c.edits \in Batch /\ c.reply \in {"changes", "snapshot"} /\ c # NoCmd
  BY <1>5, Edits
<1>7. PICK s \in [Session -> Cells], fed \in SUBSET Measure :
         /\ s = FedBy(c.edits) /\ fed = Touched(c.edits) /\ \A m \in Session \ fed : s[m] = sess[m]
         /\ \A f \in Fix : Fixes[f].id \notin fed
  <2>1. PICK e \in Batch : e = c.edits
    BY <1>6
  <2> QED
    BY <1>1, <2>1, FedByOf DEF TypeFlow
<1>8. PICK b \in Logs \cup {None} : /\ b = IF c.reply = "changes" THEN <<>> ELSE None
                                    /\ b \in Logs <=> c.reply = "changes"
                                    /\ b \in Logs => Start(b, snapshot) = Visible(snapshot)
  BY <1>1, EmptyLog, LogNotNone DEF TypeFlow
<1>9. RunTo(s, fed, fed, b, snapshot)
  BY <1>5, <1>7, <1>8 DEF Round
<1>10. /\ sess' = s /\ flowed' = s
       /\ snapshot' \in [Shown -> Cells] /\ Current(s, snapshot')
       /\ \A m \in Shown \ Flow : snapshot'[m] = snapshot[m]
  BY <1>1, <1>7, <1>9, RunToCurrent DEF TypeFlow, SnapshotInv
<1>11. /\ dirty' \in SUBSET Measure
       /\ b = None => log' = None
       /\ b \in Logs => log' \in Logs /\ Start(log', snapshot') = Start(b, snapshot)
  BY <1>1, <1>9, <1>10, RunToLog DEF TypeFlow
<1>12. TypeFlow'
  BY <1>10, <1>11 DEF TypeFlow
<1>13. TypeSolve'
  <2>1. fix' \in 1 .. Len(Fixes) + 1
    BY <1>2, StructureAssumption
  <2> QED
    BY <1>1, <1>2, <2>1 DEF TypeSolve
<1>14. TypeCall'
  BY <1>1, <1>2, <1>4, <1>5 DEF TypeCall
<1>15. SnapshotInv'
  <2>1. \A f \in Fix : snapshot'[Fixes[f].id] = result'[f] /\ sess'[Fixes[f].id] = result'[f]
    <3> TAKE f \in Fix
    <3>1. Fixes[f].id \in Session \ fed /\ Fixes[f].id \in Shown \ Flow
      BY <1>7, FixOf
    <3> QED
      BY <1>1, <1>2, <1>7, <1>10, <3>1 DEF SnapshotInv
  <2>2. Current(sess', snapshot')
    BY <1>10
  <2> QED
    BY <1>10, <2>1, <2>2 DEF SnapshotInv, Current
<1>16. log' \in Logs <=> c.reply = "changes"
  BY <1>8, <1>11, LogNotNone
<1>17. WorkInv'
  BY <1>2, <1>3, <1>4, <1>5, <1>6, <1>16 DEF WorkInv, Idle
<1>18. Outstanding' = Outstanding /\ Outstanding # 0
  <2>1. Busy' = 1 /\ Busy = 0
    BY <1>3, <1>5, <1>6 DEF Busy
  <2>2. PICK l \in Nat, k \in Int : l = Len(cmds) /\ k = Closing /\ k \in 0 .. l - 1 /\ Len(cmds') = l - 1 /\ Closing' = k
    BY <1>4
  <2>3. Outstanding' = (l - 1) - k + 1 /\ Outstanding = l - k + 0
    BY <2>1, <2>2 DEF Outstanding
  <2> QED
    BY <2>2, <2>3
<1>19. LastAsked' = LastAsked
  <2>1. PICK l \in Nat, k \in Int : l = Len(cmds) /\ k = Closing /\ k \in 0 .. l - 1 /\ Len(cmds') = l - 1 /\ Closing' = k
    BY <1>4
  <2>2. LastAsked = cmds[l - k]
    BY <2>1 DEF LastAsked
  <2>3. CASE l - k = 1
    <3>1. LastAsked' = cmd'
      BY <2>1, <2>3 DEF LastAsked
    <3> QED
      BY <1>2, <1>4, <2>2, <2>3, <3>1
  <2>4. CASE l - k # 1
    <3>1. l - 1 - k \in 1 .. l - 1
      BY <2>1, <2>4
    <3>2. LastAsked' = cmds'[l - 1 - k]
      BY <2>1, <3>1 DEF LastAsked
    <3>3. cmds'[l - 1 - k] = cmds[(l - 1 - k) + 1]
      BY <1>4, <2>1, <3>1
    <3> QED
      BY <2>1, <2>2, <3>2, <3>3
  <2> QED
    BY <2>3, <2>4
<1>20. ASSUME viewOk, AllChanges PROVE AllChanges' /\ RoundStart' = RoundStart
  <2>1. \A i \in 1 .. Len(cmds) : cmds[i].kind = "shutdown" \/ AsksChanges(cmds[i])
    BY <1>20 DEF AllChanges
  <2>2. AsksChanges(c)
    <3>1. 1 \in 1 .. Len(cmds)
      <4>1. PICK l \in Nat, k \in Int : l = Len(cmds) /\ k = Closing /\ k \in 0 .. l - 1
        BY <1>4
      <4>2. 1 \in 1 .. l
        BY <4>1
      <4> QED
        BY <4>1, <4>2
    <3>2. c.kind = "shutdown" \/ AsksChanges(c)
      BY <1>4, <1>5, <2>1, <3>1
    <3> QED
      BY <1>5, <3>2
  <2>3. \A i \in 1 .. Len(cmds') : cmds'[i].kind = "shutdown" \/ AsksChanges(cmds'[i])
    <3> TAKE i \in 1 .. Len(cmds')
    <3>1. i + 1 \in 1 .. Len(cmds) /\ cmds'[i] = cmds[i + 1]
      BY <1>4
    <3> QED
      BY <2>1, <3>1
  <2>4. AllChanges'
    BY <1>5, <2>2, <2>3 DEF AllChanges, AsksChanges
  <2>5. RoundStart' = Visible(snapshot)
    BY <1>8, <1>11, <2>2 DEF RoundStart, AsksChanges
  <2>6. RoundStart = Visible(snapshot)
    BY <1>1, <1>3, StartNone DEF RoundStart, TypeFlow
  <2> QED
    BY <2>4, <2>5, <2>6
<1>21. ~Given
  BY <1>18 DEF Given
<1>22. ViewInv'
  BY <1>1, <1>2, <1>18, <1>19, <1>20, <1>21, ViewSame DEF TypeCall
<1> QED
  BY <1>12, <1>13, <1>14, <1>15, <1>17, <1>22, Together

-----------------------------------------------------------------------------
(* A round ends. *)

\* The changes of a round take the cells as they were when it began to the cells as they are.
LEMMA ChangesOf ==
  ASSUME NEW b \in Logs, NEW s \in [Shown -> Cells]
  PROVE  /\ Changes(s, b) \in SUBSET Change
         /\ Exact(Start(b, s), Changes(s, b))
         /\ Applied(Start(b, s), Changes(s, b)) = Visible(s)
<1>1. b # None /\ DOMAIN b \in SUBSET (Shown \X Coord) /\ \A c \in DOMAIN b : b[c] \in Num \cup {None}
  BY LogNotNone DEF Logs
<1>2. \A m \in Shown, k \in Coord : s[m][k] \in Num \cup {None}
  BY DEF Cells
<1>3. \A ch \in Changes(s, b) :
        \E m \in Shown \ Hidden, k \in Coord :
          /\ <<m, k>> \in DOMAIN b /\ b[<<m, k>>] # s[m][k]
          /\ ch = [cell |-> <<m, k>>, old |-> b[<<m, k>>], new |-> s[m][k]]
  <2> TAKE ch \in Changes(s, b)
  <2>1. PICK c \in DOMAIN b : /\ c[1] \notin Hidden /\ ch.old # ch.new
                              /\ ch = [cell |-> c, old |-> b[c], new |-> s[c[1]][c[2]]]
    BY DEF Changes
  <2>2. PICK m \in Shown, k \in Coord : c = <<m, k>>
    BY <1>1
  <2>3. m \in Shown \ Hidden /\ b[<<m, k>>] # s[m][k]
    BY <2>1, <2>2
  <2> QED
    BY <2>1, <2>2, <2>3
<1>4. \A m \in Shown \ Hidden, k \in Coord : <<m, k>> \in DOMAIN b /\ b[<<m, k>>] # s[m][k] =>
        \E ch \in Changes(s, b) : ch.cell = <<m, k>>
  <2> TAKE m \in Shown \ Hidden, k \in Coord
  <2> HAVE <<m, k>> \in DOMAIN b /\ b[<<m, k>>] # s[m][k]
  <2>1. PICK c \in DOMAIN b : c = <<m, k>>
    OBVIOUS
  <2> DEFINE ch == [cell |-> c, old |-> b[c], new |-> s[c[1]][c[2]]]
  <2>2. ch \in Changes(s, b)
    BY <2>1 DEF Changes
  <2> QED
    BY <2>1, <2>2
<1>5. Changes(s, b) \in SUBSET Change
  <2> SUFFICES ASSUME NEW ch \in Changes(s, b) PROVE ch \in Change
    OBVIOUS
  <2>1. PICK m \in Shown \ Hidden, k \in Coord :
          /\ <<m, k>> \in DOMAIN b
          /\ ch = [cell |-> <<m, k>>, old |-> b[<<m, k>>], new |-> s[m][k]]
    BY <1>3
  <2>2. PICK o \in Num \cup {None}, v \in Num \cup {None} : o = b[<<m, k>>] /\ v = s[m][k]
    BY <1>1, <1>2, <2>1
  <2>3. ch = [cell |-> <<m, k>>, old |-> o, new |-> v]
    BY <2>1, <2>2
  <2> QED
    BY <2>3 DEF Change
<1>6. Exact(Start(b, s), Changes(s, b))
  <2> SUFFICES ASSUME NEW ch \in Changes(s, b)
               PROVE  ch.old # ch.new /\ ch.old = Start(b, s)[ch.cell[1]][ch.cell[2]]
    BY DEF Exact
  <2>1. PICK m \in Shown \ Hidden, k \in Coord :
          /\ <<m, k>> \in DOMAIN b /\ b[<<m, k>>] # s[m][k]
          /\ ch = [cell |-> <<m, k>>, old |-> b[<<m, k>>], new |-> s[m][k]]
    BY <1>3
  <2>2. Start(b, s)[m][k] = b[<<m, k>>]
    BY <1>1, <2>1 DEF Start
  <2> QED
    BY <2>1, <2>2
<1>7. \A m \in Shown \ Hidden, k \in Coord :
        (IF \E ch \in Changes(s, b) : ch.cell = <<m, k>>
         THEN (CHOOSE ch \in Changes(s, b) : ch.cell = <<m, k>>).new ELSE Start(b, s)[m][k]) = s[m][k]
  <2> TAKE m \in Shown \ Hidden, k \in Coord
  <2>1. CASE \E ch \in Changes(s, b) : ch.cell = <<m, k>>
    <3>1. PICK ch \in Changes(s, b) :
            ch.cell = <<m, k>> /\ ch = (CHOOSE d \in Changes(s, b) : d.cell = <<m, k>>)
      BY <2>1
    <3>2. PICK n \in Shown \ Hidden, j \in Coord :
            ch = [cell |-> <<n, j>>, old |-> b[<<n, j>>], new |-> s[n][j]]
      BY <1>3
    <3>3. n = m /\ j = k
      BY <3>1, <3>2
    <3>4. ch.new = s[m][k]
      BY <3>2, <3>3
    <3> QED
      BY <2>1, <3>1, <3>4
  <2>2. CASE ~\E ch \in Changes(s, b) : ch.cell = <<m, k>>
    <3>1. <<m, k>> \in DOMAIN b => b[<<m, k>>] = s[m][k]
      BY <1>4, <2>2
    <3>2. Start(b, s)[m][k] = s[m][k]
      BY <1>1, <3>1 DEF Start
    <3> QED
      BY <2>2, <3>2
  <2> QED
    BY <2>1, <2>2
<1>8. Applied(Start(b, s), Changes(s, b)) = [m \in Shown \ Hidden |-> [k \in Coord |-> s[m][k]]]
  BY <1>7 DEF Applied
<1>9. \A m \in Shown \ Hidden : [k \in Coord |-> s[m][k]] = s[m]
  BY DEF Cells
<1> QED
  BY <1>5, <1>6, <1>8, <1>9 DEF Visible

LEMMA VisibleType ==
  ASSUME TypeFlow
  PROVE  Visible(snapshot) \in Views /\ SnapshotReply \in Reply
<1>1. Visible(snapshot) \in Views
  BY DEF Visible, Views, TypeFlow
<1> QED
  BY <1>1 DEF SnapshotReply, Reply

LEMMA AnswerHolds ==
  ASSUME IInv, Answer
  PROVE  IInv'
<1>1. TypeFlow /\ TypeSolve /\ TypeCall /\ SnapshotInv /\ WorkInv /\ ViewInv /\ RoundStart \in Views
  BY Parts
<1>2. /\ pc = "solve" /\ pc' = "idle" /\ cmd' = NoCmd
      /\ UNCHANGED <<sess, flowed, snapshot, dirty, fix, x, left, attempt, first, result, conv>>
      /\ UNCHANGED <<cmds, view, viewOk, sent>>
  BY DEF Answer, solver, caller
<1>3. ~Idle /\ Idle'
  BY <1>2 DEF Idle
<1>4. TypeSolve'
  BY <1>1, <1>2 DEF TypeSolve
<1>5. SnapshotInv'
  BY <1>1, <1>2 DEF SnapshotInv, Current
<1>6. cmds \in Seq(Command) /\ Len(cmds) \in Nat /\ Closing \in {0, 1} /\ Len(cmds) - Closing \in Nat
  BY <1>1, CountType DEF TypeCall
<1>7. Closing' = Closing /\ Busy' = 0
  BY <1>2 DEF Closing, Busy
<1>8. CASE cmd = NoCmd
  <2>1. cmds = <<>> /\ replies = <<>> /\ ~viewOk /\ log = None
    BY <1>1, <1>3, <1>8 DEF WorkInv
  <2>2. replies' = replies /\ log' = log
    BY <1>8 DEF Answer, NoCmd
  <2>3. TypeFlow' /\ TypeCall'
    BY <1>1, <1>2, <2>2 DEF TypeFlow, TypeCall
  <2>4. WorkInv'
    BY <1>1, <1>2, <1>3, <2>1, <2>2 DEF WorkInv
  <2>5. Outstanding' = 0
    BY <1>2, <1>7, <2>1 DEF Outstanding, Closing
  <2>6. AllDropped'
    BY <2>1, <2>2, <2>5 DEF AllDropped
  <2>7. ViewInv'
    BY <1>2, <2>1, <2>6 DEF ViewInv
  <2> QED
    BY <1>4, <1>5, <2>3, <2>4, <2>7, Together
<1>9. CASE cmd # NoCmd
  <2>1. cmd \in Command /\ cmd.kind = "edit" /\ cmd.reply \in {"changes", "snapshot"}
    BY <1>1, <1>9, Edits DEF TypeCall
  <2>2. Busy = 1
    BY <1>9 DEF Busy
  <2>3. Outstanding \in Nat /\ Outstanding # 0 /\ Outstanding' = Outstanding - 1
    BY <1>2, <1>6, <1>7, <2>2 DEF Outstanding
  <2>4. LastAsked = IF Outstanding = 1 THEN cmd ELSE cmds[Len(cmds) - Closing]
    BY <1>6, <2>2 DEF LastAsked, Outstanding
  <2>5. Outstanding # 1 => LastAsked' = LastAsked
    BY <1>2, <1>6, <1>7, <2>2, <2>4 DEF LastAsked, Outstanding
  <2>6. AllChanges => AllChanges'
    BY <1>2 DEF AllChanges
  <2>7. PICK r \in Reply : /\ Deliver(r) /\ Fits(r) /\ log' = None
                           /\ viewOk => RoundStart' \in Views
    <3>1. CASE cmd.reply = "snapshot"
      <4>1. Deliver(SnapshotReply) /\ log' = log
        BY <2>1, <3>1 DEF Answer
      <4>2. log = None
        BY <1>1, <1>9, <3>1 DEF WorkInv, TypeFlow
      <4>3. ~viewOk
        BY <1>1, <1>9, <3>1 DEF ViewInv, AllChanges, AsksChanges
      <4>4. PICK r \in Reply : r = SnapshotReply
        BY <1>1, VisibleType
      <4>5. SnapshotReply' = SnapshotReply
        BY <1>2 DEF SnapshotReply, Visible
      <4>6. Fits(r)
        BY <1>3, <2>5, <4>3, <4>4, <4>5 DEF Fits
      <4> QED
        BY <4>1, <4>2, <4>3, <4>4, <4>6
    <3>2. CASE cmd.reply = "changes"
      <4>1. PICK r : r = [kind |-> "changes", cells |-> Changes(snapshot, log)]
        OBVIOUS
      <4>2. Deliver(r) /\ log' = None
        BY <2>1, <3>2, <4>1 DEF Answer
      <4>3. log \in Logs
        BY <1>1, <1>9, <3>2 DEF WorkInv
      <4>4. /\ Changes(snapshot, log) \in SUBSET Change
            /\ Exact(RoundStart, Changes(snapshot, log))
            /\ Applied(RoundStart, Changes(snapshot, log)) = Visible(snapshot)
        BY <1>1, <4>3, ChangesOf DEF RoundStart, TypeFlow
      <4>5. RoundStart' = Visible(snapshot)
        BY <1>1, <1>2, <4>2, StartNone DEF RoundStart, TypeFlow
      <4>6. r \in Reply /\ r.kind = "changes" /\ r.cells = Changes(snapshot, log)
        BY <4>1, <4>4 DEF Reply
      <4>7. Asked => Outstanding # 1
        BY <2>1, <2>4, <3>2 DEF Asked, AsksSnapshot
      <4>8. Fits(r)
        BY <2>5, <4>4, <4>5, <4>6, <4>7 DEF Fits
      <4>9. RoundStart' \in Views
        BY <1>1, <4>5, VisibleType
      <4> QED
        BY <4>2, <4>6, <4>8, <4>9
    <3> QED
      BY <2>1, <3>1, <3>2
  <2>8. replies \in Seq(Reply) /\ viewOk \in BOOLEAN
    BY <1>1 DEF TypeCall
  <2>9. replies' \in Seq(Reply) /\ ViewInv'
    BY <1>1, <1>2, <2>3, <2>6, <2>7, <2>8, DeliverView
  <2>10. TypeFlow' /\ TypeCall'
    BY <1>1, <1>2, <2>7, <2>9 DEF TypeFlow, TypeCall
  <2>11. WorkInv'
    BY <1>1, <1>2, <1>3, <2>7 DEF WorkInv
  <2> QED
    BY <1>4, <1>5, <2>9, <2>10, <2>11, Together
<1> QED
  BY <1>8, <1>9

LEMMA ServeHolds ==
  ASSUME IInv, Serve
  PROVE  IInv'
<1>1. TypeFlow /\ TypeSolve /\ TypeCall /\ SnapshotInv /\ WorkInv /\ ViewInv /\ RoundStart \in Views
  BY Parts
<1>2. /\ pc = "idle" /\ cmds # <<>> /\ Head(cmds).kind # "edit" /\ cmds' = Tail(cmds)
      /\ UNCHANGED <<cmd, sess, flowed, snapshot, dirty, log, fix, x, left, attempt, first, result, conv>>
      /\ UNCHANGED <<view, viewOk, sent>>
  BY DEF Serve, solver
<1>3. Idle /\ cmd = NoCmd /\ log = None /\ Busy = 0 /\ Busy' = 0
  BY <1>1, <1>2 DEF Idle, WorkInv, Busy
<1>4. /\ Len(cmds) \in Nat /\ cmds' \in Seq(Command) /\ Len(cmds') = Len(cmds) - 1
      /\ Head(cmds) = cmds[1] /\ Head(cmds) \in Command
      /\ \A i \in 1 .. Len(cmds') : cmds'[i] = cmds[i + 1]
      /\ \A i \in 1 .. Len(cmds') : cmds'[i].kind = "shutdown" => i = Len(cmds')
      /\ Head(cmds).kind # "shutdown" => Closing' = Closing /\ Closing \in 0 .. Len(cmds) - 1
      /\ Head(cmds).kind = "shutdown" => cmds' = <<>> /\ Len(cmds) = 1 /\ Closing = 1
  BY <1>1, <1>2, TailCount DEF TypeCall
<1>5. TypeFlow'
  BY <1>1, <1>2 DEF TypeFlow
<1>6. SnapshotInv'
  BY <1>1, <1>2 DEF SnapshotInv, Current
<1>7. RoundStart' = RoundStart /\ SnapshotReply' = SnapshotReply
  BY <1>2 DEF RoundStart, Start, SnapshotReply, Visible
<1>8. AllChanges => AllChanges'
  <2> HAVE AllChanges
  <2>1. ASSUME NEW i \in 1 .. Len(cmds') PROVE cmds'[i].kind = "shutdown" \/ AsksChanges(cmds'[i])
    <3>1. i + 1 \in 1 .. Len(cmds) /\ cmds'[i] = cmds[i + 1]
      BY <1>4
    <3> QED
      BY <3>1 DEF AllChanges
  <2> QED
    BY <1>2, <2>1 DEF AllChanges, AsksChanges
<1>9. CASE Head(cmds).kind = "snapshot"
  <2>1. Deliver(SnapshotReply) /\ pc' = pc
    BY <1>9 DEF Serve
  <2>2. PICK l \in Nat, k \in Int : l = Len(cmds) /\ k = Closing /\ k \in 0 .. l - 1 /\ Len(cmds') = l - 1 /\ Closing' = k
    BY <1>4, <1>9
  <2>3. Outstanding = l - k /\ Outstanding' = l - 1 - k
    BY <1>3, <2>2 DEF Outstanding
  <2>4. Outstanding \in Nat /\ Outstanding # 0 /\ Outstanding' = Outstanding - 1
    BY <2>2, <2>3
  <2>5. Outstanding # 1 => LastAsked' = LastAsked
    <3> HAVE Outstanding # 1
    <3>1. l - 1 - k \in 1 .. l - 1
      BY <2>2, <2>3
    <3>2. LastAsked' = cmds'[l - 1 - k] /\ LastAsked = cmds[l - k]
      BY <2>2, <3>1 DEF LastAsked
    <3>3. cmds'[l - 1 - k] = cmds[(l - 1 - k) + 1]
      BY <1>4, <2>2, <3>1
    <3> QED
      BY <2>2, <3>2, <3>3
  <2>6. ~viewOk
    <3>1. 1 \in 1 .. Len(cmds)
      BY <2>2
    <3> QED
      BY <1>1, <1>4, <1>9, <3>1 DEF ViewInv, AllChanges, AsksChanges
  <2>7. PICK r \in Reply : r = SnapshotReply
    BY <1>1, VisibleType
  <2>8. Idle'
    BY <1>3, <2>1 DEF Idle
  <2>9. Fits(r)
    BY <1>7, <2>5, <2>6, <2>7, <2>8 DEF Fits
  <2>10. replies' \in Seq(Reply) /\ ViewInv'
    <3>1. replies \in Seq(Reply) /\ viewOk \in BOOLEAN
      BY <1>1 DEF TypeCall
    <3> QED
      BY <1>1, <1>2, <1>7, <1>8, <2>1, <2>4, <2>7, <2>9, <3>1, DeliverView
  <2>11. TypeCall' /\ TypeSolve'
    BY <1>1, <1>2, <1>4, <2>1, <2>10 DEF TypeCall, TypeSolve
  <2>12. WorkInv'
    BY <1>2, <1>3, <1>4, <2>1, <2>8 DEF WorkInv
  <2> QED
    BY <1>5, <1>6, <2>10, <2>11, <2>12, Together
<1>10. CASE Head(cmds).kind = "shutdown"
  <2>1. pc' = "gone" /\ replies' = replies /\ Idle'
    BY <1>10 DEF Serve, Idle
  <2>2. Outstanding = 0 /\ Outstanding' = 0 /\ cmds' = <<>>
    BY <1>3, <1>4, <1>10 DEF Outstanding, Closing
  <2>3. ~Asked
    BY <1>1, <2>2 DEF Asked, TypeCall
  <2>4. ViewInv'
    BY <1>1, <1>2, <1>7, <1>8, <2>1, <2>2, <2>3, ViewSame DEF TypeCall
  <2>5. TypeCall' /\ TypeSolve'
    BY <1>1, <1>2, <1>4, <2>1 DEF TypeCall, TypeSolve
  <2>6. WorkInv'
    BY <1>2, <1>3, <1>4, <2>1, <2>2 DEF WorkInv
  <2> QED
    BY <1>5, <1>6, <2>4, <2>5, <2>6, Together
<1> QED
  BY <1>2, <1>4, <1>9, <1>10, Edits

-----------------------------------------------------------------------------
(* The caller. *)

\* A step of the caller leaves the worker's state.
LEMMA CallerStep ==
  ASSUME IInv, UNCHANGED worker, TypeCall', WorkInv', ViewInv'
  PROVE  IInv'
<1>1. TypeFlow /\ TypeSolve /\ SnapshotInv
  BY Parts
<1>2. TypeFlow' /\ TypeSolve'
  BY <1>1 DEF TypeFlow, TypeSolve, worker
<1>3. SnapshotInv'
  BY <1>1 DEF SnapshotInv, Current, worker
<1> QED
  BY <1>2, <1>3, Together

LEMMA SameWorker ==
  ASSUME UNCHANGED worker
  PROVE  RoundStart' = RoundStart /\ SnapshotReply' = SnapshotReply /\ (Idle' <=> Idle)
         /\ Busy' = Busy /\ cmd' = cmd /\ log' = log /\ pc' = pc
  BY DEF worker, RoundStart, Start, SnapshotReply, Visible, Idle, Busy

\* A command is sent to an engine that is not closing.
LEMMA SendOf ==
  ASSUME IInv, NEW c \in Command, c.kind # "shutdown", Send(c)
  PROVE  /\ UNCHANGED worker /\ WorkInv' /\ cmds' \in Seq(Command) /\ sent' \in 0 .. MaxRounds
         /\ replies \in Seq(Reply) /\ replies' \in Seq(Reply)
         /\ Len(replies) \in Nat /\ Len(replies') = Len(replies) + 1
         /\ replies'[Len(replies) + 1] = Waiting /\ \A i \in 1 .. Len(replies) : replies'[i] = replies[i]
         /\ Outstanding \in Nat /\ Outstanding' = Outstanding + 1 /\ LastAsked' = c
         /\ AllChanges /\ AsksChanges(c) => AllChanges'
<1>1. TypeCall /\ TypeSolve /\ WorkInv
  BY Parts
<1>2. /\ Ready /\ ~Closed /\ sent < MaxRounds /\ cmds' = Append(cmds, c) /\ replies' = Append(replies, Waiting)
      /\ sent' = sent + 1 /\ UNCHANGED worker
  BY DEF Send
<1>3. cmds \in Seq(Command) /\ replies \in Seq(Reply) /\ sent \in 0 .. MaxRounds /\ Waiting \in Reply
  BY <1>1 DEF TypeCall, Reply
<1>4. /\ Len(cmds) \in Nat /\ cmds' \in Seq(Command) /\ Len(cmds') = Len(cmds) + 1 /\ cmds' # <<>>
      /\ cmds'[Len(cmds) + 1] = c /\ \A i \in 1 .. Len(cmds) : cmds'[i] = cmds[i]
  BY <1>2, <1>3
<1>5. /\ Len(replies) \in Nat /\ replies' \in Seq(Reply) /\ Len(replies') = Len(replies) + 1
      /\ replies'[Len(replies) + 1] = Waiting /\ \A i \in 1 .. Len(replies) : replies'[i] = replies[i]
  BY <1>2, <1>3
<1>6. sent' \in 0 .. MaxRounds
  BY <1>2, <1>3, StructureAssumption
<1>7. pc # "gone" /\ \A i \in 1 .. Len(cmds) : cmds[i].kind # "shutdown"
  BY <1>2 DEF Closed
<1>8. Closing = 0 /\ Closing' = 0
  <2>1. cmds # <<>> => Len(cmds) \in 1 .. Len(cmds)
    BY <1>3, <1>4
  <2>2. cmds'[Len(cmds')].kind # "shutdown"
    BY <1>4
  <2> QED
    BY <1>7, <2>1, <2>2 DEF Closing
<1>9. Outstanding \in Nat /\ Outstanding' = Outstanding + 1
  BY <1>2, <1>3, <1>4, <1>8, CountType, SameWorker DEF Outstanding
<1>10. LastAsked' = c
  BY <1>4, <1>8 DEF LastAsked
<1>11. ASSUME NEW i \in 1 .. Len(cmds') PROVE cmds'[i] = c \/ \E j \in 1 .. Len(cmds) : cmds'[i] = cmds[j]
  <2>1. i \in 1 .. Len(cmds) \/ i = Len(cmds) + 1
    BY <1>4
  <2> QED
    BY <1>4, <2>1
<1>12. AllChanges /\ AsksChanges(c) => AllChanges'
  BY <1>2, <1>11, SameWorker DEF AllChanges, AsksChanges
<1>13. \A i \in 1 .. Len(cmds') : cmds'[i].kind # "shutdown"
  BY <1>7, <1>11
<1>14. ~(~Idle /\ cmd = NoCmd)
  BY <1>1, <1>2 DEF WorkInv, Ready, Idle
<1>15. WorkInv'
  BY <1>1, <1>2, <1>7, <1>13, <1>14, SameWorker DEF WorkInv
<1> QED
  BY <1>2, <1>3, <1>4, <1>5, <1>6, <1>9, <1>10, <1>12, <1>15

LEMMA Commands ==
  /\ \A edits \in Batch : \A w \in {"changes", "snapshot"} :
       [kind |-> "edit", edits |-> edits, reply |-> w] \in Command
  /\ \A k \in {"snapshot", "shutdown"} : [kind |-> k] \in Command
<1>1. \A edits \in Batch : \A w \in {"changes", "snapshot"} :
        [kind |-> "edit", edits |-> edits, reply |-> w]
          \in [kind : {"edit"}, edits : Batch, reply : {"changes", "snapshot"}]
  OBVIOUS
<1>2. \A k \in {"snapshot", "shutdown"} : [kind |-> k] \in [kind : {"snapshot", "shutdown"}]
  OBVIOUS
<1> QED
  BY <1>1, <1>2 DEF Command

LEMMA SubmitHolds ==
  ASSUME IInv, NEW edits \in Batch, Submit(edits)
  PROVE  IInv'
<1>1. TypeCall /\ ViewInv
  BY Parts
<1>2. PICK c \in Command : c = [kind |-> "edit", edits |-> edits, reply |-> "changes"] /\ AsksChanges(c) /\ c.kind # "shutdown"
  BY Commands DEF AsksChanges
<1>3. viewOk /\ Send(c) /\ UNCHANGED <<view, viewOk>>
  BY <1>2 DEF Submit
<1>4. /\ UNCHANGED worker /\ WorkInv' /\ cmds' \in Seq(Command) /\ sent' \in 0 .. MaxRounds
      /\ replies \in Seq(Reply) /\ replies' \in Seq(Reply)
      /\ Len(replies) \in Nat /\ Len(replies') = Len(replies) + 1
      /\ replies'[Len(replies) + 1] = Waiting /\ \A i \in 1 .. Len(replies) : replies'[i] = replies[i]
      /\ Outstanding \in Nat /\ Outstanding' = Outstanding + 1
      /\ AllChanges => AllChanges'
  BY <1>2, <1>3, SendOf
<1>5. TypeCall'
  BY <1>1, <1>3, <1>4, SameWorker DEF TypeCall
<1>6. PICK n \in 0 .. Len(replies) : \E hist \in [0 .. n -> Views] : Follows(n, hist)
  BY <1>1, <1>3 DEF ViewInv
<1>7. PICK hist \in [0 .. n -> Views] : Follows(n, hist)
  BY <1>6
<1>8. Linked(n, hist) /\ hist[n] = RoundStart /\ Len(replies) - n = Outstanding
  BY <1>7 DEF Follows
<1>9. hist[n] = RoundStart' /\ Len(replies') - n = Outstanding' /\ n \in 0 .. Len(replies')
  BY <1>4, <1>8, SameWorker
<1>10. \A i \in 1 .. n : replies'[i] = replies[i]
  BY <1>4
<1>11. \A i \in n + 1 .. Len(replies') : replies'[i] = Waiting
  <2> TAKE i \in n + 1 .. Len(replies')
  <2>1. i \in n + 1 .. Len(replies) \/ i = Len(replies) + 1
    BY <1>4
  <2>2. ASSUME i \in n + 1 .. Len(replies) PROVE replies'[i] = replies[i] /\ replies[i] = Waiting
    BY <1>4, <1>8, <2>2 DEF Linked
  <2> QED
    BY <1>4, <2>1, <2>2
<1>12. Linked(n, hist)'
  <2>1. hist[0] = view'
    BY <1>3, <1>8 DEF Linked
  <2>2. \A i \in 1 .. n : /\ replies'[i].kind = "changes" /\ Exact(hist[i - 1], replies'[i].cells)
                          /\ hist[i] = Applied(hist[i - 1], replies'[i].cells)
    BY <1>8, <1>10 DEF Linked
  <2> QED
    BY <1>11, <2>1, <2>2 DEF Linked, Exact, Applied
<1>13. ViewInv'
  BY <1>1, <1>3, <1>4, <1>9, <1>12 DEF ViewInv, Follows
<1> QED
  BY <1>4, <1>5, <1>13, CallerStep

\* A caller that waits for nothing has dropped whatever is outstanding.
LEMMA NoPendingOf ==
  ASSUME IInv, NoPending
  PROVE  AllDropped
<1>1. TypeCall /\ ViewInv /\ replies \in Seq(Reply) /\ Len(replies) \in Nat /\ Dropped # Waiting
  BY Parts DEF TypeCall, Dropped, Waiting
<1>2. CASE viewOk
  <2>1. PICK n \in 0 .. Len(replies) : \E hist \in [0 .. n -> Views] : Follows(n, hist)
    BY <1>1, <1>2 DEF ViewInv
  <2>2. PICK hist \in [0 .. n -> Views] : Follows(n, hist)
    BY <2>1
  <2>3. \A i \in 1 .. Len(replies) : replies[i] # Dropped
    <3> TAKE i \in 1 .. Len(replies)
    <3>1. CASE i \in 1 .. n
      <4>1. replies[i].kind = "changes"
        BY <2>2, <3>1 DEF Follows, Linked
      <4> QED
        BY <4>1 DEF Dropped
    <3>2. CASE i \notin 1 .. n
      <4>1. i \in n + 1 .. Len(replies)
        BY <1>1, <3>2
      <4> QED
        BY <1>1, <2>2, <4>1 DEF Follows, Linked
    <3> QED
      BY <3>1, <3>2
  <2>4. Len(replies) = 0
    <3>1. SUFFICES ASSUME Len(replies) # 0 PROVE FALSE
      OBVIOUS
    <3>2. 1 \in 1 .. Len(replies)
      BY <1>1, <3>1
    <3> QED
      BY <2>3, <3>2 DEF NoPending
  <2>5. n = 0 /\ Outstanding = 0
    <3>1. n = 0 /\ Len(replies) - n = Outstanding
      BY <2>2, <2>4 DEF Follows
    <3> QED
      BY <2>4, <3>1
  <2> QED
    BY <2>4, <2>5 DEF AllDropped
<1>3. CASE ~viewOk
  <2>1. AllDropped \/ Asked \/ Given
    BY <1>1, <1>3 DEF ViewInv
  <2>2. ~Asked
    <3>1. replies # <<>> => Len(replies) \in 1 .. Len(replies)
      BY <1>1
    <3> QED
      BY <1>1, <3>1 DEF Asked, NoPending
  <2>3. ~Given
    <3>1. SUFFICES ASSUME Given PROVE FALSE
      OBVIOUS
    <3>2. replies = <<SnapshotReply>> /\ 1 \in 1 .. Len(replies)
      BY <3>1 DEF Given
    <3>3. SnapshotReply = Dropped
      BY <3>2 DEF NoPending
    <3> QED
      BY <3>3 DEF SnapshotReply, Dropped
  <2> QED
    BY <2>1, <2>2, <2>3
<1> QED
  BY <1>2, <1>3

\* A call that waits for a snapshot.
LEMMA AskHolds ==
  ASSUME IInv, NEW c \in Command, AsksSnapshot(c), NoPending, Send(c), viewOk' = FALSE, UNCHANGED view
  PROVE  IInv'
<1>1. TypeCall /\ AllDropped /\ c.kind # "shutdown"
  BY Parts, NoPendingOf DEF AsksSnapshot
<1>2. /\ UNCHANGED worker /\ WorkInv' /\ cmds' \in Seq(Command) /\ sent' \in 0 .. MaxRounds
      /\ replies \in Seq(Reply) /\ replies' \in Seq(Reply)
      /\ Len(replies) \in Nat /\ Len(replies') = Len(replies) + 1
      /\ replies'[Len(replies) + 1] = Waiting /\ \A i \in 1 .. Len(replies) : replies'[i] = replies[i]
      /\ Outstanding' = Outstanding + 1 /\ LastAsked' = c
  BY <1>1, SendOf
<1>3. TypeCall'
  BY <1>1, <1>2, SameWorker DEF TypeCall
<1>4. \A i \in 1 .. Len(replies') - 1 : replies'[i] = Dropped
  <2> TAKE i \in 1 .. Len(replies') - 1
  <2>1. i \in 1 .. Len(replies)
    BY <1>2
  <2> QED
    BY <1>1, <1>2, <2>1 DEF AllDropped
<1>5. replies'[Len(replies')] = Waiting /\ replies' # <<>> /\ Len(replies') = Outstanding'
  BY <1>1, <1>2 DEF AllDropped
<1>6. Asked'
  BY <1>2, <1>4, <1>5 DEF Asked, AsksSnapshot
<1>7. ViewInv'
  BY <1>6 DEF ViewInv
<1> QED
  BY <1>2, <1>3, <1>7, CallerStep

LEMMA ApplyHolds ==
  ASSUME IInv, NEW edits \in Batch, Apply(edits)
  PROVE  IInv'
<1>1. PICK c \in Command : c = [kind |-> "edit", edits |-> edits, reply |-> "snapshot"] /\ AsksSnapshot(c)
  BY Commands DEF AsksSnapshot
<1> QED
  BY <1>1, AskHolds DEF Apply

LEMMA AskSnapshotHolds ==
  ASSUME IInv, AskSnapshot
  PROVE  IInv'
<1>1. PICK c \in Command : c = [kind |-> "snapshot"] /\ AsksSnapshot(c)
  BY Commands DEF AsksSnapshot
<1> QED
  BY <1>1, AskHolds DEF AskSnapshot

LEMMA DropEngineHolds ==
  ASSUME IInv, DropEngine
  PROVE  IInv'
<1>1. TypeCall /\ WorkInv /\ ViewInv
  BY Parts
<1>2. PICK c \in Command : c = [kind |-> "shutdown"] /\ c.kind = "shutdown"
  BY Commands
<1>3. Ready /\ ~Closed /\ cmds' = Append(cmds, c) /\ UNCHANGED worker /\ UNCHANGED <<replies, view, viewOk, sent>>
  BY <1>2 DEF DropEngine
<1>4. /\ Len(cmds) \in Nat /\ cmds' \in Seq(Command) /\ Len(cmds') = Len(cmds) + 1 /\ cmds' # <<>>
      /\ cmds'[Len(cmds) + 1] = c /\ \A i \in 1 .. Len(cmds) : cmds'[i] = cmds[i]
  BY <1>1, <1>3 DEF TypeCall
<1>5. pc # "gone" /\ \A i \in 1 .. Len(cmds) : cmds[i].kind # "shutdown"
  BY <1>3 DEF Closed
<1>6. Closing = 0 /\ Closing' = 1
  <2>1. cmds # <<>> => Len(cmds) \in 1 .. Len(cmds)
    BY <1>1, <1>4 DEF TypeCall
  <2>2. cmds'[Len(cmds')].kind = "shutdown"
    BY <1>2, <1>4
  <2> QED
    BY <1>4, <1>5, <2>1, <2>2 DEF Closing
<1>7. Outstanding' = Outstanding
  <2>1. Busy \in {0, 1} /\ Busy' = Busy
    BY <1>3, SameWorker DEF Busy
  <2> QED
    BY <1>4, <1>6, <2>1 DEF Outstanding
<1>8. LastAsked' = LastAsked
  <2>1. Len(cmds') - Closing' = Len(cmds) /\ Len(cmds) - Closing = Len(cmds)
    BY <1>4, <1>6
  <2>2. Len(cmds) > 0 => cmds'[Len(cmds)] = cmds[Len(cmds)]
    BY <1>4
  <2> QED
    BY <1>3, <2>1, <2>2, SameWorker DEF LastAsked
<1>9. ASSUME NEW i \in 1 .. Len(cmds')
      PROVE  (i = Len(cmds') /\ cmds'[i] = c) \/ \E j \in 1 .. Len(cmds) : cmds'[i] = cmds[j]
  <2>1. i \in 1 .. Len(cmds) \/ i = Len(cmds) + 1
    BY <1>4
  <2> QED
    BY <1>4, <2>1
<1>10. AllChanges => AllChanges'
  BY <1>2, <1>3, <1>9, SameWorker DEF AllChanges, AsksChanges
<1>11. \A i \in 1 .. Len(cmds') : cmds'[i].kind = "shutdown" => i = Len(cmds')
  BY <1>5, <1>9
<1>12. ~(~Idle /\ cmd = NoCmd)
  BY <1>1, <1>3 DEF WorkInv, Ready, Idle
<1>13. WorkInv'
  BY <1>1, <1>3, <1>5, <1>11, <1>12, SameWorker DEF WorkInv
<1>14. TypeCall'
  BY <1>1, <1>3, <1>4, SameWorker DEF TypeCall
<1>15. ViewInv'
  BY <1>1, <1>3, <1>7, <1>8, <1>10, SameWorker, ViewSame DEF TypeCall, Given
<1> QED
  BY <1>3, <1>13, <1>14, <1>15, CallerStep

LEMMA TakeHolds ==
  ASSUME IInv, Take
  PROVE  IInv'
<1>1. TypeFlow /\ TypeCall /\ WorkInv /\ ViewInv
  BY Parts
<1>2. /\ replies # <<>> /\ Head(replies).kind \in {"changes", "snapshot"} /\ replies' = Tail(replies)
      /\ UNCHANGED worker /\ UNCHANGED <<cmds, sent>>
  BY DEF Take
<1>3. /\ replies \in Seq(Reply) /\ Len(replies) \in Nat /\ Len(replies) # 0 /\ Head(replies) = replies[1]
      /\ replies' \in Seq(Reply) /\ Len(replies') = Len(replies) - 1
      /\ \A i \in 1 .. Len(replies') : replies'[i] = replies[i + 1]
  BY <1>1, <1>2 DEF TypeCall
<1>4. replies[1] # Waiting /\ replies[1] # Dropped /\ 1 \in 1 .. Len(replies)
  BY <1>2, <1>3 DEF Waiting, Dropped
<1>5. Outstanding' = Outstanding /\ (AllChanges => AllChanges') /\ RoundStart' = RoundStart
  BY <1>2, SameWorker DEF Outstanding, Closing, AllChanges, AsksChanges
<1>6. CASE viewOk
  <2>1. PICK n \in 0 .. Len(replies) : \E hist \in [0 .. n -> Views] : Follows(n, hist)
    BY <1>1, <1>6 DEF ViewInv
  <2>2. PICK hist \in [0 .. n -> Views] : Follows(n, hist)
    BY <2>1
  <2>3. PICK l \in Nat : l = Len(replies) /\ Len(replies') = l - 1 /\ n \in 0 .. l
    BY <1>3
  <2>4. n # 0
    <3>1. SUFFICES ASSUME n = 0 PROVE FALSE
      OBVIOUS
    <3>2. 1 \in n + 1 .. Len(replies)
      BY <1>4, <3>1
    <3> QED
      BY <1>4, <2>2, <3>2 DEF Follows, Linked
  <2>5. PICK p \in Nat : n = p + 1 /\ p \in 0 .. l - 1
    <3>1. n - 1 \in Nat /\ n = (n - 1) + 1 /\ n - 1 \in 0 .. l - 1
      BY <2>3, <2>4
    <3> QED
      BY <3>1
  <2>6. \A i \in 1 .. p + 1 : /\ replies[i].kind = "changes" /\ Exact(hist[i - 1], replies[i].cells)
                              /\ hist[i] = Applied(hist[i - 1], replies[i].cells)
    BY <2>2, <2>5 DEF Follows, Linked
  <2>7. replies[1].kind = "changes" /\ hist[1] = Applied(hist[0], replies[1].cells) /\ hist[0] = view
    <3>1. 1 \in 1 .. p + 1 /\ 1 - 1 = 0
      BY <2>5
    <3>2. hist[0] = view
      BY <2>2 DEF Follows, Linked
    <3> QED
      BY <2>6, <3>1, <3>2
  <2>8. view' = hist[1] /\ viewOk' = viewOk
    BY <1>3, <2>7 DEF Take
  <2>9. PICK h \in [0 .. p -> Views] : \A i \in 0 .. p : h[i] = hist[i + 1]
    <3> DEFINE w == [i \in 0 .. p |-> hist[i + 1]]
    <3>1. \A i \in 0 .. p : i + 1 \in 0 .. n
      BY <2>5
    <3>2. w \in [0 .. p -> Views]
      BY <3>1
    <3>3. \A i \in 0 .. p : w[i] = hist[i + 1]
      OBVIOUS
    <3> HIDE DEF w
    <3> QED
      BY <3>2, <3>3
  <2>10. \A i \in 1 .. p : /\ replies'[i].kind = "changes" /\ Exact(h[i - 1], replies'[i].cells)
                           /\ h[i] = Applied(h[i - 1], replies'[i].cells)
    <3> TAKE i \in 1 .. p
    <3>1. i \in 1 .. l - 1 /\ i + 1 \in 1 .. p + 1 /\ i \in 0 .. p /\ i - 1 \in 0 .. p
          /\ (i - 1) + 1 = i /\ (i + 1) - 1 = i
      BY <2>5
    <3>2. replies'[i] = replies[i + 1] /\ h[i] = hist[i + 1] /\ h[i - 1] = hist[i]
      BY <1>3, <2>3, <2>9, <3>1
    <3> QED
      BY <2>6, <3>1, <3>2
  <2>11. \A i \in p + 1 .. Len(replies') : replies'[i] = Waiting
    <3> TAKE i \in p + 1 .. Len(replies')
    <3>1. i \in 1 .. l - 1 /\ i + 1 \in n + 1 .. l
      BY <2>3, <2>5
    <3> QED
      BY <1>3, <2>2, <2>3, <3>1 DEF Follows, Linked
  <2>12. h[0] = view'
    <3>1. 0 \in 0 .. p /\ 0 + 1 = 1
      BY <2>5
    <3> QED
      BY <2>8, <2>9, <3>1
  <2>13. Linked(p, h)'
    BY <2>10, <2>11, <2>12 DEF Linked, Exact, Applied
  <2>14. h[p] = RoundStart'
    <3>1. p \in 0 .. p
      BY <2>5
    <3> QED
      BY <1>5, <2>2, <2>5, <2>9, <3>1 DEF Follows
  <2>15. Len(replies') - p = Outstanding'
    <3>1. l - n = Outstanding
      BY <2>2, <2>3 DEF Follows
    <3> QED
      BY <1>5, <2>3, <2>5, <3>1
  <2>16. p \in 0 .. Len(replies')
    BY <2>3, <2>5
  <2>17. ViewInv'
    BY <1>1, <1>5, <1>6, <2>8, <2>13, <2>14, <2>15, <2>16 DEF ViewInv, Follows
  <2>18. view' \in Views
    <3>1. 1 \in 0 .. n
      BY <2>5
    <3> QED
      BY <2>8, <3>1
  <2>19. TypeCall'
    BY <1>1, <1>2, <1>3, <2>8, <2>18, SameWorker DEF TypeCall
  <2>20. WorkInv'
    <3>1. ~(~Idle /\ cmd = NoCmd)
      BY <1>1, <1>6 DEF WorkInv
    <3> QED
      BY <1>1, <1>2, <3>1, SameWorker DEF WorkInv
  <2> QED
    BY <1>2, <2>17, <2>19, <2>20, CallerStep
<1>7. CASE ~viewOk
  <2>1. Given
    <3>1. ~AllDropped
      BY <1>4 DEF AllDropped
    <3>2. ~Asked
      <4>1. SUFFICES ASSUME Asked PROVE FALSE
        OBVIOUS
      <4>2. Len(replies) = 1 \/ 1 \in 1 .. Len(replies) - 1
        BY <1>3
      <4> QED
        BY <1>4, <4>1, <4>2 DEF Asked
    <3> QED
      BY <1>1, <1>7, <3>1, <3>2 DEF ViewInv
  <2>2. replies = <<SnapshotReply>> /\ Outstanding = 0 /\ Idle /\ replies[1] = SnapshotReply
    BY <2>1 DEF Given
  <2>3. view' = Visible(snapshot) /\ viewOk' = TRUE /\ replies' = <<>>
    BY <1>2, <1>3, <2>2 DEF Take, SnapshotReply
  <2>4. cmd = NoCmd /\ log = None
    BY <1>1, <2>2 DEF WorkInv
  <2>5. AllChanges
    <3>1. Len(cmds) \in Nat /\ Closing \in {0, 1} /\ Len(cmds) - Closing \in Nat
      BY <1>1, CountType DEF TypeCall
    <3>2. Len(cmds) = Closing
      BY <2>2, <2>4, <3>1 DEF Outstanding, Busy
    <3>3. \A i \in 1 .. Len(cmds) : cmds[i].kind = "shutdown"
      <4> TAKE i \in 1 .. Len(cmds)
      <4>1. i = 1 /\ Len(cmds) = 1 /\ Closing = 1
        BY <3>1, <3>2
      <4> QED
        BY <4>1 DEF Closing
    <3> QED
      BY <2>4, <3>3 DEF AllChanges
  <2>6. RoundStart = Visible(snapshot)
    BY <1>1, <2>4, StartNone DEF RoundStart, TypeFlow
  <2>7. view' \in Views
    BY <1>1, <2>3, VisibleType
  <2>8. PICK h \in [0 .. 0 -> Views] : h[0] = view'
    <3> DEFINE w == [i \in 0 .. 0 |-> view']
    <3>1. w \in [0 .. 0 -> Views] /\ w[0] = view'
      BY <2>7
    <3> HIDE DEF w
    <3> QED
      BY <3>1
  <2>9. Follows(0, h)'
    <3>1. Len(replies') = 0
      BY <2>3
    <3>2. Linked(0, h)'
      BY <2>8, <3>1 DEF Linked
    <3> QED
      BY <1>5, <2>2, <2>3, <2>6, <2>8, <3>1, <3>2 DEF Follows
  <2>10. 0 \in 0 .. Len(replies')
    BY <2>3
  <2>11. PICK n \in 0 .. Len(replies') : n = 0
    BY <2>10
  <2>12. h \in [0 .. n -> Views] /\ Follows(n, h)'
    BY <2>9, <2>11
  <2>13. ViewInv'
    BY <1>5, <2>3, <2>5, <2>12 DEF ViewInv
  <2>14. TypeCall'
    BY <1>1, <1>2, <1>3, <2>3, <2>7, SameWorker DEF TypeCall
  <2>15. WorkInv'
    BY <1>1, <1>2, <2>2, SameWorker DEF WorkInv
  <2> QED
    BY <1>2, <2>13, <2>14, <2>15, CallerStep
<1> QED
  BY <1>6, <1>7

LEMMA DropPendingHolds ==
  ASSUME IInv, DropPending
  PROVE  IInv'
<1>1. TypeCall /\ WorkInv /\ ViewInv /\ replies \in Seq(Reply) /\ Len(replies) \in Nat
  BY Parts DEF TypeCall
<1>2. /\ viewOk /\ viewOk' = FALSE /\ UNCHANGED worker /\ UNCHANGED <<cmds, view, sent>>
      /\ replies' = [i \in 1 .. Cardinality(Unanswered) |-> Dropped]
  BY DEF DropPending
<1>3. PICK n \in 0 .. Len(replies) : \E hist \in [0 .. n -> Views] : Follows(n, hist)
  BY <1>1, <1>2 DEF ViewInv
<1>4. PICK hist \in [0 .. n -> Views] : Follows(n, hist)
  BY <1>3
<1>5. Unanswered = n + 1 .. Len(replies)
  <2>1. ASSUME NEW i \in 1 .. n PROVE replies[i] \notin {Waiting, Dropped}
    <3>1. replies[i] \in Reply
      BY <1>1
    <3>2. replies[i].kind = "changes"
      BY <1>4 DEF Follows, Linked
    <3> QED
      BY <3>1, <3>2, Kinds
  <2>2. \A i \in n + 1 .. Len(replies) : replies[i] = Waiting
    BY <1>4 DEF Follows, Linked
  <2>3. \A i \in 1 .. Len(replies) : i \in 1 .. n \/ i \in n + 1 .. Len(replies)
    BY <1>1
  <2>4. \A i \in n + 1 .. Len(replies) : i \in 1 .. Len(replies)
    BY <1>1
  <2> QED
    BY <2>1, <2>2, <2>3, <2>4 DEF Unanswered
<1>6. Cardinality(Unanswered) = Outstanding /\ Outstanding \in Nat
  <2>1. n + 1 \in Int /\ Len(replies) \in Int
    BY <1>1
  <2>2. Cardinality(n + 1 .. Len(replies)) = IF n + 1 > Len(replies) THEN 0 ELSE Len(replies) - (n + 1) + 1
    BY <2>1, FS_Interval
  <2>3. Len(replies) - n = Outstanding
    BY <1>4 DEF Follows
  <2> QED
    BY <1>1, <1>5, <2>2, <2>3
<1>7. PICK o \in Nat : o = Outstanding /\ replies' = [i \in 1 .. o |-> Dropped]
  BY <1>2, <1>6
<1>8. replies' \in Seq(Reply) /\ Len(replies') = o /\ \A i \in 1 .. o : replies'[i] = Dropped
  BY <1>7 DEF Reply
<1>9. Outstanding' = Outstanding
  BY <1>2, SameWorker DEF Outstanding, Closing
<1>10. ViewInv'
  BY <1>2, <1>7, <1>8, <1>9 DEF ViewInv, AllDropped
<1>11. TypeCall'
  BY <1>1, <1>2, <1>8, SameWorker DEF TypeCall
<1>12. WorkInv'
  <2>1. ~(~Idle /\ cmd = NoCmd)
    BY <1>1, <1>2 DEF WorkInv
  <2> QED
    BY <1>1, <1>2, <2>1, SameWorker DEF WorkInv
<1> QED
  BY <1>2, <1>10, <1>11, <1>12, CallerStep

-----------------------------------------------------------------------------
(* The theorems. *)

LEMMA InitHolds ==
  ASSUME Init
  PROVE  IInv
<1>1. PICK in \in Seed : sess = [m \in Session |-> IF m \in Input THEN in[m] ELSE Empty]
  BY DEF Init
<1>2. sess \in [Session -> Cells]
  BY <1>1, EmptyType, StructureAssumption
<1>3. Evaluate(sess) \in [Measure -> Cells] /\ Flow \subseteq Measure /\ Flow \subseteq Shown
  BY <1>2, EvaluateType DEF Measure, Shown
<1>4. snapshot = [m \in Shown |-> IF m \in Flow THEN Evaluate(sess)[m] ELSE Empty]
  BY DEF Init
<1>5. snapshot \in [Shown -> Cells]
  BY <1>3, <1>4, EmptyType
<1>6. TypeFlow
  BY <1>2, <1>3, <1>5 DEF TypeFlow, Init
<1>7. TypeSolve
  <2>1. 1 \in 1 .. Len(Fixes) + 1
    BY StructureAssumption
  <2>2. Empty \in Cells
    BY EmptyType
  <2> QED
    BY <2>1, <2>2 DEF TypeSolve, Init
<1>8. TypeCall
  <2>1. view \in Views
    BY EmptyType DEF Init, Views
  <2>2. 0 \in 0 .. MaxRounds
    BY StructureAssumption
  <2>3. cmds \in Seq(Command) /\ replies \in Seq(Reply)
    <3>1. <<>> \in Seq(Command) /\ <<>> \in Seq(Reply)
      OBVIOUS
    <3>2. cmds = <<>> /\ replies = <<>>
      BY DEF Init
    <3> QED
      BY <3>1, <3>2
  <2>4. viewOk \in BOOLEAN /\ cmd = NoCmd /\ sent = 0
    BY DEF Init
  <2> QED
    BY <2>1, <2>2, <2>3, <2>4 DEF TypeCall
<1>9. SnapshotInv
  <2>1. Current(sess, snapshot) /\ flowed = sess
    BY <1>3, <1>4 DEF Current, Init
  <2>2. ASSUME NEW f \in Fix
        PROVE  snapshot[Fixes[f].id] = result[f] /\ sess[Fixes[f].id] = result[f]
    <3>1. Fixes[f].id \in Shown \ Flow /\ Fixes[f].id \in Session \ Input
      BY FixOf, StructureAssumption
    <3> QED
      BY <1>1, <1>4, <3>1 DEF Init
  <2> QED
    BY <2>1, <2>2 DEF SnapshotInv
<1>10. ~Idle /\ cmd = NoCmd /\ cmds = <<>> /\ replies = <<>> /\ ~viewOk /\ log = None /\ sent = 0
  BY DEF Init, Idle
<1>11. WorkInv
  BY <1>10 DEF WorkInv, Idle
<1>12. Outstanding = 0
  BY <1>10 DEF Outstanding, Closing, Busy
<1>13. ViewInv
  BY <1>10, <1>12 DEF ViewInv, AllDropped
<1> QED
  BY <1>6, <1>7, <1>8, <1>9, <1>11, <1>13, TypeParts DEF IInv

LEMMA StepHolds ==
  ASSUME IInv, [Next]_vars
  PROVE  IInv'
<1>1. CASE Round
  BY <1>1, RoundHolds
<1>2. CASE Skip
  BY <1>2, SkipHolds
<1>3. CASE Solve
  BY <1>3, SolveHolds
<1>4. CASE Iterate
  BY <1>4, IterateHolds
<1>5. CASE OutOfRounds
  BY <1>5, OutOfRoundsHolds
<1>6. CASE Publish
  BY <1>6, PublishHolds
<1>7. CASE Answer
  BY <1>7, AnswerHolds
<1>8. CASE Serve
  BY <1>8, ServeHolds
<1>9. ASSUME NEW edits \in Batch, Submit(edits) \/ Apply(edits) PROVE IInv'
  BY <1>9, SubmitHolds, ApplyHolds
<1>10. CASE AskSnapshot
  BY <1>10, AskSnapshotHolds
<1>11. CASE Take
  BY <1>11, TakeHolds
<1>12. CASE DropPending
  BY <1>12, DropPendingHolds
<1>13. CASE DropEngine
  BY <1>13, DropEngineHolds
<1>14. CASE UNCHANGED vars
  <2>1. UNCHANGED worker /\ UNCHANGED <<cmds, replies, view, viewOk, sent>>
    BY <1>14 DEF vars
  <2>2. TypeCall /\ WorkInv /\ ViewInv
    BY Parts
  <2>3. TypeCall' /\ WorkInv'
    BY <2>1, <2>2, SameWorker DEF TypeCall, WorkInv
  <2>4. /\ Outstanding' = Outstanding /\ LastAsked' = LastAsked
        /\ AllChanges => AllChanges'
    BY <2>1, SameWorker DEF Outstanding, Closing, LastAsked, AllChanges, AsksChanges
  <2>5. ViewInv'
    BY <2>1, <2>2, <2>4, SameWorker, ViewSame DEF TypeCall, Given
  <2> QED
    BY <2>1, <2>3, <2>5, CallerStep
<1> QED
  BY <1>1, <1>2, <1>3, <1>4, <1>5, <1>6, <1>7, <1>8, <1>9, <1>10, <1>11, <1>12, <1>13, <1>14
  DEF Next, Done

\* The inductive invariant holds: the dataflow is advanced over everything fed to it, the
\* log is relative to where the round began, and every reply outstanding is accounted for.
THEOREM Invariant == Spec => []IInv
<1>1. Init => IInv
  BY InitHolds
<1>2. IInv /\ [Next]_vars => IInv'
  BY StepHolds
<1> QED
  BY <1>1, <1>2, PTL DEF Spec

\* Every variable of the engine and its caller keeps its type.
THEOREM TypeCorrect == Spec => []TypeOK
<1>1. IInv => TypeOK
  BY DEF IInv
<1> QED
  BY <1>1, Invariant, PTL

\* Between rounds the snapshot kept by deltas of the components each round fed is what
\* every plan gives over all the cells fed, and every FIXPOINT reads as its result.
THEOREM SnapshotIsCurrent == Spec => []SnapshotCurrent
<1>1. IInv => SnapshotCurrent
  BY DEF IInv, SnapshotInv, Current, SnapshotCurrent
<1> QED
  BY <1>1, Invariant, PTL

\* A caller that applies each reply's changes has the snapshot once it has taken them all,
\* whatever it submitted while replies were outstanding.
THEOREM ViewKept == Spec => []ViewFollows
<1>1. ASSUME IInv, viewOk, replies = <<>>, Idle PROVE view = Visible(snapshot)
  <2>1. TypeFlow /\ WorkInv /\ ViewInv
    BY <1>1, Parts
  <2>2. PICK n \in 0 .. Len(replies) : \E hist \in [0 .. n -> Views] : Follows(n, hist)
    BY <1>1, <2>1 DEF ViewInv
  <2>3. PICK hist \in [0 .. n -> Views] : Follows(n, hist)
    BY <2>2
  <2>4. n = 0
    BY <1>1, <2>2
  <2>5. view = RoundStart
    BY <2>3, <2>4 DEF Follows, Linked
  <2>6. log = None
    BY <1>1, <2>1 DEF WorkInv
  <2> QED
    BY <2>1, <2>5, <2>6, StartNone DEF RoundStart, TypeFlow
<1>2. IInv => ViewFollows
  BY <1>1 DEF ViewFollows, Idle
<1> QED
  BY <1>2, Invariant, PTL

\* Every change a caller takes is one: its old value is what the caller's view has for the
\* cell, and its new value is another.
THEOREM ExactChanges == Spec => []ChangesAreExact
<1>1. ASSUME IInv, viewOk, replies # <<>>, Head(replies).kind = "changes"
      PROVE  Exact(view, Head(replies).cells)
  <2>1. ViewInv /\ replies \in Seq(Reply)
    BY <1>1, Parts DEF TypeCall
  <2>2. PICK n \in 0 .. Len(replies) : \E hist \in [0 .. n -> Views] : Follows(n, hist)
    BY <1>1, <2>1 DEF ViewInv
  <2>3. PICK hist \in [0 .. n -> Views] : Follows(n, hist)
    BY <2>2
  <2>4. Head(replies) = replies[1] /\ Len(replies) \in Nat /\ 1 \in 1 .. Len(replies)
    BY <1>1, <2>1
  <2>5. n # 0
    <3>1. SUFFICES ASSUME n = 0 PROVE FALSE
      OBVIOUS
    <3>2. 1 \in n + 1 .. Len(replies)
      BY <2>4, <3>1
    <3>3. replies[1] = Waiting
      BY <2>3, <3>2 DEF Follows, Linked
    <3> QED
      BY <1>1, <2>4, <3>3 DEF Waiting
  <2>6. 1 \in 1 .. n /\ 1 - 1 = 0
    BY <2>4, <2>5
  <2> QED
    BY <2>3, <2>4, <2>6 DEF Follows, Linked
<1>2. IInv => ChangesAreExact
  BY <1>1 DEF ChangesAreExact, Exact
<1> QED
  BY <1>2, Invariant, PTL

-----------------------------------------------------------------------------
(* The FIXPOINTs: the invariant. *)

\* n steps of f, as things are now, lead from start to y.
Reaches(f, start, n, y) ==
  \E w \in [0 .. n -> Cells] :
    w[0] = start /\ w[n] = y /\ \A k \in 1 .. n : w[k] = HostStep(f, w[k - 1])

\* y is a step of f from an iterate within the tolerance.
Converged(f, y) == \E it \in Cells : HostStep(f, it) = y /\ Close(it, y, Fixes[f].tolerance)

\* The result is its solve's, as things are now.
Settled(f) ==
  /\ conv[f] => Converged(f, result[f])
  /\ ~conv[f] => Reaches(f, first[f], Fixes[f].maxIter, result[f])

\* Solved once, and nothing its body reads has changed since the round began.
Clean(f) == first[f] # None /\ Fixes[f].reads \cap dirty = {}

\* A FIXPOINT whose body the host evaluates is settled once the round has passed it, and
\* before that as long as it is clean.
HostInv == \A f \in Fix : Host(f) =>
  /\ f < fix => first[f] = InitOf(f)
  /\ f < fix \/ Clean(f) => Settled(f)

Solving(f) == f = fix /\ pc \in {"iterate", "publish"}

\* One whose body is a dataflow: the last iterate fed is near the result, which is the
\* body's output once the round has passed it.
FlowInv == \A f \in Fix : Fixes[f].body \in Flow =>
  /\ conv[f] /\ ~Solving(f) => Close(sess[Fixes[f].r], result[f], Fixes[f].tolerance)
  /\ conv[f] /\ f < fix => BodyOf(f) = result[f]

\* How far the solve is.
SolvingInv ==
  /\ pc = "iterate" /\ Host(fix) /\ attempt = "cold" =>
       left <= Fixes[fix].maxIter /\ Reaches(fix, InitOf(fix), Fixes[fix].maxIter - left, x)
  /\ pc = "publish" /\ Host(fix) =>
       IF left > 0 THEN Converged(fix, x) ELSE Reaches(fix, InitOf(fix), Fixes[fix].maxIter, x)
  /\ pc = "publish" /\ Fixes[fix].body \in Flow /\ left > 0 =>
       Close(sess[Fixes[fix].r], x, Fixes[fix].tolerance) /\ BodyOf(fix) = x

SolveInv == (Idle => fix \notin Fix) /\ HostInv /\ FlowInv /\ SolvingInv

-----------------------------------------------------------------------------
(* The build order. *)

\* A measure and what its plan reads.
SelfContained(A) == \A m \in Flow \cap A : Reads[m] \subseteq A

\* What the i-th plan may rest on: the plans before it, and the sessions of the FIXPOINTs
\* whose parts are before it.
Above(i) ==
  {n \in Measure \cup UNION {Reads[m] : m \in Flow} :
     IF n \in Planned THEN n \in Earlier(i)
     ELSE \A f \in Fix : n \in {Fixes[f].id, Fixes[f].r} => Fixes[f].body \in Earlier(i)}

LEMMA Orders == Len(Order) \in Nat /\ Len(Fixes) \in Nat /\ Flow \subseteq Planned /\ Shown \subseteq Measure
  BY StructureAssumption DEF Flow, Shown, Measure, Session, FixIds

LEMMA AboveClosed ==
  ASSUME NEW i \in 1 .. Len(Order)
  PROVE  SelfContained(Above(i))
<1> SUFFICES ASSUME NEW m \in Flow, m \in Above(i), NEW n \in Reads[m]
             PROVE  n \in Above(i)
  BY DEF SelfContained
<1>1. PICK j \in 1 .. i - 1 : m = Order[j]
  BY Orders DEF Above, Earlier
<1>2. j \in 1 .. Len(Order) /\ Earlier(j) \subseteq Earlier(i) /\ m \in Earlier(i)
  BY <1>1, Orders DEF Earlier
<1>3. n \in UNION {Reads[k] : k \in Flow}
  OBVIOUS
<1>4. CASE n \in Planned
  BY <1>1, <1>2, <1>3, <1>4, BuildOrderAssumption DEF Above
<1>5. CASE n \notin Planned
  <2>1. ASSUME NEW f \in Fix, n \in {Fixes[f].id, Fixes[f].r} PROVE Fixes[f].body \in Earlier(i)
    BY <1>1, <1>2, <2>1, BuildOrderAssumption
  <2> QED
    BY <1>3, <1>5, <2>1 DEF Above
<1> QED
  BY <1>4, <1>5

\* The step of a FIXPOINT has a place, the parts of the FIXPOINTs before it come first, and
\* those from it on do not.
LEMMA PlaceOf ==
  ASSUME NEW f \in Fix
  PROVE  \E i \in 1 .. Len(Order) :
           /\ Order[i] = Fixes[f].body /\ Fixes[f].init \in Earlier(i)
           /\ \A h \in Fix : Fixes[h].body \in Earlier(i) <=> h < f
<1>1. PICK i \in 1 .. Len(Order) : Order[i] = Fixes[f].body
  BY StructureAssumption DEF Planned
<1>2. f \in Nat /\ \A h \in Fix : h \in Nat /\ (h < f => h \in 1 .. f - 1)
  BY Orders DEF Fix
<1>3. \A h \in Fix : h < f => Fixes[h].body \in Earlier(i)
  BY <1>1, <1>2, BuildOrderAssumption
<1>4. Fixes[f].body \notin Earlier(i) /\ Fixes[f].init \in Earlier(i)
  BY <1>1, BuildOrderAssumption
<1>5. ASSUME NEW h \in Fix, f < h PROVE Fixes[h].body \notin Earlier(i)
  <2> SUFFICES ASSUME NEW k \in 1 .. i - 1, Order[k] = Fixes[h].body PROVE FALSE
    BY DEF Earlier
  <2>1. k \in 1 .. Len(Order) /\ Earlier(k) \subseteq Earlier(i)
    BY Orders DEF Earlier
  <2>2. f \in 1 .. h - 1
    BY <1>2, <1>5, Orders DEF Fix
  <2>3. Fixes[f].body \in Earlier(k)
    BY <2>1, <2>2, BuildOrderAssumption
  <2> QED
    BY <1>4, <2>1, <2>3
<1>6. \A h \in Fix : h < f \/ h = f \/ f < h
  BY <1>2
<1> QED
  BY <1>1, <1>2, <1>3, <1>4, <1>5, <1>6

\* Each FIXPOINT has a step of its own.
LEMMA Bodies ==
  ASSUME NEW f \in Fix, NEW h \in Fix, f # h
  PROVE  Fixes[f].body # Fixes[h].body
<1>1. PICK i \in 1 .. Len(Order) :
           Order[i] = Fixes[f].body /\ \A g \in Fix : Fixes[g].body \in Earlier(i) <=> g < f
  BY PlaceOf
<1>2. PICK k \in 1 .. Len(Order) :
           Order[k] = Fixes[h].body /\ \A g \in Fix : Fixes[g].body \in Earlier(k) <=> g < h
  BY PlaceOf
<1>3. h < f \/ f < h
  BY Orders DEF Fix
<1> QED
  BY <1>1, <1>2, <1>3, BuildOrderAssumption

\* What a FIXPOINT starts from and its step reads, but its iterate, rests on nothing of it
\* or of those after it.
LEMMA UpstreamOf ==
  ASSUME NEW f \in Fix
  PROVE  \E A : /\ SelfContained(A) /\ Fixes[f].init \in A
                /\ \A m \in Reads[Fixes[f].body] : m # Fixes[f].r /\ m \in Measure => m \in A
                /\ \A h \in Fix : ~(h < f) => Fixes[h].id \notin A /\ Fixes[h].r \notin A
<1>1. PICK i \in 1 .. Len(Order) :
           /\ Order[i] = Fixes[f].body /\ Fixes[f].init \in Earlier(i)
           /\ \A h \in Fix : Fixes[h].body \in Earlier(i) <=> h < f
  BY PlaceOf
<1>2. Fixes[f].init \in Above(i)
  BY <1>1, FixOf, Orders DEF Above, Measure
<1>3. ASSUME NEW h \in Fix, ~(h < f) PROVE Fixes[h].id \notin Above(i) /\ Fixes[h].r \notin Above(i)
  <2>1. Fixes[h].id \notin Planned /\ Fixes[h].r \notin Planned
    BY FixOf, StructureAssumption
  <2> QED
    BY <1>1, <1>3, <2>1 DEF Above
<1>4. ASSUME NEW m \in Reads[Fixes[f].body], m # Fixes[f].r, m \in Measure PROVE m \in Above(i)
  <2>1. CASE m \in Planned
    BY <1>1, <1>4, <2>1, BuildOrderAssumption DEF Above
  <2>2. CASE m \notin Planned
    <3>1. ASSUME NEW h \in Fix, m \in {Fixes[h].id, Fixes[h].r} PROVE Fixes[h].body \in Earlier(i)
      <4>1. CASE m = Fixes[h].id
        BY <1>1, <4>1, BuildOrderAssumption
      <4>2. CASE m = Fixes[h].r
        <5>1. Fixes[h].body = Fixes[f].body /\ h # f
          BY <1>1, <1>4, <4>2, BuildOrderAssumption
        <5> QED
          BY <5>1, Bodies
      <4> QED
        BY <3>1, <4>1, <4>2
    <3> QED
      BY <1>4, <2>2, <3>1 DEF Above
  <2> QED
    BY <2>1, <2>2
<1> QED
  BY <1>2, <1>3, <1>4, AboveClosed

\* The step itself rests on its iterate too.
LEMMA StepRestsOn ==
  ASSUME NEW f \in Fix, Fixes[f].body \in Flow
  PROVE  \E A : /\ SelfContained(A) /\ Fixes[f].body \in A
                /\ \A h \in Fix : ~(h < f) => Fixes[h].id \notin A /\ (h # f => Fixes[h].r \notin A)
<1>1. PICK i \in 1 .. Len(Order) :
           /\ Order[i] = Fixes[f].body /\ Fixes[f].init \in Earlier(i)
           /\ \A h \in Fix : Fixes[h].body \in Earlier(i) <=> h < f
  BY PlaceOf
<1> DEFINE A == Above(i) \cup {Fixes[f].body, Fixes[f].r}
<1>2. ASSUME NEW h \in Fix, ~(h < f) PROVE Fixes[h].id \notin A /\ (h # f => Fixes[h].r \notin A)
  <2>1. Fixes[h].id \notin Planned /\ Fixes[h].r \notin Planned
    BY FixOf, StructureAssumption
  <2>2. Fixes[f].body \in Planned
    BY StructureAssumption
  <2>3. Fixes[h].id # Fixes[f].r /\ (h # f => Fixes[h].r # Fixes[f].r)
    BY StructureAssumption
  <2>4. Fixes[h].id \notin Above(i) /\ Fixes[h].r \notin Above(i)
    BY <1>1, <1>2, <2>1 DEF Above
  <2> QED
    BY <2>1, <2>2, <2>3, <2>4
<1>3. ASSUME NEW m \in Reads[Fixes[f].body], m # Fixes[f].r PROVE m \in Above(i)
  <2>1. m \in UNION {Reads[k] : k \in Flow}
    OBVIOUS
  <2>2. CASE m \in Planned
    BY <1>1, <2>1, <2>2, BuildOrderAssumption DEF Above
  <2>3. CASE m \notin Planned
    <3>1. ASSUME NEW h \in Fix, m \in {Fixes[h].id, Fixes[h].r} PROVE Fixes[h].body \in Earlier(i)
      <4>1. CASE m = Fixes[h].id
        BY <1>1, <4>1, BuildOrderAssumption
      <4>2. CASE m = Fixes[h].r
        <5>1. Fixes[h].id \in Session /\ Fixes[h].r \in Measure
          BY FixOf
        <5>2. Fixes[h].r \in UNION {Reads[k] : k \in Flow}
          BY <2>1, <4>2
        <5>3. PICK B : /\ SelfContained(B)
                       /\ \A k \in Reads[Fixes[f].body] : k # Fixes[f].r /\ k \in Measure => k \in B
                       /\ \A g \in Fix : ~(g < f) => Fixes[g].id \notin B /\ Fixes[g].r \notin B
          BY UpstreamOf
        <5>4. h < f
          BY <1>3, <4>2, <5>1, <5>3
        <5> QED
          BY <1>1, <5>4
      <4> QED
        BY <3>1, <4>1, <4>2
    <3> QED
      BY <2>1, <2>3, <3>1 DEF Above
  <2> QED
    BY <2>2, <2>3
<1>4. SelfContained(A)
  <2> SUFFICES ASSUME NEW m \in Flow, m \in A PROVE Reads[m] \subseteq A
    BY DEF SelfContained
  <2>1. Fixes[f].r \notin Flow
    BY FixOf, Orders, StructureAssumption
  <2>2. CASE m = Fixes[f].body
    BY <1>3, <2>2
  <2>3. CASE m \in Above(i)
    BY <2>3, AboveClosed DEF SelfContained
  <2> QED
    BY <2>1, <2>2, <2>3
<1> QED
  BY <1>2, <1>4

\* Every plan is over the cells of the whole evaluation, not of the plans before it alone.
LEMMA EvaluateFixed ==
  ASSUME NEW s
  PROVE  /\ DOMAIN Evaluate(s) = Measure
         /\ \A m \in Session : Evaluate(s)[m] = s[m]
         /\ \A m \in Flow : Evaluate(s)[m] = Plan(m, Sees(m, Evaluate(s)))
<1>1. PICK u : /\ Evaluate(s) = u[Len(Order)]
               /\ \A i \in 0 .. Len(Order) : u[i] = Step(s, i, u[i - 1])
  BY EvaluateRuns
<1>2. \A i \in 0 .. Len(Order) : DOMAIN u[i] = Measure
  BY <1>1 DEF Step
<1>3. Len(Order) \in Nat
  BY Orders
\* A plan's cells stay as they are once it was evaluated, and a session's from the start.
<1>4. ASSUME NEW m \in Measure, NEW k \in 0 .. Len(Order), \A i \in k + 1 .. Len(Order) : Order[i] # m \/ m \notin Flow
      PROVE  \A i \in k .. Len(Order) : u[i][m] = u[k][m]
  <2> DEFINE Bad == {i \in k .. Len(Order) : u[i][m] # u[k][m]}
  <2> SUFFICES ASSUME Bad # {} PROVE FALSE
    OBVIOUS
  <2>1. Bad \in SUBSET Nat
    BY <1>3
  <2>2. PICK i \in Bad : \A j \in Bad : i <= j
    <3> HIDE DEF Bad
    <3> QED
      BY <2>1, Least
  <2>3. i \in k .. Len(Order) /\ i # k /\ u[i][m] # u[k][m]
    BY <2>2
  <2>4. i - 1 \in k .. Len(Order) /\ i \in k + 1 .. Len(Order) /\ i # 0
    BY <1>3, <2>3
  <2>5. i - 1 \notin Bad
    BY <2>2, <2>4
  <2>6. u[i - 1][m] = u[k][m]
    BY <2>4, <2>5
  <2>7. u[i] = Step(s, i, u[i - 1])
    BY <1>1, <1>3, <2>4
  <2>8. u[i][m] = u[i - 1][m]
    BY <1>4, <2>4, <2>7 DEF Step
  <2> QED
    BY <2>3, <2>6, <2>8
<1>5. ASSUME NEW m \in Session PROVE Evaluate(s)[m] = s[m]
  <2>1. m \notin Flow /\ m \in Measure
    BY Orders, StructureAssumption DEF Measure
  <2>2. u[0][m] = s[m]
    <3>1. PICK e : u[0] = Step(s, 0, e)
      BY <1>1, <1>3
    <3> QED
      BY <2>1, <3>1 DEF Step
  <2>3. u[Len(Order)][m] = u[0][m]
    BY <1>3, <1>4, <2>1
  <2> QED
    BY <1>1, <2>2, <2>3
<1>6. ASSUME NEW m \in Flow PROVE Evaluate(s)[m] = Plan(m, Sees(m, Evaluate(s)))
  <2>1. PICK i \in 1 .. Len(Order) : Order[i] = m
    BY Orders DEF Planned
  <2>2. i \in 0 .. Len(Order) /\ i - 1 \in 0 .. Len(Order) /\ i # 0 /\ m \in Measure
    BY <1>3 DEF Measure
  <2>3. u[i][m] = Plan(m, Sees(m, u[i - 1]))
    BY <1>1, <2>1, <2>2 DEF Step
  <2>4. \A j \in i + 1 .. Len(Order) : Order[j] # m
    BY <1>3, <2>1, BuildOrderAssumption DEF Earlier
  <2>5. u[Len(Order)][m] = u[i][m]
    BY <1>3, <1>4, <2>2, <2>4
  <2>6. ASSUME NEW n \in Reads[m] \cap Measure PROVE u[Len(Order)][n] = u[i - 1][n]
    <3>1. ASSUME NEW j \in i .. Len(Order), Order[j] = n, n \in Flow PROVE FALSE
      <4>1. n \in Earlier(i) /\ Order[j] \notin Earlier(j) /\ j \in 1 .. Len(Order)
        BY <1>3, <2>1, <3>1, Orders, BuildOrderAssumption
      <4>2. Earlier(i) \subseteq Earlier(j)
        BY <1>3 DEF Earlier
      <4> QED
        BY <3>1, <4>1, <4>2
    <3>2. \A j \in (i - 1) + 1 .. Len(Order) : Order[j] # n \/ n \notin Flow
      BY <1>3, <3>1
    <3> QED
      BY <1>3, <1>4, <2>2, <3>2
  <2>7. Sees(m, u[Len(Order)]) = Sees(m, u[i - 1])
    BY <1>2, <1>3, <2>2, <2>6 DEF Sees
  <2> QED
    BY <1>1, <2>3, <2>5, <2>7
<1> QED
  BY <1>1, <1>2, <1>3, <1>5, <1>6

-----------------------------------------------------------------------------
(* What a step of the dataflow leaves alone. *)

LEMMA RunToMoves ==
  ASSUME TypeFlow, SnapshotInv, NEW s \in [Session -> Cells],
         NEW fed \in SUBSET Measure, \A m \in Session \ fed : s[m] = sess[m],
         NEW shown \in [Shown -> Cells], \A m \in Flow : shown[m] = snapshot[m],
         NEW d, NEW b, RunTo(s, fed, d, b, shown)
  PROVE  /\ sess' = s /\ snapshot' \in [Shown -> Cells]
         /\ d \subseteq dirty' /\ \A m \in Shown : m \notin dirty' => snapshot'[m] = shown[m]
         /\ \A m \in Shown \ Flow : snapshot'[m] = shown[m]
<1>1. Current(sess, shown)
  BY DEF SnapshotInv, Current
<1>2. /\ sess' = s /\ snapshot' \in [Shown -> Cells] /\ Current(s, snapshot')
      /\ \A m \in Shown \ Flow : snapshot'[m] = shown[m]
  BY <1>1, RunToCurrent DEF TypeFlow, SnapshotInv
<1>3. PICK adv, next : /\ snapshot' = next /\ dirty' = d \cup Moved(shown, next, Flow \cap adv)
                       /\ \A m \in Shown : m \notin Flow \cap adv => next[m] = shown[m]
  <2> DEFINE adv == Advanced(fed)
             to == [m \in Session |-> IF m \in adv THEN s[m] ELSE flowed[m]]
             out == Evaluate(to)
             next == [m \in Shown |-> IF m \in Flow \cap adv THEN out[m] ELSE shown[m]]
  <2>1. snapshot' = next /\ dirty' = d \cup Moved(shown, next, Flow \cap adv)
    BY DEF RunTo
  <2>2. \A m \in Shown : m \notin Flow \cap adv => next[m] = shown[m]
    OBVIOUS
  <2> HIDE DEF adv, to, out, next
  <2> QED
    BY <2>1, <2>2
<1>4. \A m \in Shown : m \notin dirty' => snapshot'[m] = shown[m]
  BY <1>3 DEF Moved
<1> QED
  BY <1>2, <1>3, <1>4

\* A closed set nothing was fed of is not moved.
LEMMA RunToLeaves ==
  ASSUME TypeFlow, SnapshotInv, NEW s \in [Session -> Cells],
         NEW fed \in SUBSET Measure, \A m \in Session \ fed : s[m] = sess[m],
         NEW shown \in [Shown -> Cells], \A m \in Flow : shown[m] = snapshot[m],
         NEW d, NEW b, RunTo(s, fed, d, b, shown),
         NEW A, SelfContained(A), A \cap fed = {}, NEW m \in Flow, m \in A
  PROVE  snapshot'[m] = shown[m]
<1>1. Current(sess, shown)
  BY DEF SnapshotInv, Current
<1>2. Current(s, snapshot')
  BY <1>1, RunToCurrent DEF TypeFlow, SnapshotInv
<1>3. \A n \in Session \cap A : sess[n] = s[n]
  OBVIOUS
<1>4. \A n \in Flow \cap A : Reads[n] \subseteq A
  BY DEF SelfContained
<1>5. m \in Measure \cap A
  BY DEF Measure
<1>6. \A k \in Measure \cap A : Evaluate(sess)[k] = Evaluate(s)[k]
  BY <1>3, <1>4, EvaluateAgree
<1> QED
  BY <1>1, <1>2, <1>5, <1>6 DEF Current

\* A step of a FIXPOINT is what it was while what its body reads is.
LEMMA SameStep ==
  ASSUME NEW f \in Fix,
         \A m \in Reads[Fixes[f].body] : m # Fixes[f].r =>
           (m \in Input => sess'[m] = sess[m]) /\ (m \in Shown \ Input => snapshot'[m] = snapshot[m])
  PROVE  \A it : HostStep(f, it)' = HostStep(f, it)
<1> TAKE it
<1> DEFINE R == Reads[Fixes[f].body]
           e == [m \in R |->
                   CASE m = Fixes[f].r -> it
                     [] m # Fixes[f].r /\ m \in Input -> sess[m]
                     [] m # Fixes[f].r /\ m \in Shown \ Input -> snapshot[m]
                     [] OTHER -> Empty]
           g == [m \in R |->
                   CASE m = Fixes[f].r -> it
                     [] m # Fixes[f].r /\ m \in Input -> sess'[m]
                     [] m # Fixes[f].r /\ m \in Shown \ Input -> snapshot'[m]
                     [] OTHER -> Empty]
<1>1. \A m \in R : e[m] = g[m]
  <2> TAKE m \in R
  <2>1. CASE m = Fixes[f].r
    BY <2>1
  <2>2. CASE m # Fixes[f].r /\ m \in Input
    BY <2>2
  <2>3. CASE m # Fixes[f].r /\ m \in Shown \ Input
    BY <2>3
  <2>4. CASE m # Fixes[f].r /\ m \notin Input /\ m \notin Shown
    BY <2>4
  <2> QED
    BY <2>1, <2>2, <2>3, <2>4
<1>2. DOMAIN e = R /\ DOMAIN g = R /\ e = [m \in R |-> e[m]] /\ g = [m \in R |-> g[m]]
  OBVIOUS
<1>3. HostStep(f, it) = Plan(Fixes[f].body, e) /\ HostStep(f, it)' = Plan(Fixes[f].body, g)
  BY DEF HostStep
<1> HIDE DEF e, g
<1>4. e = g
  BY <1>1, <1>2
<1> QED
  BY <1>3, <1>4

\* And so are the iterates.
LEMMA SameIterates ==
  ASSUME NEW f \in Fix, \A it : HostStep(f, it)' = HostStep(f, it)
  PROVE  /\ \A start, n, y : Reaches(f, start, n, y)' <=> Reaches(f, start, n, y)
         /\ \A y : Converged(f, y)' <=> Converged(f, y)
  BY DEF Reaches, Converged

LEMMA SameSettled ==
  ASSUME NEW f \in Fix, \A it : HostStep(f, it)' = HostStep(f, it),
         first'[f] = first[f], result'[f] = result[f], conv'[f] = conv[f]
  PROVE  Settled(f)' <=> Settled(f)
  BY SameIterates DEF Settled

-----------------------------------------------------------------------------
(* A step of the dataflow for the FIXPOINT fx: its iterate or its result is fed. *)

\* What is before a FIXPOINT, or of it, is not disturbed.
LEMMA BeforeKept ==
  ASSUME TypeFlow, SnapshotInv, NEW fx \in Fix, NEW n \in {Fixes[fx].id, Fixes[fx].r},
         NEW s \in [Session -> Cells], \A m \in Session : m # n => s[m] = sess[m],
         NEW shown \in [Shown -> Cells], \A m \in Shown : m # n => shown[m] = snapshot[m],
         NEW d, NEW b, RunTo(s, {n}, d, b, shown), NEW g \in Fix, ~(fx < g)
  PROVE  /\ \A it : HostStep(g, it)' = HostStep(g, it)
         /\ InitOf(g)' = InitOf(g)
         /\ Fixes[g].body \in Flow /\ n # Fixes[g].r => BodyOf(g)' = BodyOf(g)
<1>1. n \in Session /\ n \notin Input /\ n \notin Planned /\ n \notin Flow
  BY FixOf, Orders, StructureAssumption
<1>2. \A m \in Session \ {n} : s[m] = sess[m]
  OBVIOUS
<1>3. PICK fed \in SUBSET Measure : fed = {n}
  BY <1>1 DEF Measure
<1>4. \A m \in Flow : shown[m] = snapshot[m]
  BY <1>1, Orders DEF Shown
<1>5. RunTo(s, fed, d, b, shown) /\ \A m \in Session \ fed : s[m] = sess[m]
  BY <1>2, <1>3
<1>6. sess' = s /\ \A m \in Shown \ Flow : snapshot'[m] = shown[m]
  BY <1>2, <1>4, <1>5, RunToMoves
<1>7. PICK A : /\ SelfContained(A) /\ Fixes[g].init \in A
               /\ \A m \in Reads[Fixes[g].body] : m # Fixes[g].r /\ m \in Measure => m \in A
               /\ \A h \in Fix : ~(h < g) => Fixes[h].id \notin A /\ Fixes[h].r \notin A
  BY UpstreamOf
<1>9. n \notin A /\ A \cap fed = {}
  BY <1>3, <1>7
<1>10. ASSUME NEW m \in Shown, m \in A PROVE snapshot'[m] = snapshot[m]
  <2>1. CASE m \in Flow
    BY <1>2, <1>4, <1>5, <1>7, <1>9, <1>10, <2>1, RunToLeaves
  <2>2. CASE m \notin Flow
    BY <1>6, <1>9, <1>10, <2>2
  <2> QED
    BY <2>1, <2>2
<1>11. \A m \in Input : sess'[m] = sess[m]
  BY <1>1, <1>2, <1>6 DEF Session
<1>12. \A it : HostStep(g, it)' = HostStep(g, it)
  BY <1>7, <1>10, <1>11, SameStep, Orders
<1>13. InitOf(g)' = InitOf(g)
  BY <1>7, <1>10, FixOf DEF InitOf
<1>14. ASSUME Fixes[g].body \in Flow, n # Fixes[g].r PROVE BodyOf(g)' = BodyOf(g)
  <2>1. PICK B : /\ SelfContained(B) /\ Fixes[g].body \in B
                 /\ \A h \in Fix : ~(h < g) => Fixes[h].id \notin B /\ (h # g => Fixes[h].r \notin B)
    BY <1>14, StepRestsOn
  <2>2. B \cap fed = {}
    BY <1>3, <1>14, <2>1
  <2>3. snapshot'[Fixes[g].body] = shown[Fixes[g].body]
    BY <1>2, <1>4, <1>5, <1>14, <2>1, <2>2, RunToLeaves
  <2> QED
    BY <1>4, <1>14, <2>3 DEF BodyOf
<1> QED
  BY <1>12, <1>13, <1>14

\* Nor is what changed nothing a body reads.
LEMMA CleanKept ==
  ASSUME TypeFlow, SnapshotInv, NEW s \in [Session -> Cells],
         NEW fed \in SUBSET Measure, \A m \in Session \ fed : s[m] = sess[m],
         NEW shown \in [Shown -> Cells], \A m \in Flow : shown[m] = snapshot[m],
         NEW d, NEW b, RunTo(s, fed, d, b, shown),
         \A m \in Input : s[m] # sess[m] => m \in d,
         \A m \in Shown : shown[m] # snapshot[m] => m \in d,
         NEW g \in Fix, Fixes[g].reads \cap dirty' = {}
  PROVE  \A it : HostStep(g, it)' = HostStep(g, it)
<1>1. /\ sess' = s /\ d \subseteq dirty' /\ \A m \in Shown : m \notin dirty' => snapshot'[m] = shown[m]
  BY RunToMoves
<1>2. PICK i \in 1 .. Len(Order) : Order[i] = Fixes[g].body
  BY PlaceOf
<1>3. Reads[Fixes[g].body] \subseteq Fixes[g].reads \cup {Fixes[g].r}
  BY <1>2, BuildOrderAssumption
<1>4. \A m \in Reads[Fixes[g].body] : m # Fixes[g].r => m \notin dirty'
  BY <1>3
<1>5. \A m \in Reads[Fixes[g].body] : m # Fixes[g].r =>
           (m \in Input => sess'[m] = sess[m]) /\ (m \in Shown \ Input => snapshot'[m] = snapshot[m])
  BY <1>1, <1>4
<1> QED
  BY <1>5, SameStep

-----------------------------------------------------------------------------
(* The actions. *)

\* Steps that leave the solver alone.
LEMMA SolveSame ==
  ASSUME IInv, SolveInv, UNCHANGED <<sess, snapshot, dirty, fix, x, left, attempt, first, result, conv>>,
         pc' = pc \/ (pc' \in {"idle", "gone"} /\ pc # "idle" /\ fix \notin Fix) \/ (pc = "idle" /\ pc' = "gone")
  PROVE  SolveInv'
<1>1. \A f \in Fix : \A it : HostStep(f, it)' = HostStep(f, it)
  BY DEF HostStep
<1>2. \A f \in Fix : Settled(f)' <=> Settled(f)
  BY <1>1, SameSettled
<1>3. \A f \in Fix : /\ \A start, n, y : Reaches(f, start, n, y)' <=> Reaches(f, start, n, y)
                     /\ \A y : Converged(f, y)' <=> Converged(f, y)
                     /\ InitOf(f)' = InitOf(f) /\ BodyOf(f)' = BodyOf(f) /\ (Clean(f)' <=> Clean(f))
  BY <1>1, SameIterates DEF InitOf, BodyOf, Clean
<1>4. HostInv'
  BY <1>2, <1>3 DEF SolveInv, HostInv
<1>5. \A f \in Fix : Solving(f) => Solving(f)'
  BY Parts DEF Solving, TypeSolve
<1>6. FlowInv'
  BY <1>3, <1>5 DEF SolveInv, FlowInv
<1>7. pc' \in {"iterate", "publish"} => fix \in Fix /\ pc' = pc
  BY Parts DEF TypeSolve
<1>8. SolvingInv'
  <2> SUFFICES ASSUME pc' \in {"iterate", "publish"} PROVE SolvingInv'
    BY DEF SolvingInv
  <2>1. PICK f \in Fix : f = fix /\ fix' = f
    BY <1>7
  <2>2. SolvingInv /\ pc' = pc
    BY <1>7 DEF SolveInv
  <2> QED
    BY <1>3, <2>1, <2>2 DEF SolvingInv
<1>9. Idle' => fix' \notin Fix
  BY DEF SolveInv, Idle
<1> QED
  BY <1>4, <1>6, <1>8, <1>9 DEF SolveInv

\* A skipped FIXPOINT is settled.
LEMMA SkipSettles ==
  ASSUME IInv, SolveInv, Skip
  PROVE  SolveInv'
<1>1. PICK g \in Fix : g = fix
  BY DEF Skip
<1>2. /\ pc = "solve" /\ pc' = "solve" /\ fix' = g + 1 /\ first[g] = InitOf(g) /\ Same(g)
      /\ UNCHANGED <<sess, snapshot, dirty, first, result, conv>>
  BY <1>1 DEF Skip, Skippable
<1>3. TypeSolve /\ TypeFlow /\ InitOf(g) \in Cells
  BY Parts, CellsOf
<1>4. first[g] # None
  BY <1>2, <1>3, NoneAssumption
<1>5. \A f \in Fix : \A it : HostStep(f, it)' = HostStep(f, it)
  BY <1>2 DEF HostStep
<1>6. \A f \in Fix : Settled(f)' <=> Settled(f)
  BY <1>2, <1>5, SameSettled
<1>7. \A f \in Fix : InitOf(f)' = InitOf(f) /\ BodyOf(f)' = BodyOf(f) /\ (Clean(f)' <=> Clean(f))
  BY <1>2 DEF InitOf, BodyOf, Clean
<1>8. \A f \in Fix : f < fix' <=> f < fix \/ f = g
  BY <1>1, <1>2, Orders DEF Fix
<1>9. HostInv'
  <2> SUFFICES ASSUME NEW f \in Fix, Host(f)
               PROVE  (f < fix' => first'[f] = InitOf(f)') /\ (f < fix' \/ Clean(f)' => Settled(f)')
    BY DEF HostInv
  <2>1. (f < fix => first[f] = InitOf(f)) /\ (f < fix \/ Clean(f) => Settled(f))
    BY DEF SolveInv, HostInv
  <2>2. f = g => Clean(f)
    BY <1>2, <1>4 DEF Same, Clean
  <2> QED
    BY <1>2, <1>6, <1>7, <1>8, <2>1, <2>2
<1>10. FlowInv'
  <2> SUFFICES ASSUME NEW f \in Fix, Fixes[f].body \in Flow, conv'[f]
               PROVE  /\ ~Solving(f)' => Close(sess'[Fixes[f].r], result'[f], Fixes[f].tolerance)
                      /\ f < fix' => BodyOf(f)' = result'[f]
    BY DEF FlowInv
  <2>1. /\ ~Solving(f) => Close(sess[Fixes[f].r], result[f], Fixes[f].tolerance)
        /\ f < fix => BodyOf(f) = result[f]
    BY <1>2 DEF SolveInv, FlowInv
  <2>2. ~Solving(f)
    BY <1>2 DEF Solving
  <2>3. ~Host(f)
    BY DEF Host, Flow
  <2>4. f = g => BodyOf(f) = result[f]
    BY <1>2, <2>3 DEF Same
  <2> QED
    BY <1>2, <1>7, <1>8, <2>1, <2>2, <2>4
<1> QED
  BY <1>2, <1>9, <1>10 DEF SolveInv, SolvingInv, Idle

\* A solve begins from the first iterate, or from a warm one.
LEMMA FromFirst ==
  ASSUME NEW f \in Fix, NEW start \in Cells
  PROVE  Reaches(f, start, 0, start)
<1> DEFINE w == [k \in 0 .. 0 |-> start]
<1>1. w \in [0 .. 0 -> Cells] /\ w[0] = start /\ \A k \in 1 .. 0 : w[k] = HostStep(f, w[k - 1])
  OBVIOUS
<1> QED
  BY <1>1 DEF Reaches

LEMMA OneMore ==
  ASSUME NEW f \in Fix, NEW start, NEW n \in Nat, NEW y, Reaches(f, start, n, y), HostStep(f, y) \in Cells
  PROVE  Reaches(f, start, n + 1, HostStep(f, y))
<1>1. PICK w \in [0 .. n -> Cells] : w[0] = start /\ w[n] = y /\ \A k \in 1 .. n : w[k] = HostStep(f, w[k - 1])
  BY DEF Reaches
<1>2. PICK z \in Cells : z = HostStep(f, y)
  OBVIOUS
<1> DEFINE v == [k \in 0 .. n + 1 |-> IF k = n + 1 THEN z ELSE w[k]]
<1>3. v \in [0 .. n + 1 -> Cells] /\ v[0] = start /\ v[n + 1] = z
  BY <1>1
<1>4. ASSUME NEW k \in 1 .. n + 1 PROVE v[k] = HostStep(f, v[k - 1])
  <2>1. CASE k = n + 1
    <3>1. v[k - 1] = y /\ v[k] = z
      BY <1>1, <2>1
    <3> QED
      BY <1>2, <3>1
  <2>2. CASE k # n + 1
    <3>1. k \in 1 .. n /\ v[k] = w[k] /\ v[k - 1] = w[k - 1]
      BY <2>2
    <3> QED
      BY <1>1, <3>1
  <2> QED
    BY <2>1, <2>2
<1> HIDE DEF v
<1> QED
  BY <1>2, <1>3, <1>4 DEF Reaches

\* A step within a solve that feeds nothing.
LEMMA WithinSolve ==
  ASSUME IInv, SolveInv, UNCHANGED <<sess, snapshot, dirty, fix, first, result, conv>>,
         pc' \in {"iterate", "publish"}, SolvingInv'
  PROVE  SolveInv'
<1>1. \A f \in Fix : \A it : HostStep(f, it)' = HostStep(f, it)
  BY DEF HostStep
<1>2. \A f \in Fix : Settled(f)' <=> Settled(f)
  BY <1>1, SameSettled
<1>3. \A f \in Fix : InitOf(f)' = InitOf(f) /\ BodyOf(f)' = BodyOf(f) /\ (Clean(f)' <=> Clean(f))
  BY DEF InitOf, BodyOf, Clean
<1>4. HostInv'
  BY <1>2, <1>3 DEF SolveInv, HostInv
<1>5. \A f \in Fix : Solving(f) => Solving(f)'
  BY DEF Solving
<1>6. FlowInv'
  BY <1>3, <1>5 DEF SolveInv, FlowInv
<1> QED
  BY <1>4, <1>6 DEF SolveInv, Idle

\* Where the next state's solve is, from what leads there now.
LEMMA ReachedNext ==
  ASSUME NEW g \in Fix, \A it : HostStep(g, it)' = HostStep(g, it)
  PROVE  /\ Reaches(g, InitOf(g)', Fixes[g].maxIter - left', x')
              => Reaches(g, InitOf(g), Fixes[g].maxIter - left, x)'
         /\ Reaches(g, InitOf(g)', Fixes[g].maxIter, x')
              => Reaches(g, InitOf(g), Fixes[g].maxIter, x)'
         /\ Converged(g, x') => Converged(g, x)'
  BY DEF Reaches, Converged

LEMMA SolveBegins ==
  ASSUME IInv, SolveInv, Solve
  PROVE  SolveInv'
<1>1. PICK g \in Fix : g = fix
  BY DEF Solve
<1>2. /\ UNCHANGED <<sess, snapshot, dirty, fix, first, result, conv>>
      /\ pc' = "iterate" /\ left' = Fixes[g].maxIter /\ attempt' \in {"warm", "cold"}
      /\ attempt' = "cold" => x' = InitOf(g)
  BY <1>1 DEF Solve
<1>3. InitOf(g) \in Cells /\ InitOf(g)' = InitOf(g) /\ Fixes[g].maxIter \in Nat
  BY <1>2, CellsOf, StructureAssumption DEF InitOf
<1>4. \A it : HostStep(g, it)' = HostStep(g, it)
  BY <1>2 DEF HostStep
<1>5. attempt' = "cold" => Reaches(g, InitOf(g), Fixes[g].maxIter - left, x)'
  <2>1. Reaches(g, InitOf(g), 0, InitOf(g)) /\ Fixes[g].maxIter - Fixes[g].maxIter = 0
    BY <1>3, FromFirst
  <2> QED
    BY <1>2, <1>3, <1>4, <2>1, ReachedNext
<1>6. SolvingInv'
  BY <1>1, <1>2, <1>3, <1>5 DEF SolvingInv
<1> QED
  BY <1>2, <1>6, WithinSolve

LEMMA AttemptEnds ==
  ASSUME IInv, SolveInv, OutOfRounds
  PROVE  SolveInv'
<1>1. PICK g \in Fix : g = fix
  BY Parts DEF OutOfRounds, GiveUp, CutOff, TypeSolve
<1>2. UNCHANGED <<sess, snapshot, dirty, fix, first, result, conv>>
  BY DEF OutOfRounds
<1>3. InitOf(g) \in Cells /\ InitOf(g)' = InitOf(g) /\ Fixes[g].maxIter \in Nat
  BY <1>2, CellsOf, StructureAssumption DEF InitOf
<1>4. \A it : HostStep(g, it)' = HostStep(g, it)
  BY <1>2 DEF HostStep
<1>5. CASE GiveUp
  <2>1. pc' = "iterate" /\ left' = Fixes[g].maxIter /\ x' = InitOf(g)
    BY <1>1, <1>5 DEF GiveUp
  <2>2. Reaches(g, InitOf(g), 0, InitOf(g)) /\ Fixes[g].maxIter - Fixes[g].maxIter = 0
    BY <1>3, FromFirst
  <2>3. Reaches(g, InitOf(g), Fixes[g].maxIter - left, x)'
    BY <1>3, <1>4, <2>1, <2>2, ReachedNext
  <2>4. SolvingInv'
    BY <1>1, <1>2, <1>3, <2>1, <2>3 DEF SolvingInv
  <2> QED
    BY <1>2, <2>1, <2>4, WithinSolve
<1>6. CASE CutOff
  <2>1. pc = "iterate" /\ attempt = "cold" /\ left = 0 /\ pc' = "publish" /\ left' = 0 /\ x' = x
    BY <1>6 DEF CutOff, solver
  <2>2. Host(g) => Reaches(g, InitOf(g), Fixes[g].maxIter - 0, x)
    BY <1>1, <2>1 DEF SolveInv, SolvingInv
  <2>3. Host(g) => Reaches(g, InitOf(g), Fixes[g].maxIter, x)'
    <3>1. Fixes[g].maxIter - 0 = Fixes[g].maxIter
      BY <1>3
    <3> QED
      BY <1>3, <1>4, <2>1, <2>2, <3>1, ReachedNext
  <2>4. SolvingInv'
    BY <1>1, <1>2, <2>1, <2>3 DEF SolvingInv
  <2> QED
    BY <1>2, <2>1, <2>4, WithinSolve
<1> QED
  BY <1>5, <1>6 DEF OutOfRounds

LEMMA HostIterates ==
  ASSUME IInv, SolveInv, Iterate, Host(fix)
  PROVE  SolveInv'
<1>1. PICK g \in Fix : g = fix
  BY Parts DEF Iterate, TypeSolve
<1>2. /\ UNCHANGED <<sess, snapshot, dirty, fix, first, result, conv, attempt>>
      /\ pc = "iterate" /\ left > 0 /\ Host(g) /\ x' = HostStep(g, x)
      /\ IF Close(x, x', Fixes[g].tolerance) THEN pc' = "publish" /\ left' = left
         ELSE pc' = "iterate" /\ left' = left - 1
  BY <1>1 DEF Iterate, Remaining
<1>3. /\ InitOf(g) \in Cells /\ InitOf(g)' = InitOf(g) /\ Fixes[g].maxIter \in Nat /\ left \in Nat
      /\ x \in Cells /\ HostStep(g, x) \in Cells
  BY <1>2, Parts, CellsOf, HostStepType, StructureAssumption DEF InitOf, TypeSolve
<1>4. \A it : HostStep(g, it)' = HostStep(g, it)
  BY <1>2 DEF HostStep
<1>5. CASE Close(x, x', Fixes[g].tolerance)
  <2>1. Converged(g, x')
    BY <1>2, <1>3, <1>5 DEF Converged
  <2>2. Converged(g, x)'
    BY <1>4, <2>1, ReachedNext
  <2>3. Fixes[g].body \notin Flow
    BY <1>2 DEF Host, Flow
  <2>4. SolvingInv'
    BY <1>1, <1>2, <1>5, <2>2, <2>3 DEF SolvingInv
  <2> QED
    BY <1>2, <1>5, <2>4, WithinSolve
<1>6. CASE ~Close(x, x', Fixes[g].tolerance)
  <2>1. ASSUME attempt = "cold"
        PROVE  left' <= Fixes[g].maxIter /\ Reaches(g, InitOf(g), Fixes[g].maxIter - left, x)'
    <3>1. left <= Fixes[g].maxIter /\ Reaches(g, InitOf(g), Fixes[g].maxIter - left, x)
      BY <1>1, <1>2, <2>1 DEF SolveInv, SolvingInv
    <3>2. PICK n \in Nat : n = Fixes[g].maxIter - left
      BY <1>3, <3>1
    <3>3. Reaches(g, InitOf(g), n + 1, HostStep(g, x))
      BY <1>3, <3>1, <3>2, OneMore
    <3>4. n + 1 = Fixes[g].maxIter - left' /\ left' <= Fixes[g].maxIter
      BY <1>2, <1>3, <1>6, <3>1, <3>2
    <3>5. Reaches(g, InitOf(g), Fixes[g].maxIter - left', x')
      BY <1>2, <3>3, <3>4
    <3> QED
      BY <1>3, <1>4, <3>4, <3>5, ReachedNext
  <2>2. SolvingInv'
    BY <1>1, <1>2, <1>6, <2>1 DEF SolvingInv
  <2> QED
    BY <1>2, <1>6, <2>2, WithinSolve
<1> QED
  BY <1>5, <1>6

\* What is marked as changed: what was, and what shown is of another value in.
Marks(d, shown) == dirty \subseteq d /\ \A m \in Shown : shown[m] # snapshot[m] => m \in d

\* What the solve of fx feeds keeps the FIXPOINTs but fx as they were.
LEMMA OthersKept ==
  ASSUME IInv, SolveInv, NEW fx \in Fix, fx = fix, NEW n \in {Fixes[fx].id, Fixes[fx].r},
         NEW s \in [Session -> Cells], \A m \in Session : m # n => s[m] = sess[m],
         NEW shown \in [Shown -> Cells], \A m \in Shown : m # n => shown[m] = snapshot[m],
         NEW d, Marks(d, shown), NEW b, RunTo(s, {n}, d, b, shown),
         fix' \in {fx, fx + 1}, NEW f \in Fix, f # fx,
         result'[f] = result[f], conv'[f] = conv[f], first'[f] = first[f]
  PROVE  /\ Host(f) => /\ f < fix' => first'[f] = InitOf(f)'
                       /\ f < fix' \/ Clean(f)' => Settled(f)'
         /\ Fixes[f].body \in Flow /\ conv'[f] =>
              /\ Close(sess'[Fixes[f].r], result'[f], Fixes[f].tolerance)
              /\ f < fix' => BodyOf(f)' = result'[f]
<1>1. TypeFlow /\ SnapshotInv
  BY Parts
<1>2. n \in Session /\ n \in Measure /\ n \notin Input /\ n \notin Flow /\ n # Fixes[f].r
  BY FixOf, Orders, StructureAssumption
<1>3. \A m \in Flow : shown[m] = snapshot[m]
  BY <1>2 DEF Shown
<1>4. PICK fed \in SUBSET Measure : fed = {n}
  BY <1>2
<1>5. RunTo(s, fed, d, b, shown) /\ \A m \in Session \ fed : s[m] = sess[m]
  BY <1>4
<1>6. sess' = s /\ d \subseteq dirty'
  BY <1>1, <1>3, <1>5, RunToMoves
<1>7. dirty \subseteq d /\ \A m \in Shown : shown[m] # snapshot[m] => m \in d
  BY DEF Marks
<1>8. f < fix' <=> f < fix
  BY Orders DEF Fix
<1>9. CASE f < fix
  <2>1. ~(fx < f)
    BY <1>9, Orders DEF Fix
  <2>2. /\ \A it : HostStep(f, it)' = HostStep(f, it)
        /\ InitOf(f)' = InitOf(f)
        /\ Fixes[f].body \in Flow => BodyOf(f)' = BodyOf(f)
    BY <1>1, <1>2, <2>1, BeforeKept
  <2>3. Settled(f)' <=> Settled(f)
    BY <2>2, SameSettled
  <2>4. Host(f) => first[f] = InitOf(f) /\ Settled(f)
    BY <1>9 DEF SolveInv, HostInv
  <2>5. Fixes[f].body \in Flow /\ conv[f] =>
              /\ Close(sess[Fixes[f].r], result[f], Fixes[f].tolerance)
              /\ BodyOf(f) = result[f]
    BY <1>9 DEF SolveInv, FlowInv, Solving
  <2>6. sess'[Fixes[f].r] = sess[Fixes[f].r]
    BY <1>2, <1>6, FixOf
  <2> QED
    BY <2>2, <2>3, <2>4, <2>5, <2>6
<1>10. CASE ~(f < fix)
  <2>1. ASSUME Host(f), Clean(f)' PROVE Settled(f)'
    <3>1. Fixes[f].reads \cap dirty' = {} /\ Clean(f)
      BY <1>6, <1>7, <2>1 DEF Clean
    <3>2. \A m \in Input : s[m] = sess[m]
      BY <1>2 DEF Session
    <3>3. \A it : HostStep(f, it)' = HostStep(f, it)
      BY <1>1, <1>3, <1>5, <1>7, <3>1, <3>2, CleanKept
    <3>4. Settled(f)
      BY <2>1, <3>1 DEF SolveInv, HostInv
    <3> QED
      BY <3>3, <3>4, SameSettled
  <2>2. Fixes[f].body \in Flow /\ conv[f] => Close(sess[Fixes[f].r], result[f], Fixes[f].tolerance)
    BY DEF SolveInv, FlowInv, Solving
  <2>3. sess'[Fixes[f].r] = sess[Fixes[f].r]
    BY <1>2, <1>6, FixOf
  <2> QED
    BY <1>8, <1>10, <2>1, <2>2, <2>3
<1> QED
  BY <1>9, <1>10

LEMMA FlowIterates ==
  ASSUME IInv, SolveInv, Iterate, ~Host(fix)
  PROVE  SolveInv'
<1>1. PICK g \in Fix : g = fix
  BY Parts DEF Iterate, TypeSolve
<1>2. TypeFlow /\ TypeSolve /\ SnapshotInv
  BY Parts
<1>3. PICK n \in Session : n = Fixes[g].r
  BY FixOf
<1>4. PICK s \in [Session -> Cells] : s = [sess EXCEPT ![n] = x]
  BY <1>2, <1>3 DEF TypeFlow, TypeSolve
<1>5. s[n] = x /\ \A m \in Session : m # n => s[m] = sess[m]
  BY <1>2, <1>3, <1>4 DEF TypeFlow
<1>6. PICK shown \in [Shown -> Cells] : shown = snapshot
  BY <1>2 DEF TypeFlow
<1>7. RunTo(s, {n}, dirty, log, shown)
  BY <1>1, <1>3, <1>4, <1>6 DEF Iterate
<1>8. /\ UNCHANGED <<fix, first, result, conv>> /\ left > 0 /\ ~Host(g) /\ fix' = g
      /\ x' = IF Fixes[g].body \in Flow THEN snapshot'[Fixes[g].body] ELSE Empty
      /\ IF Close(x, x', Fixes[g].tolerance) THEN pc' = "publish" /\ left' = left
         ELSE pc' = "iterate" /\ left' = left - 1
  BY <1>1 DEF Iterate, Remaining
<1>9. sess'[n] = x
  <2>1. PICK fed \in SUBSET Measure : fed = {n}
    BY <1>3 DEF Measure
  <2>2. RunTo(s, fed, dirty, log, shown) /\ (\A m \in Session \ fed : s[m] = sess[m]) /\ \A m \in Flow : shown[m] = snapshot[m]
    BY <1>5, <1>6, <1>7, <2>1
  <2>3. sess' = s
    BY <1>2, <2>2, RunToMoves
  <2> QED
    BY <1>5, <2>3
<1>10. (\A m \in Shown : m # n => shown[m] = snapshot[m]) /\ Marks(dirty, shown)
  BY <1>6 DEF Marks
<1>11. ASSUME NEW f \in Fix, f # g
       PROVE  /\ Host(f) => /\ f < fix' => first'[f] = InitOf(f)'
                            /\ f < fix' \/ Clean(f)' => Settled(f)'
              /\ Fixes[f].body \in Flow /\ conv'[f] =>
                   /\ Close(sess'[Fixes[f].r], result'[f], Fixes[f].tolerance)
                   /\ f < fix' => BodyOf(f)' = result'[f]
  <2>1. result'[f] = result[f] /\ conv'[f] = conv[f] /\ first'[f] = first[f] /\ fix' \in {g, g + 1}
    BY <1>8
  <2>2. n \in {Fixes[g].id, Fixes[g].r}
    BY <1>3
  <2> QED
    BY <1>1, <1>5, <1>7, <1>10, <1>11, <2>1, <2>2, OthersKept
<1>12. ~(g < fix')
  BY <1>8, Orders DEF Fix
<1>13. HostInv'
  BY <1>8, <1>11, <1>12 DEF HostInv
<1>14. FlowInv'
  <2>1. Solving(g)'
    BY <1>8 DEF Solving
  <2> QED
    BY <1>11, <1>12, <2>1 DEF FlowInv
<1>15. SolvingInv'
  BY <1>3, <1>8, <1>9 DEF SolvingInv, BodyOf
<1>16. ~Idle'
  BY <1>8 DEF Idle
<1> QED
  BY <1>13, <1>14, <1>15, <1>16 DEF SolveInv

LEMMA PublishSettles ==
  ASSUME IInv, SolveInv, Publish
  PROVE  SolveInv'
<1>1. PICK g \in Fix : g = fix
  BY Parts DEF Publish, TypeSolve
<1>2. TypeFlow /\ TypeSolve /\ SnapshotInv /\ x \in Cells
  BY Parts DEF TypeSolve
<1>3. PICK n \in Session : n = Fixes[g].id /\ n \in Shown
  BY FixOf
<1>4. PICK s \in [Session -> Cells] : s = [sess EXCEPT ![n] = x]
  BY <1>2, <1>3 DEF TypeFlow
<1>5. \A m \in Session : m # n => s[m] = sess[m]
  BY <1>2, <1>3, <1>4 DEF TypeFlow
<1>6. PICK shown \in [Shown -> Cells] : shown = [snapshot EXCEPT ![n] = x]
  BY <1>2, <1>3 DEF TypeFlow
<1>7. PICK d : d = dirty \cup Moved(snapshot, shown, {n})
  OBVIOUS
<1>8. PICK b : RunTo(s, {n}, d, b, shown)
  BY <1>1, <1>3, <1>4, <1>6, <1>7 DEF Publish
<1>9. \A m \in Shown : m # n => shown[m] = snapshot[m]
  BY <1>2, <1>6 DEF TypeFlow
<1>10. Marks(d, shown)
  <2>1. \A m \in Shown : shown[m] # snapshot[m] => m = n
    BY <1>9
  <2>2. \A m \in Shown : m = n /\ shown[m] # snapshot[m] => m \in Moved(snapshot, shown, {n})
    BY DEF Moved
  <2> QED
    BY <1>7, <2>1, <2>2 DEF Marks
<1>11. /\ pc = "publish" /\ pc' = "solve" /\ fix' = g + 1
       /\ result' = [result EXCEPT ![g] = x] /\ conv' = [conv EXCEPT ![g] = left > 0]
       /\ first' = [first EXCEPT ![g] = InitOf(g)]
  BY <1>1 DEF Publish
<1>12. ASSUME NEW f \in Fix, f # g
       PROVE  /\ Host(f) => /\ f < fix' => first'[f] = InitOf(f)'
                            /\ f < fix' \/ Clean(f)' => Settled(f)'
              /\ Fixes[f].body \in Flow /\ conv'[f] =>
                   /\ Close(sess'[Fixes[f].r], result'[f], Fixes[f].tolerance)
                   /\ f < fix' => BodyOf(f)' = result'[f]
  <2>1. result'[f] = result[f] /\ conv'[f] = conv[f] /\ first'[f] = first[f] /\ fix' \in {g, g + 1}
    BY <1>2, <1>11, <1>12 DEF TypeSolve
  <2>2. n \in {Fixes[g].id, Fixes[g].r}
    BY <1>3
  <2>3. RunTo(s, {n}, d, b, shown) /\ f # g /\ g = fix
    BY <1>1, <1>8, <1>12
  <2> QED
    BY <1>5, <1>9, <1>10, <2>1, <2>2, <2>3, OthersKept
<1>13. /\ \A it : HostStep(g, it)' = HostStep(g, it)
       /\ InitOf(g)' = InitOf(g)
       /\ Fixes[g].body \in Flow => BodyOf(g)' = BodyOf(g)
  <2>1. n \in {Fixes[g].id, Fixes[g].r} /\ n # Fixes[g].r /\ ~(g < g)
    BY <1>3, Orders, FixOf DEF Fix
  <2> QED
    BY <1>2, <1>5, <1>8, <1>9, <2>1, BeforeKept
<1>14. sess'[Fixes[g].r] = sess[Fixes[g].r]
  <2>1. PICK fed \in SUBSET Measure : fed = {n}
    BY <1>3 DEF Measure
  <2>2. RunTo(s, fed, d, b, shown) /\ (\A m \in Session \ fed : s[m] = sess[m])
    BY <1>5, <1>8, <2>1
  <2>3. \A m \in Flow : shown[m] = snapshot[m]
    BY <1>3, <1>9, FixOf DEF Shown
  <2>4. sess' = s
    BY <1>2, <2>2, <2>3, RunToMoves
  <2> QED
    BY <1>3, <1>5, <2>4, FixOf
<1>15. result'[g] = x /\ conv'[g] = (left > 0) /\ first'[g] = InitOf(g) /\ left \in Nat
  BY <1>2, <1>11 DEF TypeSolve
<1>16. ASSUME Host(g) PROVE Settled(g)'
  <2>1. IF left > 0 THEN Converged(g, x) ELSE Reaches(g, InitOf(g), Fixes[g].maxIter, x)
    BY <1>1, <1>11, <1>16 DEF SolveInv, SolvingInv
  <2>2. conv'[g] => Converged(g, result[g])'
    BY <1>13, <1>15, <2>1 DEF Converged
  <2>3. ~conv'[g] => Reaches(g, first[g], Fixes[g].maxIter, result[g])'
    BY <1>13, <1>15, <2>1 DEF Reaches
  <2> QED
    BY <2>2, <2>3 DEF Settled
<1>17. ASSUME Fixes[g].body \in Flow, conv'[g]
       PROVE  Close(sess'[Fixes[g].r], result'[g], Fixes[g].tolerance) /\ BodyOf(g)' = result'[g]
  <2>1. Close(sess[Fixes[g].r], x, Fixes[g].tolerance) /\ BodyOf(g) = x
    BY <1>1, <1>11, <1>15, <1>17 DEF SolveInv, SolvingInv
  <2> QED
    BY <1>13, <1>14, <1>15, <1>17, <2>1
<1>18. HostInv'
  BY <1>12, <1>13, <1>15, <1>16 DEF HostInv
<1>19. FlowInv'
  BY <1>12, <1>17 DEF FlowInv
<1>20. SolvingInv' /\ ~Idle'
  BY <1>11 DEF SolvingInv, Idle
<1> QED
  BY <1>18, <1>19, <1>20 DEF SolveInv

\* A round takes each FIXPOINT's result as it was, unless it reads what the edits moved.
LEMMA RoundKeeps ==
  ASSUME IInv, SolveInv, Round
  PROVE  SolveInv'
<1>1. TypeFlow /\ TypeSolve /\ SnapshotInv
  BY Parts
<1>2. \A f \in Fix : f < fix
  BY <1>1, Orders DEF SolveInv, Round, Idle, TypeSolve, Fix
<1>3. PICK e \in Batch : e = cmd'.edits
  <2>1. cmds \in Seq(Command) /\ cmds # <<>>
    BY Parts DEF Round, TypeCall
  <2>2. cmd' \in Command /\ cmd'.kind = "edit"
    BY <2>1 DEF Round
  <2>3. cmd'.edits \in Batch
    BY <2>2, Edits
  <2> QED
    BY <2>3
<1>4. PICK fed \in SUBSET Measure : fed = Touched(e) /\ fed \cap Internal = {}
  BY <1>1, FedByOf DEF Touched, TypeFlow
<1>5. PICK s : s = FedBy(e)
  OBVIOUS
<1>6. s \in [Session -> Cells] /\ \A m \in Session \ fed : s[m] = sess[m]
  BY <1>1, <1>3, <1>4, <1>5, FedByOf DEF TypeFlow
<1>7. PICK b : RunTo(s, fed, fed, b, snapshot)
  BY <1>3, <1>4, <1>5 DEF Round
<1>8. PICK shown \in [Shown -> Cells] : shown = snapshot /\ RunTo(s, fed, fed, b, shown)
  BY <1>1, <1>7 DEF TypeFlow
<1>9. /\ \A m \in Flow : shown[m] = snapshot[m]
      /\ \A m \in Shown : shown[m] # snapshot[m] => m \in fed
      /\ \A m \in Input : s[m] # sess[m] => m \in fed
  BY <1>6, <1>8 DEF Session
<1>10. RunTo(s, fed, fed, b, shown)
  BY <1>8
<1>11. sess' = s
  BY <1>1, <1>6, <1>9, <1>10, RunToMoves
<1>12. pc' = "solve" /\ fix' = 1 /\ UNCHANGED <<first, result, conv>>
  BY DEF Round
<1>13. \A f \in Fix : ~(f < fix')
  BY <1>12, Orders DEF Fix
<1>14. ASSUME NEW f \in Fix, Host(f), Clean(f)' PROVE Settled(f)'
  <2>1. Fixes[f].reads \cap dirty' = {}
    BY <1>14 DEF Clean
  <2>2. \A it : HostStep(f, it)' = HostStep(f, it)
    BY <1>1, <1>6, <1>9, <1>10, <2>1, CleanKept
  <2>3. Settled(f)
    BY <1>2, <1>14 DEF SolveInv, HostInv
  <2> QED
    BY <1>12, <2>2, <2>3, SameSettled
<1>15. ASSUME NEW f \in Fix, Fixes[f].body \in Flow, conv'[f]
       PROVE  Close(sess'[Fixes[f].r], result'[f], Fixes[f].tolerance)
  <2>1. ~Solving(f)
    BY DEF Round, Solving
  <2>2. Close(sess[Fixes[f].r], result[f], Fixes[f].tolerance)
    BY <1>12, <1>15, <2>1 DEF SolveInv, FlowInv
  <2>3. Fixes[f].r \in Session /\ Fixes[f].r \in Internal
    BY FixOf DEF Internal
  <2> QED
    BY <1>4, <1>6, <1>11, <1>12, <2>2, <2>3
<1>16. HostInv' /\ FlowInv'
  BY <1>13, <1>14, <1>15 DEF HostInv, FlowInv
<1>17. SolvingInv' /\ ~Idle'
  BY <1>12 DEF SolvingInv, Idle
<1> QED
  BY <1>16, <1>17 DEF SolveInv

LEMMA InitSolve ==
  ASSUME Init
  PROVE  SolveInv
<1>1. pc = "solve" /\ fix = 1 /\ \A f \in Fix : first[f] = None /\ ~conv[f] /\ ~(f < 1)
  BY Orders DEF Init, Fix
<1>2. HostInv
  BY <1>1 DEF HostInv, Clean
<1>3. FlowInv
  BY <1>1 DEF FlowInv
<1> QED
  BY <1>1, <1>2, <1>3 DEF SolveInv, SolvingInv, Idle

LEMMA SolveHeld ==
  ASSUME IInv, SolveInv, [Next]_vars
  PROVE  SolveInv'
<1>1. CASE Round
  BY <1>1, RoundKeeps
<1>2. CASE Skip
  BY <1>2, SkipSettles
<1>3. CASE Solve
  BY <1>3, SolveBegins
<1>4. CASE Iterate
  BY <1>4, HostIterates, FlowIterates
<1>5. CASE OutOfRounds
  BY <1>5, AttemptEnds
<1>6. CASE Publish
  BY <1>6, PublishSettles
<1>7. CASE Answer
  <2>1. UNCHANGED <<sess, snapshot, dirty, fix, x, left, attempt, first, result, conv>>
    BY <1>7 DEF Answer, solver
  <2>2. pc' \in {"idle", "gone"} /\ pc # "idle" /\ fix \notin Fix
    BY <1>7 DEF Answer
  <2> QED
    BY <2>1, <2>2, SolveSame
<1>8. CASE Serve
  <2>1. UNCHANGED <<sess, snapshot, dirty, fix, x, left, attempt, first, result, conv>>
    BY <1>8 DEF Serve, solver
  <2>2. pc' = pc \/ (pc = "idle" /\ pc' = "gone")
    BY <1>8 DEF Serve
  <2> QED
    BY <2>1, <2>2, SolveSame
<1>9. CASE (\E edits \in Batch : Submit(edits) \/ Apply(edits)) \/ AskSnapshot \/ Take \/ DropPending
           \/ DropEngine \/ UNCHANGED vars
  <2>1. UNCHANGED worker
    BY <1>9 DEF Submit, Apply, Send, AskSnapshot, Take, DropPending, DropEngine, vars
  <2>2. pc' = pc /\ UNCHANGED <<sess, snapshot, dirty, fix, x, left, attempt, first, result, conv>>
    BY <2>1 DEF worker
  <2> QED
    BY <2>2, SolveSame
<1> QED
  BY <1>1, <1>2, <1>3, <1>4, <1>5, <1>6, <1>7, <1>8, <1>9 DEF Next, Done

\* The iterates from the first one are unique.
ColdRuns(f, u) ==
  u = [n \in 0 .. Fixes[f].maxIter |-> IF n = 0 THEN InitOf(f) ELSE HostStep(f, u[n - 1])]

LEMMA ColdOf ==
  ASSUME NEW f \in Fix, NEW y, Reaches(f, InitOf(f), Fixes[f].maxIter, y)
  PROVE  Cold(f) = y
<1>1. PICK M \in Nat : M = Fixes[f].maxIter
  BY StructureAssumption
<1>2. PICK w \in [0 .. M -> Cells] : /\ w[0] = InitOf(f) /\ w[M] = y
                                     /\ \A k \in 1 .. M : w[k] = HostStep(f, w[k - 1])
  BY <1>1 DEF Reaches
<1>3. ColdRuns(f, w)
  <2> DEFINE v == [n \in 0 .. M |-> IF n = 0 THEN InitOf(f) ELSE HostStep(f, w[n - 1])]
  <2>1. \A n \in 0 .. M : w[n] = v[n]
    BY <1>2
  <2>2. w = v
    BY <2>1
  <2> QED
    BY <1>1, <2>2 DEF ColdRuns
<1> DEFINE u == CHOOSE z : ColdRuns(f, z)
<1>4. ColdRuns(f, u)
  BY <1>3
<1>5. Cold(f) = u[Fixes[f].maxIter]
  BY DEF Cold, ColdRuns
<1> HIDE DEF u
<1>6. u[0] = InitOf(f) /\ \A n \in 1 .. M : u[n] = HostStep(f, u[n - 1])
  <2> DEFINE v == [n \in 0 .. M |-> IF n = 0 THEN InitOf(f) ELSE HostStep(f, u[n - 1])]
  <2>1. u = v
    BY <1>1, <1>4 DEF ColdRuns
  <2>2. v[0] = InitOf(f) /\ \A n \in 1 .. M : v[n] = HostStep(f, u[n - 1])
    OBVIOUS
  <2> HIDE DEF v
  <2> QED
    BY <2>1, <2>2
<1> DEFINE Bad == {n \in 0 .. M : u[n] # w[n]}
<1>7. ASSUME Bad # {} PROVE FALSE
  <2>1. Bad \in SUBSET Nat
    OBVIOUS
  <2>2. PICK n \in Bad : \A k \in Bad : n <= k
    <3> HIDE DEF Bad
    <3> QED
      BY <1>7, <2>1, Least
  <2>3. n # 0 /\ n \in 1 .. M
    BY <1>2, <1>6, <2>2
  <2>4. n - 1 \in 0 .. M /\ n - 1 \notin Bad
    BY <2>2, <2>3
  <2>5. u[n - 1] = w[n - 1]
    BY <2>4
  <2> QED
    BY <1>2, <1>6, <2>2, <2>3, <2>5
<1>8. M \notin Bad /\ M \in 0 .. M
  BY <1>7
<1> QED
  BY <1>1, <1>2, <1>5, <1>8

\* The step of a dataflow's body is the body's output, at the iterate last fed.
LEMMA BodyStep ==
  ASSUME IInv, NEW f \in Fix, Fixes[f].body \in Flow
  PROVE  HostStep(f, sess[Fixes[f].r]) = BodyOf(f)
<1> DEFINE b == Fixes[f].body
           it == sess[Fixes[f].r]
           v == Evaluate(sess)
           e == [m \in Reads[b] |->
                   CASE m = Fixes[f].r -> it
                     [] m # Fixes[f].r /\ m \in Input -> sess[m]
                     [] m # Fixes[f].r /\ m \in Shown \ Input -> snapshot[m]
                     [] OTHER -> Empty]
<1>1. SnapshotInv /\ TypeFlow
  BY Parts
<1>2. /\ DOMAIN v = Measure /\ \A m \in Session : v[m] = sess[m]
      /\ \A m \in Flow : v[m] = snapshot[m] /\ v[m] = Plan(m, Sees(m, v))
  BY <1>1, EvaluateFixed DEF SnapshotInv, Current
<1>3. PICK i \in 1 .. Len(Order) : Order[i] = b
  BY PlaceOf
<1>4. ASSUME NEW m \in Reads[b] PROVE e[m] = IF m \in Measure THEN v[m] ELSE Empty
  <2>1. CASE m = Fixes[f].r
    BY <1>2, <2>1, FixOf
  <2>2. CASE m # Fixes[f].r /\ m \in Input
    BY <1>2, <2>2 DEF Session, Measure
  <2>3. CASE m # Fixes[f].r /\ m \in Shown \ Input
    <3>1. e[m] = snapshot[m] /\ m \in Measure
      BY <2>3, Orders
    <3>2. m \in Flow => v[m] = snapshot[m]
      BY <1>2
    <3>3. m \notin Flow => v[m] = snapshot[m]
      <4> SUFFICES ASSUME m \notin Flow PROVE v[m] = snapshot[m]
        OBVIOUS
      <4>1. PICK h \in Fix : m = Fixes[h].id
        BY <2>3 DEF Shown, FixIds
      <4> QED
        BY <1>1, <1>2, <4>1, FixOf DEF SnapshotInv
    <3> QED
      BY <3>1, <3>2, <3>3
  <2>4. CASE m # Fixes[f].r /\ m \notin Input /\ m \notin Shown
    <3>1. e[m] = Empty
      BY <2>4
    <3>2. m \notin Measure
      <4> SUFFICES ASSUME m \in Measure PROVE FALSE
        OBVIOUS
      <4>1. PICK h \in Fix : m = Fixes[h].r
        BY <2>4 DEF Measure, Session, Shown, FixIds
      <4>2. Fixes[h].body = b
        BY <1>3, <4>1, BuildOrderAssumption
      <4> QED
        BY <2>4, <4>1, <4>2, Bodies
    <3> QED
      BY <3>1, <3>2
  <2> QED
    BY <2>1, <2>2, <2>3, <2>4
<1>5. DOMAIN e = Reads[b] /\ e = [m \in Reads[b] |-> e[m]] /\ HostStep(f, it) = Plan(b, e)
  BY DEF HostStep
<1> HIDE DEF e, v
<1>6. e = Sees(b, v)
  BY <1>2, <1>4, <1>5 DEF Sees
<1> QED
  BY <1>2, <1>5, <1>6 DEF BodyOf

\* The invariant of the solves, beside that of the dataflow and the replies: a FIXPOINT the
\* round has passed is settled, and one it has not is as long as nothing its body reads has
\* changed (solve_fixpoints).
THEOREM SolvesAreCurrent == Spec => [](IInv /\ SolveInv)
<1>1. Init => IInv /\ SolveInv
  BY InitHolds, InitSolve
<1>2. IInv /\ SolveInv /\ [Next]_vars => (IInv /\ SolveInv)'
  BY StepHolds, SolveHeld
<1> QED
  BY <1>1, <1>2, PTL DEF Spec

\* A body the host would evaluate has a collection for each measure it reads: an unknown
\* measure is an error of the compiler's, and what a target reads is compiled with it.
\* Then between rounds each FIXPOINT that converged is a step, of its body as it is now,
\* from an iterate within the tolerance, skipped, warm or cold (solve_fixpoints).
THEOREM ConvergedStaysCurrent ==
  ASSUME \A f \in Fix : Fixes[f].host => Host(f)
  PROVE  Spec => []ConvergedIsCurrent
<1>1. ASSUME IInv, SolveInv, Idle, NEW f \in Fix, conv[f]
      PROVE  \E it \in Cells : HostStep(f, it) = result[f] /\ Close(it, result[f], Fixes[f].tolerance)
  <2>1. f < fix
    BY <1>1, Parts, Orders DEF SolveInv, TypeSolve, Fix
  <2>2. CASE Host(f)
    BY <1>1, <2>1, <2>2 DEF SolveInv, HostInv, Settled, Converged
  <2>3. CASE Fixes[f].body \in Flow
    <3>1. ~Solving(f)
      BY <1>1 DEF Solving, Idle
    <3>2. BodyOf(f) = result[f] /\ Close(sess[Fixes[f].r], result[f], Fixes[f].tolerance)
      BY <1>1, <2>1, <2>3, <3>1 DEF SolveInv, FlowInv
    <3>3. sess[Fixes[f].r] \in Cells
      BY <1>1, Parts, FixOf DEF TypeFlow
    <3> QED
      BY <1>1, <2>3, <3>2, <3>3, BodyStep
  <2>4. ~Host(f) => Fixes[f].body \in Flow
    <3> SUFFICES ASSUME ~Host(f), NEW h \in Fix, Fixes[h].body = Fixes[f].body, Fixes[h].host PROVE FALSE
      BY StructureAssumption DEF Flow
    <3>1. h # f
      OBVIOUS
    <3> QED
      BY <3>1, Bodies
  <2> QED
    BY <2>2, <2>3, <2>4
<1>2. IInv /\ SolveInv => ConvergedIsCurrent
  BY <1>1 DEF ConvergedIsCurrent, Idle
<1> QED
  BY <1>2, SolvesAreCurrent, PTL

\* Between rounds a FIXPOINT that was cut off has what a full recompute gives, if the host
\* evaluates its body: no warm start and no skipped solve leaves another result.
THEOREM HostCutOffs == Spec => []HostCutOffIsCold
<1>1. ASSUME IInv, SolveInv, Idle, NEW f \in Fix, ~conv[f], Host(f)
      PROVE  result[f] = Cold(f)
  <2>1. f < fix
    BY <1>1, Parts, Orders DEF SolveInv, TypeSolve, Fix
  <2>2. first[f] = InitOf(f) /\ Reaches(f, first[f], Fixes[f].maxIter, result[f])
    BY <1>1, <2>1 DEF SolveInv, HostInv, Settled
  <2> QED
    BY <2>2, ColdOf
<1>2. IInv /\ SolveInv => HostCutOffIsCold
  BY <1>1 DEF HostCutOffIsCold, Idle
<1> QED
  BY <1>2, SolvesAreCurrent, PTL
=============================================================================
