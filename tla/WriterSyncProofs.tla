-------------------------- MODULE WriterSyncProofs --------------------------
(***************************************************************************)
(* Proofs about WriterSync for every set of sessions, models, tables and   *)
(* keys, every binding of tables to models and every bound: which models   *)
(* a commit has locked, and in which order; and that the committed results *)
(* are those of the committed tables, and a writer sees the results of     *)
(* what it wrote.                                                          *)
(***************************************************************************)
EXTENDS WriterSync, TLAPS, FiniteSetTheorems, WellFoundedInduction

-----------------------------------------------------------------------------
(* The inductive invariant. *)

\* A model is locked by one session, and by none while its mode is switched; capture
\* triggers are created for commit mode alone.
LockInv ==
  /\ \A b, c \in Backend : b # c => held[b] \cap held[c] = {}
  /\ switch # None => \A b \in Backend : switch.model \notin held[b]
  /\ switch # None => (switch.rows => switch.to = "commit")

\* A savepoint has rows only of tables the session still has rows of, and nobody
\* has rows of a table a switch has locked.
RowsInv ==
  /\ \A b \in Backend : saved[b] # None =>
       \A t \in Table : own[b][t] = NoRows[t] => saved[b][t] = NoRows[t]
  /\ switch # None => \A t \in switch.locked : \A b \in Backend : own[b][t] = NoRows[t]

\* Triggers still to fire are of models whose tables the session wrote, so that no
\* switch can have brought these to commit mode.
FireInv ==
  \A b \in Backend : \A i \in DOMAIN todo[b] : \A m \in todo[b][i].models :
    mode[m] # "commit" /\ \E t \in Binds[m] : own[b][t] # NoRows[t]

\* The models of commit mode that a session locked by itself: none before its first
\* round, in id order in the first; later rounds are of models that read results.
Results == {Out[m] : m \in Model}
Locked(b) == {m \in held[b] \ asked[b] : mode[m] = "commit"}
RoundInv(b) ==
  /\ pc[b] \notin {"open", "fires"} => saved[b] = None
  /\ pc[b] \in {"idle", "open", "fires"} => pass[b] = 0
  /\ pc[b] = "recompute" => pass[b] # 0
  /\ pass[b] = 0 => Locked(b) = {}
  /\ pass[b] = 1 => \A m \in Locked(b), n \in models[b] : m < n
  /\ pass[b] # 0 => written[b] \subseteq Results
  /\ pass[b] > 1 => \A n \in models[b] : Binds[n] \cap Results # {}

IInv == TypeOK /\ LockInv /\ RowsInv /\ FireInv /\ \A b \in Backend : RoundInv(b)

-----------------------------------------------------------------------------
(* Parts of the types. *)

Firings == [models : (SUBSET Model) \ {{}}, keys : SUBSET Key]
Snaps == [db : [Table -> [Key -> Nat]], mode : [Model -> Modes]]
Places == {"idle", "open", "fires", "pass", "recompute", "commit"}

TypeShared == db \in [Table -> [Key -> Nat]] /\ mode \in [Model -> Modes] /\ capture \subseteq Model
              /\ \A m \in capture : mode[m] = "commit"
TypeRows == own \in [Backend -> Rows] /\ saved \in [Backend -> Rows \cup {None}]
            /\ snap \in [Backend -> Snaps \cup {None}]
TypeHooks == /\ written \in [Backend -> Noted] /\ inner \in [Backend -> Noted]
             /\ captured \in [Backend -> [Model \X Table -> SUBSET Key]]
             /\ capOk \in [Backend -> [Table -> (SUBSET Model) \cup {None}]]
TypeCache == cache \in [Backend -> (SUBSET Table) \cup {None}] /\ behind \subseteq Backend
TypeLocks == held \in [Backend -> SUBSET Model] /\ sub \in [Backend -> SUBSET Model]
             /\ asked \in [Backend -> SUBSET Model]
TypeTodo == todo \in [Backend -> Seq(Firings)]
TypeRound == batch \in [Backend -> Noted] /\ models \in [Backend -> SUBSET Model]
             /\ pass \in [Backend -> 0 .. MaxPass] /\ pc \in [Backend -> Places]
TypeSwitch == switch \in Switches \cup {None}
TypeBounds == stmts \in 0 .. MaxStmts /\ switches \in 0 .. MaxSwitches
Kept(b) ==
  /\ pc[b] = "idle" => own[b] = NoRows /\ written[b] = {} /\ held[b] = {}
  /\ inner[b] \subseteq written[b] /\ sub[b] \cup asked[b] \subseteq held[b]
  /\ saved[b] = None => inner[b] = {} /\ sub[b] = {}
  /\ models[b] # {} => pc[b] = "recompute"

Types == /\ TypeShared /\ TypeRows /\ TypeHooks /\ TypeCache /\ TypeLocks /\ TypeTodo
         /\ TypeRound /\ TypeSwitch /\ TypeBounds /\ \A b \in Backend : Kept(b)

LEMMA TypeParts ==
  TypeOK <=> Types
  BY DEF TypeOK, Types, TypeShared, TypeRows, TypeHooks, TypeCache, TypeLocks, TypeTodo, TypeRound,
         TypeSwitch, TypeBounds, Kept, Firings, Snaps, Places

LEMMA TypePartsNext ==
  TypeOK' <=> Types'
  BY DEF TypeOK, Types, TypeShared, TypeRows, TypeHooks, TypeCache, TypeLocks, TypeTodo, TypeRound,
         TypeSwitch, TypeBounds, Kept, Firings, Snaps, Places

\* What is left alone keeps its type.
LEMMA SameTypes ==
  ASSUME Types
  PROVE  /\ UNCHANGED <<db, mode, capture>> => TypeShared'
         /\ UNCHANGED <<own, saved, snap>> => TypeRows'
         /\ UNCHANGED hooks => TypeHooks'
         /\ UNCHANGED <<cache, behind>> => TypeCache'
         /\ UNCHANGED locks => TypeLocks'
         /\ UNCHANGED todo => TypeTodo'
         /\ UNCHANGED <<batch, models, pass, pc>> => TypeRound'
         /\ UNCHANGED switch => TypeSwitch'
         /\ UNCHANGED bounds => TypeBounds'
<1>1. UNCHANGED <<db, mode, capture>> => TypeShared'
  BY DEF Types, TypeShared
<1>2. UNCHANGED <<own, saved, snap>> => TypeRows'
  BY DEF Types, TypeRows
<1>3. UNCHANGED hooks => TypeHooks'
  BY DEF Types, TypeHooks, hooks
<1>4. UNCHANGED <<cache, behind>> => TypeCache'
  BY DEF Types, TypeCache
<1>5. UNCHANGED locks => TypeLocks'
  BY DEF Types, TypeLocks, locks
<1>6. UNCHANGED todo => TypeTodo'
  BY DEF Types, TypeTodo
<1>7. UNCHANGED <<batch, models, pass, pc>> => TypeRound'
  BY DEF Types, TypeRound
<1>8. UNCHANGED switch => TypeSwitch'
  BY DEF Types, TypeSwitch
<1>9. UNCHANGED bounds => TypeBounds'
  BY DEF Types, TypeBounds, bounds
<1> QED
  BY <1>1, <1>2, <1>3, <1>4, <1>5, <1>6, <1>7, <1>8, <1>9

-----------------------------------------------------------------------------
(* The operators. *)

\* Of some models, one has the smallest id.
LEMMA NextModelOf ==
  ASSUME NEW S \in SUBSET Model, S # {}
  PROVE  NextModel(S) \in S /\ \A n \in S : NextModel(S) <= n
<1> DEFINE R == {ss \in Nat \X Nat : ss[1] < ss[2]}
<1>1. OpToRel(<, Nat) = R
  BY DEF OpToRel
<1>2. \A k, l \in Nat : k < l => <<k, l>> \in R
  OBVIOUS
<1> HIDE DEF R
<1>3. IsWellFoundedOn(R, Nat)
  BY <1>1, NatLessThanWellFounded, Zenon
<1>4. S \in SUBSET Nat
  BY ConstantsAssumption
<1>5. PICK x \in S : \A y \in S : ~(<<y, x>> \in R)
  BY <1>3, <1>4, WFMin
<1>6. \A y \in S : x <= y
  <2> TAKE y \in S
  <2>1. x \in Nat /\ y \in Nat
    BY <1>4
  <2>2. ~(y < x)
    BY <1>2, <1>5, <2>1
  <2> QED
    BY <2>1, <2>2
<1> QED
  BY <1>6 DEF NextModel

\* A result is a number at every key.
LEMMA ResultType ==
  ASSUME NEW m \in Model, NEW v
  PROVE  Result(m, v) \in [Key -> Nat]
<1> DEFINE S == Binds[m] \X Key
           T == {x \in S : v[x[1]][x[2]] # 0}
<1>1. IsFiniteSet(Binds[m]) /\ IsFiniteSet(Key)
  BY ConstantsAssumption
<1>2. IsFiniteSet(S)
  BY <1>1, FS_Product
<1>3. IsFiniteSet(T)
  BY <1>2, FS_Subset
<1>4. Cardinality(T) \in Nat
  BY <1>3, FS_CardinalityType
<1> QED
  BY <1>4 DEF Result

\* Triggers to fire come before the rest.
LEMMA FiringOf ==
  ASSUME NEW ms \in SUBSET Model, NEW keys \in SUBSET Key, NEW rest \in Seq(Firings)
  PROVE  /\ Firing(ms, keys, rest) \in Seq(Firings)
         /\ \A i \in DOMAIN Firing(ms, keys, rest) :
              \/ Firing(ms, keys, rest)[i].models = ms
              \/ \E j \in DOMAIN rest : Firing(ms, keys, rest)[i] = rest[j]
<1> DEFINE x == [models |-> ms, keys |-> keys]
           f == <<x>> \o rest
<1>1. CASE ms = {}
  BY <1>1 DEF Firing
<1>2. CASE ms # {}
  <2>1. x \in Firings /\ x.models = ms
    <3>1. ms \in (SUBSET Model) \ {{}}
      BY <1>2
    <3> HIDE <1>2
    <3> QED
      BY <3>1 DEF Firings
  <2> HIDE DEF x
  <2>2. <<x>> \in Seq(Firings) /\ Len(<<x>>) = 1 /\ Len(rest) \in Nat
    BY <2>1
  <2>3. f \in Seq(Firings) /\ Len(f) = Len(rest) + 1
    BY <2>2
  <2>4. f[1] = x /\ \A i \in 2 .. Len(f) : f[i] = rest[i - 1] /\ i - 1 \in DOMAIN rest
    BY <2>2, <2>3
  <2>5. Firing(ms, keys, rest) = f
    BY <1>2 DEF Firing, x
  <2> HIDE DEF f
  <2>6. ASSUME NEW i \in DOMAIN f
        PROVE  f[i].models = ms \/ \E j \in DOMAIN rest : f[i] = rest[j]
    <3>1. i \in 1 .. Len(f) /\ Len(f) \in Nat
      BY <2>3
    <3>2. CASE i = 1
      BY <2>1, <2>4, <3>2
    <3>3. CASE i # 1
      <4>1. i \in 2 .. Len(f)
        BY <3>1, <3>3
      <4> QED
        BY <2>4, <4>1
    <3> QED
      BY <3>2, <3>3
  <2> QED
    BY <2>3, <2>5, <2>6
<1> QED
  BY <1>1, <1>2

-----------------------------------------------------------------------------
(* What a write does. *)

\* Session b has rows of its own in t, and notes the tables ts.
Wrote(b, t, ts) ==
  /\ \A c \in Backend \ {b} : own'[c] = own[c] /\ written'[c] = written[c] /\ inner'[c] = inner[c]
  /\ own'[b][t] # NoRows[t] /\ \A u \in Table \ {t} : own'[b][u] = own[b][u]
  /\ written'[b] = written[b] \cup ts
  /\ inner'[b] \subseteq inner[b] \cup ts
  /\ saved[b] = None => inner'[b] = inner[b]

LEMMA OwnOf ==
  ASSUME own \in [Backend -> Rows], NEW b \in Backend, NEW t \in Table,
         NEW n \in [Key -> Nat \cup {None}], n # NoRows[t],
         own' = [own EXCEPT ![b][t] = n]
  PROVE  /\ own' \in [Backend -> Rows]
         /\ \A c \in Backend \ {b} : own'[c] = own[c]
         /\ own'[b][t] # NoRows[t] /\ \A u \in Table \ {t} : own'[b][u] = own[b][u]
<1>1. own[b] \in Rows
  OBVIOUS
<1>2. own' = [own EXCEPT ![b] = [own[b] EXCEPT ![t] = n]]
  BY <1>1 DEF Rows
<1>3. own'[b] = [own[b] EXCEPT ![t] = n] /\ \A c \in Backend \ {b} : own'[c] = own[c]
  BY <1>2
<1>4. own'[b] \in Rows /\ own'[b][t] = n /\ \A u \in Table \ {t} : own'[b][u] = own[b][u]
  BY <1>1, <1>3 DEF Rows
<1>5. own' \in [Backend -> Rows]
  BY <1>2, <1>3, <1>4
<1> QED
  BY <1>3, <1>4, <1>5

LEMMA CapOkOf ==
  ASSUME TypeHooks, NEW b \in Backend, NEW t \in Table, NEW caught \in SUBSET Model,
         capOk' = [capOk EXCEPT ![b][t] = Seen(@, caught)]
  PROVE  capOk' \in [Backend -> [Table -> (SUBSET Model) \cup {None}]]
<1>1. capOk[b] \in [Table -> (SUBSET Model) \cup {None}]
  BY DEF TypeHooks
<1>2. Seen(capOk[b][t], caught) \in SUBSET Model
  BY <1>1 DEF Seen
<1>3. capOk' = [capOk EXCEPT ![b] = [capOk[b] EXCEPT ![t] = Seen(capOk[b][t], caught)]]
  BY <1>1 DEF TypeHooks
<1>4. [capOk[b] EXCEPT ![t] = Seen(capOk[b][t], caught)] \in [Table -> (SUBSET Model) \cup {None}]
  BY <1>1, <1>2
<1> HIDE DEF Seen
<1> QED
  BY <1>3, <1>4 DEF TypeHooks

\* Tables noted, and of these the ones only the subtransaction wrote.
LEMMA NotedOf ==
  ASSUME TypeHooks, NEW b \in Backend, NEW ts \in Noted, NEW more \in SUBSET ts,
         saved[b] = None => more = {},
         written' = [written EXCEPT ![b] = @ \cup ts],
         inner' = [inner EXCEPT ![b] = @ \cup more]
  PROVE  /\ written' \in [Backend -> Noted] /\ inner' \in [Backend -> Noted]
         /\ \A c \in Backend \ {b} : written'[c] = written[c] /\ inner'[c] = inner[c]
         /\ written'[b] = written[b] \cup ts /\ inner'[b] \subseteq inner[b] \cup ts
         /\ saved[b] = None => inner'[b] = inner[b]
<1>1. written[b] \cup ts \in Noted /\ inner[b] \cup more \in Noted
  BY DEF TypeHooks, Noted
<1> QED
  BY <1>1 DEF TypeHooks

LEMMA CapturedOf ==
  ASSUME TypeHooks, NEW b \in Backend, NEW c \in [Model \X Table -> SUBSET Key],
         captured' = [captured EXCEPT ![b] = c]
  PROVE  captured' \in [Backend -> [Model \X Table -> SUBSET Key]]
  BY DEF TypeHooks

LEMMA CapturingOf ==
  ASSUME NEW t
  PROVE  (TypeShared => Capturing(t) \in SUBSET Model) /\ Following(t) \in SUBSET Model
  BY DEF Capturing, Following, TypeShared

\* A statement that writes some rows of t.
LEMMA WritesOf ==
  ASSUME Types, NEW b \in Backend, NEW t \in Table, NEW keys \in SUBSET Key, keys # {},
         NEW row \in [Key -> Nat], NEW caught \in SUBSET Model,
         NEW rest \in Seq(Firings), Writes(b, t, keys, row, caught, rest)
  PROVE  /\ own' \in [Backend -> Rows] /\ TypeHooks' /\ TypeTodo' /\ Wrote(b, t, {t})
<1>1. TypeShared /\ TypeRows /\ TypeHooks /\ TypeTodo
  BY DEF Types
<1>3. /\ own' \in [Backend -> Rows]
      /\ \A c \in Backend \ {b} : own'[c] = own[c]
      /\ own'[b][t] # NoRows[t] /\ \A u \in Table \ {t} : own'[b][u] = own[b][u]
  <2> DEFINE n == [k \in Key |-> IF k \in keys THEN row[k] ELSE own[b][t][k]]
  <2>1. own' = [own EXCEPT ![b][t] = n]
    BY DEF Writes
  <2>2. own \in [Backend -> Rows]
    BY <1>1 DEF TypeRows
  <2>3. own[b][t] \in [Key -> Nat \cup {None}]
    BY <2>2 DEF Rows
  <2>4. n \in [Key -> Nat \cup {None}]
    BY <2>3
  <2>5. PICK k \in keys : k \in Key /\ n[k] \in Nat
    OBVIOUS
  <2>6. n[k] # NoRows[t][k]
    BY <2>5, ConstantsAssumption DEF NoRows
  <2> HIDE DEF n
  <2> QED
    BY <2>1, <2>2, <2>4, <2>6, OwnOf
<1>4. /\ written' \in [Backend -> Noted] /\ inner' \in [Backend -> Noted]
      /\ \A c \in Backend \ {b} : written'[c] = written[c] /\ inner'[c] = inner[c]
      /\ written'[b] = written[b] \cup {t} /\ inner'[b] \subseteq inner[b] \cup {t}
      /\ saved[b] = None => inner'[b] = inner[b]
  <2> DEFINE more == IF saved[b] # None /\ t \notin written[b] THEN {t} ELSE {}
  <2>1. {t} \in Noted /\ more \in SUBSET {t} /\ (saved[b] = None => more = {})
    BY DEF Noted
  <2>2. inner' = [inner EXCEPT ![b] = @ \cup more] /\ written' = [written EXCEPT ![b] = @ \cup {t}]
    BY <1>1 DEF Writes, TypeHooks
  <2> HIDE DEF more
  <2> QED
    BY <1>1, <2>1, <2>2, NotedOf
<1>5. captured' \in [Backend -> [Model \X Table -> SUBSET Key]]
  <2> DEFINE c == [x \in Model \X Table |-> IF x[1] \in caught /\ x[2] = t
                                            THEN Captures(captured[b][x], keys) ELSE captured[b][x]]
  <2>1. captured[b] \in [Model \X Table -> SUBSET Key]
    BY <1>1 DEF TypeHooks
  <2>2. \A x \in Model \X Table : Captures(captured[b][x], keys) \in SUBSET Key
    BY <2>1 DEF Captures
  <2>3. c \in [Model \X Table -> SUBSET Key]
    BY <2>1, <2>2
  <2>4. captured' = [captured EXCEPT ![b] = c]
    BY DEF Writes
  <2> QED
    BY <1>1, <2>3, <2>4, CapturedOf
<1>6. capOk' = [capOk EXCEPT ![b][t] = Seen(@, caught)]
  BY DEF Writes
<1>7. TypeHooks'
  BY <1>1, <1>4, <1>5, <1>6, CapOkOf DEF TypeHooks
<1>8. todo' = [todo EXCEPT ![b] = Firing(Following(t), keys, rest)]
  BY DEF Writes
<1>9. Firing(Following(t), keys, rest) \in Seq(Firings)
  BY CapturingOf, FiringOf
<1>10. TypeTodo'
  BY <1>1, <1>8, <1>9 DEF TypeTodo
<1> QED
  BY <1>3, <1>4, <1>7, <1>8, <1>10 DEF Wrote

\* What is left to do of session b's statement.
Left(b, rest) == todo' = [todo EXCEPT ![b] = rest]

LEMMA AcceptOf ==
  ASSUME Types, NEW b \in Backend, Accept(b)
  PROVE  TypeCache'
  BY DEF Types, TypeCache, Accept

\* A recompute: nothing differs, or the results are written.
LEMMA RecomputedOf ==
  ASSUME Types, NEW b \in Backend, NEW m \in Model, NEW keys \in SUBSET Key,
         NEW rest \in Seq(Firings), Recomputed(b, m, keys, rest)
  PROVE  /\ own' \in [Backend -> Rows] /\ TypeHooks' /\ TypeTodo' /\ TypeCache'
         /\ \/ UNCHANGED <<own, hooks>> /\ Left(b, rest)
            \/ /\ Wrote(b, Out[m], {Out[m]})
               /\ switch # None => Out[m] \notin switch.locked
               /\ \E ks \in SUBSET Key : Left(b, Firing(Following(Out[m]), ks, rest))
<1> DEFINE v == View(b)
           new == Result(m, v)
           at == {k \in (IF m \in Elementwise THEN keys ELSE Key) : new[k] # v[Out[m]][k]}
<1>1. at \in SUBSET Key /\ Out[m] \in Table
  BY DEF Table
<1>2. new \in [Key -> Nat]
  BY ResultType
<1>3. CASE at = {}
  <2>1. UNCHANGED <<own, hooks, cache, behind>> /\ todo' = [todo EXCEPT ![b] = rest]
    BY <1>3 DEF Recomputed
  <2>2. TypeTodo'
    BY <2>1 DEF Types, TypeTodo
  <2> QED
    BY <2>1, <2>2, SameTypes DEF Types, TypeRows, Left
<1>4. CASE at # {}
  <2>1. /\ Writes(b, Out[m], at, new, Capturing(Out[m]), rest) /\ Accept(b)
        /\ \A k \in at : Writable(b, Out[m], k)
    BY <1>4 DEF Recomputed
  <2> HIDE DEF at, new
  <2>2. /\ own' \in [Backend -> Rows] /\ TypeHooks' /\ TypeTodo' /\ Wrote(b, Out[m], {Out[m]})
        /\ todo' = [todo EXCEPT ![b] = Firing(Following(Out[m]), at, rest)]
    <3>1. Capturing(Out[m]) \in SUBSET Model
      BY CapturingOf DEF Types
    <3>2. PICK o \in Table, ks \in SUBSET Key, row \in [Key -> Nat], c \in SUBSET Model :
            o = Out[m] /\ ks = at /\ row = new /\ c = Capturing(Out[m])
      BY <1>1, <1>2, <3>1
    <3>3. Writes(b, o, ks, row, c, rest) /\ ks # {}
      BY <1>4, <2>1, <3>2
    <3>4. own' \in [Backend -> Rows] /\ TypeHooks' /\ TypeTodo' /\ Wrote(b, o, {o})
      BY <3>3, WritesOf
    <3>5. todo' = [todo EXCEPT ![b] = Firing(Following(Out[m]), at, rest)]
      BY <2>1 DEF Writes
    <3> QED
      BY <3>2, <3>4, <3>5
  <2>3. switch # None => Out[m] \notin switch.locked
    BY <1>4, <2>1 DEF Writable
  <2>4. Left(b, Firing(Following(Out[m]), at, rest))
    BY <2>2 DEF Left
  <2> QED
    BY <1>1, <2>1, <2>2, <2>3, <2>4, AcceptOf
<1> QED
  BY <1>3, <1>4

-----------------------------------------------------------------------------
(* Parts of the invariant under a write and a lock. *)

\* The firings of rest are of models whose tables the session wrote.
Due(b, rest) ==
  \A i \in DOMAIN rest : \A m \in rest[i].models :
    mode[m] # "commit" /\ \E t \in Binds[m] : own[b][t] # NoRows[t]

LEMMA FireStep ==
  ASSUME Types, FireInv, NEW b \in Backend, NEW t \in Table, NEW ts, Wrote(b, t, ts), UNCHANGED mode,
         NEW rest \in Seq(Firings), Due(b, rest), NEW ks \in SUBSET Key,
         Left(b, Firing(Following(t), ks, rest))
  PROVE  FireInv'
<1> DEFINE f == Firing(Following(t), ks, rest)
<1>1. todo \in [Backend -> Seq(Firings)] /\ Binds \in [Model -> SUBSET Table]
  BY ConstantsAssumption DEF Types, TypeTodo
<1>2. \A i \in DOMAIN f : f[i].models = Following(t) \/ \E j \in DOMAIN rest : f[i] = rest[j]
  BY CapturingOf, FiringOf
<1> HIDE DEF f
<1>3. todo'[b] = f /\ \A c \in Backend \ {b} : todo'[c] = todo[c]
  BY <1>1 DEF f, Left
<1>4. ASSUME NEW m, m \in Following(t)
      PROVE  mode'[m] # "commit" /\ \E u \in Binds[m] : own'[b][u] # NoRows[u]
  BY <1>4 DEF Following, Wrote
<1>5. ASSUME NEW j \in DOMAIN rest, NEW m \in rest[j].models
      PROVE  mode'[m] # "commit" /\ \E u \in Binds[m] : own'[b][u] # NoRows[u]
  <2>1. PICK u \in Binds[m] : own[b][u] # NoRows[u]
    BY <1>5 DEF Due
  <2>2. m \in Model
    <3>1. rest[j] \in Firings
      BY <1>5
    <3> QED
      BY <1>5, <3>1 DEF Firings
  <2>3. u \in Table
    BY <1>1, <2>1, <2>2
  <2>4. own'[b][u] # NoRows[u]
    BY <2>1, <2>3 DEF Wrote
  <2> QED
    BY <1>5, <2>1, <2>4 DEF Due
<1>6. ASSUME NEW c \in Backend \ {b}, NEW i \in DOMAIN todo'[c], NEW m \in todo'[c][i].models
      PROVE  mode'[m] # "commit" /\ \E u \in Binds[m] : own'[c][u] # NoRows[u]
  <2>1. own'[c] = own[c] /\ todo'[c] = todo[c] /\ mode' = mode
    BY <1>3 DEF Wrote
  <2> QED
    BY <1>6, <2>1 DEF FireInv
<1>7. ASSUME NEW i \in DOMAIN todo'[b], NEW m \in todo'[b][i].models
      PROVE  mode'[m] # "commit" /\ \E u \in Binds[m] : own'[b][u] # NoRows[u]
  BY <1>2, <1>3, <1>4, <1>5, <1>7
<1>8. NoRows' = NoRows
  BY DEF NoRows
<1> QED
  BY <1>6, <1>7, <1>8 DEF FireInv

LEMMA FireSame ==
  ASSUME Types, FireInv, NEW b \in Backend, UNCHANGED <<own, mode>>, NEW rest \in Seq(Firings),
         Due(b, rest), Left(b, rest)
  PROVE  FireInv'
<1>1. todo'[b] = rest /\ \A c \in Backend \ {b} : todo'[c] = todo[c]
  BY DEF Types, TypeTodo, Left
<1> QED
  BY <1>1 DEF FireInv, Due, NoRows

LEMMA RowsStep ==
  ASSUME Types, RowsInv, NEW b \in Backend, NEW t \in Table, NEW ts, Wrote(b, t, ts),
         UNCHANGED <<saved, switch>>, switch # None => t \notin switch.locked
  PROVE  RowsInv'
<1>1. NoRows' = NoRows
  BY DEF NoRows
<1>2. ASSUME NEW c \in Backend, saved'[c] # None, NEW u \in Table, own'[c][u] = NoRows[u]
      PROVE  saved'[c][u] = NoRows[u]
  BY <1>2 DEF RowsInv, Wrote
<1>3. ASSUME switch' # None, NEW u \in switch'.locked, NEW c \in Backend
      PROVE  own'[c][u] = NoRows[u]
  <2>1. u \in Table
    BY <1>3 DEF Types, TypeSwitch, Switches
  <2> QED
    BY <1>3, <2>1 DEF RowsInv, Wrote
<1> QED
  BY <1>1, <1>2, <1>3 DEF RowsInv

LEMMA SameRows ==
  ASSUME RowsInv, UNCHANGED <<own, saved, switch>>
  PROVE  RowsInv'
  BY DEF RowsInv, NoRows

LEMMA LockOf ==
  ASSUME Types, LockInv, NEW b \in Backend, NEW m \in Model, Lockable(b, m), Lock(b, m),
         UNCHANGED switch
  PROVE  /\ held' \in [Backend -> SUBSET Model] /\ sub' \in [Backend -> SUBSET Model] /\ LockInv'
         /\ held'[b] = held[b] \cup {m} /\ sub[b] \subseteq sub'[b] /\ sub'[b] \subseteq sub[b] \cup {m}
         /\ saved[b] = None => sub'[b] = sub[b]
         /\ \A c \in Backend \ {b} : held'[c] = held[c] /\ sub'[c] = sub[c]
<1>1. held \in [Backend -> SUBSET Model] /\ sub \in [Backend -> SUBSET Model]
  BY DEF Types, TypeLocks
<1>2. /\ held' \in [Backend -> SUBSET Model] /\ sub' \in [Backend -> SUBSET Model]
      /\ held'[b] = held[b] \cup {m} /\ sub[b] \subseteq sub'[b] /\ sub'[b] \subseteq sub[b] \cup {m}
      /\ saved[b] = None => sub'[b] = sub[b]
      /\ \A c \in Backend \ {b} : held'[c] = held[c] /\ sub'[c] = sub[c]
  BY <1>1 DEF Lock
<1>3. \A c \in Backend \ {b} : m \notin held[c]
  BY DEF Lockable
<1>4. switch # None => switch.model # m
  BY DEF Lockable
<1>5. LockInv'
  BY <1>2, <1>3, <1>4 DEF LockInv
<1> QED
  BY <1>2, <1>5

-----------------------------------------------------------------------------
(* The other sessions. *)

\* A step of session b leaves the others alone.
Others(b) ==
  \A c \in Backend \ {b} :
    /\ pc'[c] = pc[c] /\ own'[c] = own[c] /\ saved'[c] = saved[c]
    /\ written'[c] = written[c] /\ inner'[c] = inner[c]
    /\ held'[c] = held[c] /\ sub'[c] = sub[c] /\ asked'[c] = asked[c]
    /\ models'[c] = models[c] /\ pass'[c] = pass[c]

LEMMA OthersKept ==
  ASSUME Types, \A c \in Backend : RoundInv(c), NEW b \in Backend, Others(b), UNCHANGED mode,
         Kept(b)', RoundInv(b)'
  PROVE  \A c \in Backend : Kept(c)' /\ RoundInv(c)'
<1>1. NoRows' = NoRows /\ Results' = Results
  BY DEF NoRows, Results
<1>2. ASSUME NEW c \in Backend \ {b}
      PROVE  Kept(c)' /\ RoundInv(c)'
  <2>1. Kept(c) /\ RoundInv(c)
    BY DEF Types
  <2>2. Locked(c)' = Locked(c)
    BY DEF Locked, Others
  <2>3. Kept(c)'
    BY <1>1, <2>1 DEF Kept, Others
  <2>4. RoundInv(c)'
    BY <1>1, <2>1, <2>2 DEF RoundInv, Others
  <2> QED
    BY <2>3, <2>4
<1> QED
  BY <1>2

LEMMA GotoOf ==
  ASSUME Types, NEW b \in Backend, NEW l \in Places, Goto(b, l)
  PROVE  /\ pc' \in [Backend -> Places] /\ pc'[b] = l
         /\ \A c \in Backend \ {b} : pc'[c] = pc[c]
  BY DEF Types, TypeRound, Goto

\* The last thing a step lemma does.
LEMMA Together ==
  ASSUME TypeShared', TypeRows', TypeHooks', TypeCache', TypeLocks', TypeTodo', TypeRound', TypeSwitch',
         TypeBounds', \A c \in Backend : Kept(c)' /\ RoundInv(c)', LockInv', RowsInv', FireInv'
  PROVE  IInv'
  BY TypePartsNext DEF Types, IInv

\* With nothing left to do, nothing is due; what is due is due after a model's turn.
LEMMA DueNothing ==
  ASSUME NEW b
  PROVE  <<>> \in Seq(Firings) /\ Due(b, <<>>)
  BY DEF Due

LEMMA DueRest ==
  ASSUME Types, FireInv, NEW b \in Backend, todo[b] # <<>>, NEW ms \in SUBSET Head(todo[b]).models
  PROVE  /\ Head(todo[b]).models \in SUBSET Model /\ Head(todo[b]).models # {}
         /\ Head(todo[b]).keys \in SUBSET Key
         /\ \A m \in Head(todo[b]).models : mode[m] # "commit"
         /\ Firing(ms, Head(todo[b]).keys, Tail(todo[b])) \in Seq(Firings)
         /\ Due(b, Firing(ms, Head(todo[b]).keys, Tail(todo[b])))
<1> DEFINE q == todo[b]
           x == Head(q)
           r == Tail(q)
           f == Firing(ms, x.keys, r)
<1>1. q \in Seq(Firings) /\ q # <<>>
  BY DEF Types, TypeTodo
<1> HIDE DEF q
<1>2. x \in Firings /\ x = q[1] /\ 1 \in DOMAIN q /\ r \in Seq(Firings)
  BY <1>1
<1>3. \A j \in DOMAIN r : r[j] = q[j + 1] /\ j + 1 \in DOMAIN q
  BY <1>1
<1> HIDE DEF x, r
<1>4. x.models \in SUBSET Model /\ x.models # {} /\ x.keys \in SUBSET Key
  BY <1>2 DEF Firings
<1>5. \A i \in DOMAIN q : \A m \in q[i].models :
        mode[m] # "commit" /\ \E t \in Binds[m] : own[b][t] # NoRows[t]
  BY DEF FireInv, q
<1>6. ms \in SUBSET x.models
  BY DEF x, q
<1>7. /\ f \in Seq(Firings)
      /\ \A i \in DOMAIN f : f[i].models = ms \/ \E j \in DOMAIN r : f[i] = r[j]
  <2>1. PICK k \in SUBSET Key, s \in SUBSET Model, y \in Seq(Firings) : k = x.keys /\ s = ms /\ y = r
    BY <1>2, <1>4, <1>6
  <2>2. /\ Firing(s, k, y) \in Seq(Firings)
        /\ \A i \in DOMAIN Firing(s, k, y) :
             Firing(s, k, y)[i].models = s \/ \E j \in DOMAIN y : Firing(s, k, y)[i] = y[j]
    BY FiringOf
  <2> QED
    BY <2>1, <2>2
<1> HIDE DEF f
<1>8. Due(b, f)
  <2>1. ASSUME NEW i \in DOMAIN f, NEW m \in f[i].models
        PROVE  \E j \in DOMAIN q : m \in q[j].models
    BY <1>2, <1>3, <1>6, <1>7, <2>1
  <2> QED
    BY <1>5, <2>1 DEF Due
<1> QED
  BY <1>2, <1>4, <1>5, <1>7, <1>8 DEF x, r, q, f

-----------------------------------------------------------------------------
(* One lemma per action. *)

LEMMA InitHolds ==
  Init => IInv
<1> SUFFICES ASSUME Init PROVE IInv
  OBVIOUS
<1>1. TypeShared
  BY ConstantsAssumption DEF Init, TypeShared
<1>2. NoRows \in Rows
  BY DEF NoRows, Rows
<1>3. TypeRows
  BY <1>2 DEF Init, TypeRows
<1>4. TypeHooks /\ TypeCache
  BY DEF Init, TypeHooks, TypeCache, Noted
<1>5. TypeLocks /\ TypeTodo /\ TypeRound /\ TypeSwitch /\ TypeBounds
  BY ConstantsAssumption
  DEF Init, TypeLocks, TypeTodo, TypeRound, TypeSwitch, TypeBounds, Noted, Places
<1>6. \A b \in Backend : Kept(b) /\ RoundInv(b)
  BY DEF Init, Kept, RoundInv, Locked
<1>7. LockInv /\ RowsInv /\ FireInv
  BY DEF Init, LockInv, RowsInv, FireInv
<1> QED
  BY <1>1, <1>3, <1>4, <1>5, <1>6, <1>7, TypeParts DEF Types, IInv

LEMMA Parts ==
  ASSUME IInv
  PROVE  Types /\ LockInv /\ RowsInv /\ FireInv /\ \A b \in Backend : Kept(b) /\ RoundInv(b)
  BY TypeParts DEF IInv, Types

\* What is left alone keeps its part of the invariant.
LEMMA SameParts ==
  ASSUME IInv
  PROVE  /\ UNCHANGED <<held, switch>> => LockInv'
         /\ UNCHANGED <<own, saved, switch>> => RowsInv'
         /\ UNCHANGED <<own, todo, mode>> => FireInv'
  BY Parts DEF LockInv, RowsInv, FireInv, NoRows

LEMMA BeginStep ==
  ASSUME IInv, NEW b \in Backend, NEW rr \in BOOLEAN, Begin(b, rr)
  PROVE  IInv'
<1>1. Types /\ LockInv /\ RowsInv /\ FireInv /\ Kept(b) /\ RoundInv(b)
  BY Parts
<1>2. /\ pc[b] = "idle" /\ Goto(b, "open")
      /\ UNCHANGED <<db, mode, capture, own, saved, hooks, cache, behind, locks, commit, switch, bounds>>
  BY DEF Begin
<1>3. pc' \in [Backend -> Places] /\ pc'[b] = "open" /\ \A c \in Backend \ {b} : pc'[c] = pc[c]
  BY <1>1, <1>2, GotoOf DEF Places
<1>4. TypeRows'
  <2> DEFINE s == IF rr THEN [db |-> db, mode |-> mode] ELSE None
  <2>1. s \in Snaps \cup {None}
    BY <1>1 DEF Types, TypeShared, Snaps
  <2>2. snap' = [snap EXCEPT ![b] = s]
    BY DEF Begin
  <2> HIDE DEF s
  <2> QED
    BY <1>1, <1>2, <2>1, <2>2 DEF Types, TypeRows
<1>5. TypeRound'
  BY <1>1, <1>2, <1>3 DEF Types, TypeRound, commit
<1>6. Kept(b)'
  BY <1>1, <1>2, <1>3 DEF Kept, hooks, locks, commit
<1>7. RoundInv(b)'
  BY <1>1, <1>2, <1>3 DEF RoundInv, Locked, hooks, locks, commit, Results
<1>8. Others(b)
  BY <1>2, <1>3 DEF Others, hooks, locks, commit
<1>9. \A c \in Backend : Kept(c)' /\ RoundInv(c)'
  BY <1>1, <1>2, <1>6, <1>7, <1>8, Parts, OthersKept
<1> QED
  BY <1>1, <1>2, <1>4, <1>5, <1>9, SameTypes, SameParts, Together DEF locks, commit

\* A statement that wrote table t: the session goes on with what is to fire.
LEMMA StatementStep ==
  ASSUME IInv, NEW b \in Backend, NEW t \in Table, NEW ts, Wrote(b, t, ts), pc[b] = "open",
         own' \in [Backend -> Rows], TypeHooks', TypeTodo', TypeBounds',
         switch # None => t \notin switch.locked,
         NEW ks \in SUBSET Key, Left(b, Firing(Following(t), ks, <<>>)),
         NEW l \in {"open", "fires"}, Goto(b, l), Accept(b),
         UNCHANGED <<db, mode, capture, saved, snap, locks, batch, models, pass, switch, switches>>
  PROVE  IInv'
<1>1. Types /\ LockInv /\ RowsInv /\ FireInv /\ Kept(b) /\ RoundInv(b)
  BY Parts
<1>2. l \in Places
  BY DEF Places
<1>3. pc' \in [Backend -> Places] /\ pc'[b] = l /\ \A c \in Backend \ {b} : pc'[c] = pc[c]
  BY <1>1, <1>2, GotoOf
<1>4. TypeRows' /\ TypeRound'
  BY <1>1, <1>3 DEF Types, TypeRows, TypeRound
<1>5. RowsInv'
  BY <1>1, RowsStep
<1>6. FireInv'
  BY <1>1, DueNothing, FireStep
<1>7. Kept(b)'
  BY <1>1, <1>3 DEF Kept, Wrote, locks
<1>8. RoundInv(b)'
  BY <1>1, <1>3 DEF RoundInv, Locked, locks
<1>9. Others(b)
  BY <1>3 DEF Others, Wrote, locks
<1>10. \A c \in Backend : Kept(c)' /\ RoundInv(c)'
  BY <1>1, <1>7, <1>8, <1>9, Parts, OthersKept
<1> QED
  BY <1>1, <1>4, <1>5, <1>6, <1>10, AcceptOf, SameTypes, SameParts, Together DEF locks

LEMMA WriteStep ==
  ASSUME IInv, NEW b \in Backend, NEW t \in Rel, NEW k \in Key, NEW v \in {0, 1}, NEW fires \in BOOLEAN,
         Write(b, t, k, v, fires)
  PROVE  IInv'
<1> DEFINE row == [x \in Key |-> v]
           caught == IF fires THEN Capturing(t) ELSE {}
           l == IF todo'[b] = <<>> THEN "open" ELSE "fires"
<1>1. Types /\ t \in Table /\ <<>> \in Seq(Firings)
  BY Parts, DueNothing DEF Table
<1>2. /\ pc[b] = "open" /\ Writable(b, t, k) /\ Writes(b, t, {k}, row, caught, <<>>) /\ Goto(b, l)
      /\ Accept(b) /\ stmts < MaxStmts /\ stmts' = stmts + 1
      /\ UNCHANGED <<db, mode, capture, saved, snap, locks, batch, models, pass, switch, switches>>
  BY DEF Write
<1>3. row \in [Key -> Nat] /\ {k} \in SUBSET Key /\ {k} # {} /\ l \in {"open", "fires"}
  OBVIOUS
<1>4. caught \in SUBSET Model
  BY <1>1, CapturingOf DEF Types
<1> HIDE DEF row, caught, l
<1>5. PICK ks \in SUBSET Key, r \in [Key -> Nat], c \in SUBSET Model, j \in {"open", "fires"} :
        ks = {k} /\ ks # {} /\ r = row /\ c = caught /\ j = l
  BY <1>3, <1>4
<1>6. Writes(b, t, ks, r, c, <<>>) /\ Goto(b, j)
  BY <1>2, <1>5
<1>7. own' \in [Backend -> Rows] /\ TypeHooks' /\ TypeTodo' /\ Wrote(b, t, {t})
  BY <1>1, <1>5, <1>6, WritesOf
<1>8. Left(b, Firing(Following(t), ks, <<>>))
  BY <1>6 DEF Writes, Left
<1>9. TypeBounds'
  BY <1>1, <1>2, ConstantsAssumption DEF Types, TypeBounds
<1>10. switch # None => t \notin switch.locked
  BY <1>2 DEF Writable
<1> QED
  BY <1>1, <1>2, <1>6, <1>7, <1>8, <1>9, <1>10, StatementStep

LEMMA TruncateStep ==
  ASSUME IInv, NEW b \in Backend, NEW t \in Rel, NEW cascade \in BOOLEAN, Truncate(b, t, cascade)
  PROVE  IInv'
<1> DEFINE caught == Capturing(t)
           all == {t} \cup (IF cascade THEN {AnyRel} ELSE {})
           more == IF saved[b] # None THEN all \ written[b] ELSE {}
           zero == [k \in Key |-> 0]
           c == [x \in Model \X Table |-> IF x[1] \in caught /\ x[2] = t THEN Key ELSE captured[b][x]]
           l == IF todo'[b] = <<>> THEN "open" ELSE "fires"
<1>1. Types /\ TypeHooks /\ TypeRows /\ TypeTodo /\ t \in Table /\ <<>> \in Seq(Firings)
  BY Parts, DueNothing DEF Table, Types
<1>2. /\ pc[b] = "open" /\ (\A k \in Key : Writable(b, t, k)) /\ Goto(b, l)
      /\ Accept(b) /\ stmts < MaxStmts /\ stmts' = stmts + 1
      /\ UNCHANGED <<db, mode, capture, saved, snap, locks, batch, models, pass, switch, switches>>
  BY DEF Truncate
<1>3. PICK k \in Key : zero[k] \in Nat
  BY ConstantsAssumption
<1>4. zero \in [Key -> Nat \cup {None}] /\ zero # NoRows[t]
  <2>1. zero[k] # NoRows[t][k]
    BY <1>1, <1>3, ConstantsAssumption DEF NoRows
  <2> QED
    BY <2>1
<1>5. own' = [own EXCEPT ![b][t] = zero]
  BY DEF Truncate
<1>6. /\ own' \in [Backend -> Rows]
      /\ \A x \in Backend \ {b} : own'[x] = own[x]
      /\ own'[b][t] # NoRows[t] /\ \A u \in Table \ {t} : own'[b][u] = own[b][u]
  <2> HIDE DEF zero
  <2> QED
    BY <1>1, <1>4, <1>5, OwnOf DEF TypeRows
<1>7. caught \in SUBSET Model
  BY <1>1, CapturingOf DEF Types
<1>8. /\ written' \in [Backend -> Noted] /\ inner' \in [Backend -> Noted]
      /\ \A x \in Backend \ {b} : written'[x] = written[x] /\ inner'[x] = inner[x]
      /\ written'[b] = written[b] \cup all /\ inner'[b] \subseteq inner[b] \cup all
      /\ saved[b] = None => inner'[b] = inner[b]
  <2>1. all \in Noted /\ more \in SUBSET all /\ (saved[b] = None => more = {})
    BY <1>1 DEF Noted
  <2>2. inner' = [inner EXCEPT ![b] = @ \cup more] /\ written' = [written EXCEPT ![b] = @ \cup all]
    BY <1>1 DEF Truncate, TypeHooks
  <2> HIDE DEF more, all
  <2> QED
    BY <1>1, <2>1, <2>2, NotedOf
<1>9. captured' \in [Backend -> [Model \X Table -> SUBSET Key]]
  <2>1. captured[b] \in [Model \X Table -> SUBSET Key]
    BY <1>1 DEF TypeHooks
  <2>2. captured' = [captured EXCEPT ![b] = c]
    BY DEF Truncate
  <2> HIDE DEF caught
  <2>3. c \in [Model \X Table -> SUBSET Key]
    BY <2>1
  <2> QED
    BY <1>1, <2>2, <2>3, CapturedOf
<1>10. capOk' \in [Backend -> [Table -> (SUBSET Model) \cup {None}]]
  <2>1. capOk' = [capOk EXCEPT ![b][t] = Seen(@, caught)]
    BY DEF Truncate
  <2> HIDE DEF caught
  <2> QED
    BY <1>1, <1>7, <2>1, CapOkOf
<1>11. TypeHooks'
  BY <1>8, <1>9, <1>10 DEF TypeHooks
<1> HIDE DEF all, l
<1>12. Wrote(b, t, all)
  BY <1>6, <1>8 DEF Wrote
<1>13. todo' = [todo EXCEPT ![b] = Firing(Following(t), Key, <<>>)]
  BY DEF Truncate
<1>14. Firing(Following(t), Key, <<>>) \in Seq(Firings)
  BY <1>1, CapturingOf, FiringOf
<1>15. TypeTodo'
  BY <1>1, <1>13, <1>14 DEF TypeTodo
<1>16. TypeBounds'
  BY <1>1, <1>2, ConstantsAssumption DEF Types, TypeBounds
<1>17. switch # None => t \notin switch.locked
  BY <1>2, <1>3 DEF Writable
<1>18. PICK ks \in SUBSET Key, ts \in Noted, j \in {"open", "fires"} : ks = Key /\ ts = all /\ j = l
  BY <1>1 DEF l, all, Noted
<1>19. Left(b, Firing(Following(t), ks, <<>>)) /\ Goto(b, j) /\ Wrote(b, t, ts)
  BY <1>2, <1>12, <1>13, <1>18 DEF Left
<1> QED
  BY <1>1, <1>2, <1>6, <1>11, <1>15, <1>16, <1>17, <1>19, StatementStep

\* Session b locks m and may write its results; the invariants that hold afterwards.
Grew(b, m) ==
  /\ TypeRows' /\ TypeHooks' /\ TypeTodo' /\ TypeCache' /\ LockInv' /\ RowsInv' /\ FireInv'
  /\ held' \in [Backend -> SUBSET Model] /\ sub' \in [Backend -> SUBSET Model]
  /\ held'[b] = held[b] \cup {m} /\ sub[b] \subseteq sub'[b] /\ sub'[b] \subseteq sub[b] \cup {m}
  /\ saved[b] = None => sub'[b] = sub[b]
  /\ written[b] \subseteq written'[b] /\ written'[b] \subseteq written[b] \cup {Out[m]}
  /\ inner'[b] \subseteq inner[b] \cup written'[b]
  /\ saved[b] = None => inner'[b] = inner[b]
  /\ \A c \in Backend \ {b} : /\ held'[c] = held[c] /\ sub'[c] = sub[c] /\ own'[c] = own[c]
                              /\ written'[c] = written[c] /\ inner'[c] = inner[c]

\* A recompute that begins with a lock, whatever place the session goes on from.
LEMMA LockedStep ==
  ASSUME IInv, NEW b \in Backend, NEW m \in Model, NEW rest \in Seq(Firings), Due(b, rest),
         \/ \E ks \in SUBSET Key : Recomputed(b, m, ks, rest)
         \/ UNCHANGED <<own, hooks, cache, behind>> /\ Left(b, rest),
         Lockable(b, m), Lock(b, m), UNCHANGED <<db, mode, capture, saved, snap, switch>>
  PROVE  Grew(b, m)
<1>1. Types /\ LockInv /\ RowsInv /\ FireInv /\ Out[m] \in Table
  BY Parts DEF Table
<1>2. /\ held' \in [Backend -> SUBSET Model] /\ sub' \in [Backend -> SUBSET Model] /\ LockInv'
      /\ held'[b] = held[b] \cup {m} /\ sub[b] \subseteq sub'[b] /\ sub'[b] \subseteq sub[b] \cup {m}
      /\ saved[b] = None => sub'[b] = sub[b]
      /\ \A c \in Backend \ {b} : held'[c] = held[c] /\ sub'[c] = sub[c]
  BY <1>1, LockOf
<1>3. /\ own' \in [Backend -> Rows] /\ TypeHooks' /\ TypeTodo' /\ TypeCache'
      /\ \/ UNCHANGED <<own, hooks>> /\ Left(b, rest)
         \/ /\ Wrote(b, Out[m], {Out[m]})
            /\ switch # None => Out[m] \notin switch.locked
            /\ \E ks \in SUBSET Key : Left(b, Firing(Following(Out[m]), ks, rest))
  <2>1. CASE \E ks \in SUBSET Key : Recomputed(b, m, ks, rest)
    BY <1>1, <2>1, RecomputedOf
  <2>2. CASE UNCHANGED <<own, hooks, cache, behind>> /\ Left(b, rest)
    <3>1. TypeTodo'
      BY <1>1, <2>2 DEF Types, TypeTodo, Left
    <3> QED
      BY <1>1, <2>2, <3>1, SameTypes DEF Types, TypeRows
  <2> QED
    BY <2>1, <2>2
<1>4. TypeRows'
  BY <1>1, <1>3 DEF Types, TypeRows
<1>5. CASE UNCHANGED <<own, hooks>> /\ Left(b, rest)
  <2>1. RowsInv' /\ FireInv'
    BY <1>1, <1>5, SameRows, FireSame
  <2> QED
    BY <1>2, <1>3, <1>4, <1>5, <2>1 DEF hooks, Grew
<1>6. ASSUME Wrote(b, Out[m], {Out[m]}), switch # None => Out[m] \notin switch.locked,
             NEW ks \in SUBSET Key, Left(b, Firing(Following(Out[m]), ks, rest))
      PROVE  RowsInv' /\ FireInv'
  <2>1. PICK t \in Table, ts \in SUBSET Table : t = Out[m] /\ ts = {Out[m]}
    BY <1>1
  <2>2. Wrote(b, t, ts) /\ Left(b, Firing(Following(t), ks, rest)) /\ (switch # None => t \notin switch.locked)
    BY <1>6, <2>1
  <2> HIDE <1>6
  <2> QED
    BY <1>1, <2>2, RowsStep, FireStep
<1>7. CASE /\ Wrote(b, Out[m], {Out[m]})
           /\ switch # None => Out[m] \notin switch.locked
           /\ \E ks \in SUBSET Key : Left(b, Firing(Following(Out[m]), ks, rest))
  <2>1. RowsInv' /\ FireInv'
    BY <1>6, <1>7
  <2> QED
    BY <1>2, <1>3, <1>4, <1>7, <2>1 DEF Wrote, Grew
<1> QED
  BY <1>3, <1>5, <1>7

LEMMA FiresStep ==
  ASSUME IInv, NEW b \in Backend, Fire(b)
  PROVE  IInv'
<1> DEFINE now == Head(todo[b])
           m == NextModel(now.models)
           ms == now.models \ {m}
           rest == Firing(ms, now.keys, Tail(todo[b]))
           l == IF pc[b] = "fires" /\ todo'[b] = <<>> THEN "open" ELSE pc[b]
<1>1. Types /\ FireInv /\ Kept(b) /\ RoundInv(b)
  BY Parts
<1>2. /\ pc[b] \in {"fires", "recompute"} /\ todo[b] # <<>> /\ Lockable(b, m) /\ Lock(b, m)
      /\ Goto(b, l)
      /\ UNCHANGED <<db, mode, capture, saved, snap, asked, batch, models, pass, switch, bounds>>
  BY DEF Fire
<1>3. \/ Recomputed(b, m, now.keys, rest)
      \/ UNCHANGED <<own, hooks, cache, behind>> /\ Left(b, rest)
  BY DEF Fire, Left
<1>4. ms \in SUBSET now.models
  OBVIOUS
<1>5. /\ now.models \in SUBSET Model /\ now.models # {} /\ now.keys \in SUBSET Key
      /\ \A n \in now.models : mode[n] # "commit"
      /\ rest \in Seq(Firings) /\ Due(b, rest)
  BY <1>1, <1>2, <1>4, DueRest
<1> HIDE DEF now, ms, rest
<1>6. m \in Model /\ mode[m] # "commit"
  BY <1>5, NextModelOf
<1>7. l \in Places /\ l \in {"open", "fires", "recompute"} /\ (l = "recompute" <=> pc[b] = "recompute")
  BY <1>2 DEF Places
<1> HIDE DEF m, l
<1>8. PICK n \in Model, r \in Seq(Firings), j \in Places : n = m /\ r = rest /\ j = l
  BY <1>5, <1>6, <1>7
<1>9. /\ Due(b, r) /\ Lockable(b, n) /\ Lock(b, n)
      /\ \/ \E ks \in SUBSET Key : Recomputed(b, n, ks, r)
         \/ UNCHANGED <<own, hooks, cache, behind>> /\ Left(b, r)
  BY <1>2, <1>3, <1>5, <1>8
<1>10. Grew(b, n)
  BY <1>2, <1>9, LockedStep
<1>11. pc' \in [Backend -> Places] /\ pc'[b] = l /\ \A c \in Backend \ {b} : pc'[c] = pc[c]
  BY <1>1, <1>2, <1>8, GotoOf
<1>12. TypeLocks' /\ TypeRound'
  BY <1>1, <1>2, <1>10, <1>11 DEF Types, TypeLocks, TypeRound, Grew
<1>13. Kept(b)'
  BY <1>1, <1>2, <1>7, <1>10, <1>11 DEF Kept, Grew
<1>14. Locked(b)' = Locked(b)
  BY <1>2, <1>6, <1>8, <1>10 DEF Locked, Grew
<1>15. RoundInv(b)'
  <2>1. Results' = Results /\ Out[n] \in Results
    BY DEF Results
  <2>2. pass'[b] = pass[b] /\ models'[b] = models[b] /\ saved'[b] = saved[b]
    BY <1>2
  <2>3. pc[b] = "fires" => pass[b] = 0
    BY <1>1 DEF RoundInv
  <2> QED
    BY <1>1, <1>2, <1>7, <1>10, <1>11, <1>14, <2>1, <2>2, <2>3 DEF RoundInv, Grew
<1>16. Others(b)
  BY <1>2, <1>10, <1>11 DEF Others, Grew
<1>17. \A c \in Backend : Kept(c)' /\ RoundInv(c)'
  BY <1>1, <1>2, <1>13, <1>15, <1>16, Parts, OthersKept
<1> QED
  BY <1>1, <1>2, <1>10, <1>12, <1>17, SameTypes, Together DEF Grew

LEMMA RecalcStep ==
  ASSUME IInv, NEW b \in Backend, NEW m \in Model, Recalc(b, m)
  PROVE  IInv'
<1> DEFINE l == IF todo'[b] = <<>> THEN "open" ELSE "fires"
<1>1. Types /\ Kept(b) /\ RoundInv(b) /\ <<>> \in Seq(Firings) /\ Due(b, <<>>)
  BY Parts, DueNothing
<1>2. /\ pc[b] = "open" /\ stmts < MaxStmts /\ Lockable(b, m) /\ Lock(b, m) /\ Goto(b, l)
      /\ asked' = [asked EXCEPT ![b] = @ \cup {m}] /\ Recomputed(b, m, Key, <<>>) /\ stmts' = stmts + 1
      /\ UNCHANGED <<db, mode, capture, saved, snap, batch, models, pass, switch, switches>>
  BY DEF Recalc
<1>3. PICK ks \in SUBSET Key, r \in Seq(Firings), j \in Places :
        ks = Key /\ r = <<>> /\ j = l /\ j \in {"open", "fires"}
  BY <1>1 DEF Places
<1> HIDE DEF l
<1>4. Due(b, r) /\ Recomputed(b, m, ks, r) /\ Goto(b, j)
  BY <1>1, <1>2, <1>3
<1>5. Grew(b, m)
  BY <1>2, <1>4, LockedStep
<1>6. pc' \in [Backend -> Places] /\ pc'[b] = j /\ \A c \in Backend \ {b} : pc'[c] = pc[c]
  BY <1>1, <1>4, GotoOf
<1>7. /\ asked' \in [Backend -> SUBSET Model] /\ asked'[b] = asked[b] \cup {m}
      /\ \A c \in Backend \ {b} : asked'[c] = asked[c]
  BY <1>1, <1>2 DEF Types, TypeLocks
<1>8. TypeLocks' /\ TypeRound'
  BY <1>1, <1>2, <1>5, <1>6, <1>7 DEF Types, TypeLocks, TypeRound, Grew
<1>9. TypeBounds'
  BY <1>1, <1>2, ConstantsAssumption DEF Types, TypeBounds
<1>10. Kept(b)'
  BY <1>1, <1>2, <1>3, <1>5, <1>6, <1>7 DEF Kept, Grew
<1>11. Locked(b)' \subseteq Locked(b)
  BY <1>2, <1>5, <1>7 DEF Locked, Grew
<1>12. RoundInv(b)'
  <2>1. pass'[b] = 0
    BY <1>1, <1>2 DEF RoundInv
  <2>2. Locked(b)' = {}
    BY <1>1, <1>2, <1>11, <2>1 DEF RoundInv
  <2> QED
    BY <1>3, <1>6, <2>1, <2>2 DEF RoundInv
<1>13. Others(b)
  BY <1>2, <1>5, <1>6, <1>7 DEF Others, Grew
<1>14. \A c \in Backend : Kept(c)' /\ RoundInv(c)'
  BY <1>1, <1>2, <1>10, <1>12, <1>13, Parts, OthersKept
<1> QED
  BY <1>1, <1>2, <1>5, <1>8, <1>9, <1>14, SameTypes, Together DEF Grew

LEMMA RecomputeStep ==
  ASSUME IInv, NEW b \in Backend, Recompute(b)
  PROVE  IInv'
<1> DEFINE m == NextModel(models[b])
<1>1. Types /\ Kept(b) /\ RoundInv(b) /\ <<>> \in Seq(Firings) /\ Due(b, <<>>)
  BY Parts, DueNothing
<1>2. /\ pc[b] = "recompute" /\ todo[b] = <<>> /\ models[b] # {} /\ Lockable(b, m) /\ Lock(b, m)
      /\ models' = [models EXCEPT ![b] = @ \ {m}]
      /\ UNCHANGED <<db, mode, capture, pc, saved, snap, asked, batch, pass, switch, bounds>>
  BY DEF Recompute
<1>3. \/ Recomputed(b, m, Scope(b, m), <<>>)
      \/ UNCHANGED <<own, hooks, todo, cache, behind>>
  BY DEF Recompute
<1>4. models[b] \in SUBSET Model /\ models \in [Backend -> SUBSET Model] /\ Model \subseteq Nat
  BY <1>1, ConstantsAssumption DEF Types, TypeRound
<1>5. m \in models[b] /\ \A n \in models[b] : m <= n
  BY <1>2, <1>4, NextModelOf
<1> HIDE DEF m
<1>6. Scope(b, m) \in SUBSET Key
  <2>1. m \in Model /\ \A t \in Table : captured[b][<<m, t>>] \in SUBSET Key
    BY <1>1, <1>4, <1>5 DEF Types, TypeHooks
  <2>2. Binds[m] \subseteq Table
    BY <2>1, ConstantsAssumption
  <2> QED
    BY <2>1, <2>2 DEF Scope
<1>7. UNCHANGED <<own, hooks, todo, cache, behind>> => UNCHANGED <<own, hooks, cache, behind>> /\ Left(b, <<>>)
  BY <1>1, <1>2 DEF Left, Types, TypeTodo
<1>8. PICK n \in Model, r \in Seq(Firings) : n = m /\ r = <<>>
  BY <1>1, <1>4, <1>5
<1>9. /\ Due(b, r) /\ Lockable(b, n) /\ Lock(b, n)
      /\ \/ \E ks \in SUBSET Key : Recomputed(b, n, ks, r)
         \/ UNCHANGED <<own, hooks, cache, behind>> /\ Left(b, r)
  BY <1>1, <1>2, <1>3, <1>6, <1>7, <1>8
<1>10. Grew(b, n)
  BY <1>2, <1>9, LockedStep
<1>11. /\ models' \in [Backend -> SUBSET Model] /\ models'[b] = models[b] \ {m}
       /\ \A c \in Backend \ {b} : models'[c] = models[c]
  BY <1>2, <1>4
<1>12. TypeLocks' /\ TypeRound'
  BY <1>1, <1>2, <1>10, <1>11 DEF Types, TypeLocks, TypeRound, Grew
<1>13. Kept(b)'
  BY <1>1, <1>2, <1>10, <1>11 DEF Kept, Grew
<1>14. Locked(b)' \subseteq Locked(b) \cup {m}
  BY <1>2, <1>8, <1>10 DEF Locked, Grew
<1>15. RoundInv(b)'
  <2>1. Results' = Results /\ Out[n] \in Results
    BY DEF Results
  <2>2. pass'[b] = pass[b] /\ pc'[b] = pc[b] /\ saved'[b] = saved[b] /\ pass[b] # 0
    BY <1>1, <1>2 DEF RoundInv
  <2>3. pass[b] = 1 => \A i \in Locked(b)', k \in models'[b] : i < k
    <3> SUFFICES ASSUME pass[b] = 1, NEW i \in Locked(b)', NEW k \in models'[b] PROVE i < k
      OBVIOUS
    <3>1. m \in Nat /\ k \in Nat /\ m <= k /\ m # k
      BY <1>4, <1>5, <1>11
    <3>2. \A h \in Locked(b) : h < k
      BY <1>1, <1>11 DEF RoundInv
    <3> QED
      BY <1>14, <3>1, <3>2
  <2>4. written'[b] \subseteq Results
    BY <1>1, <1>10, <2>1, <2>2 DEF RoundInv, Grew
  <2>5. pass[b] > 1 => \A k \in models'[b] : Binds[k] \cap Results # {}
    BY <1>1, <1>11 DEF RoundInv
  <2> QED
    BY <1>1, <1>2, <2>1, <2>2, <2>3, <2>4, <2>5 DEF RoundInv
<1>16. Others(b)
  BY <1>2, <1>10, <1>11 DEF Others, Grew
<1>17. \A c \in Backend : Kept(c)' /\ RoundInv(c)'
  BY <1>1, <1>2, <1>13, <1>15, <1>16, Parts, OthersKept
<1> QED
  BY <1>1, <1>2, <1>10, <1>12, <1>17, SameTypes, Together DEF Grew

LEMMA SavepointStep ==
  ASSUME IInv, NEW b \in Backend, Savepoint(b)
  PROVE  IInv'
<1>1. Types /\ RowsInv /\ Kept(b) /\ RoundInv(b) /\ NoRows' = NoRows
  BY Parts DEF NoRows
<1>2. /\ pc[b] = "open" /\ saved[b] = None /\ saved' = [saved EXCEPT ![b] = own[b]]
      /\ UNCHANGED <<db, mode, capture, pc, own, snap, hooks, cache, behind, locks, commit, switch, bounds>>
  BY DEF Savepoint
<1>3. /\ TypeRows' /\ saved'[b] = own[b] /\ \A c \in Backend \ {b} : saved'[c] = saved[c]
  BY <1>1, <1>2 DEF Types, TypeRows
<1>4. RowsInv'
  BY <1>1, <1>2, <1>3 DEF RowsInv
<1>5. Kept(b)'
  BY <1>1, <1>2 DEF Kept, hooks, locks, commit
<1>6. RoundInv(b)'
  BY <1>1, <1>2 DEF RoundInv, Locked, Results, hooks, locks, commit
<1>7. Others(b)
  BY <1>2, <1>3 DEF Others, hooks, locks, commit
<1>8. \A c \in Backend : Kept(c)' /\ RoundInv(c)'
  BY <1>1, <1>2, <1>5, <1>6, <1>7, Parts, OthersKept
<1> QED
  BY <1>1, <1>2, <1>3, <1>4, <1>8, SameTypes, SameParts, Together DEF locks, commit

LEMMA RollbackToStep ==
  ASSUME IInv, NEW b \in Backend, RollbackTo(b)
  PROVE  IInv'
<1>1. Types /\ LockInv /\ RowsInv /\ FireInv /\ Kept(b) /\ RoundInv(b) /\ NoRows' = NoRows
  BY Parts DEF NoRows
<1>2. /\ pc[b] \in {"open", "fires"} /\ saved[b] # None /\ Goto(b, "open")
      /\ UNCHANGED <<db, mode, capture, snap, captured, capOk, cache, behind, batch, models, pass, switch, bounds>>
  BY DEF RollbackTo
<1>3. pc' \in [Backend -> Places] /\ pc'[b] = "open" /\ \A c \in Backend \ {b} : pc'[c] = pc[c]
  BY <1>1, <1>2, GotoOf DEF Places
<1>4. /\ TypeRows' /\ own'[b] = saved[b] /\ saved'[b] = None
      /\ \A c \in Backend \ {b} : own'[c] = own[c] /\ saved'[c] = saved[c]
  BY <1>1, <1>2 DEF RollbackTo, Types, TypeRows
<1>5. /\ TypeHooks' /\ written'[b] = written[b] \ inner[b] /\ inner'[b] = {}
      /\ \A c \in Backend \ {b} : written'[c] = written[c] /\ inner'[c] = inner[c]
  <2>1. written[b] \ inner[b] \in Noted /\ {} \in Noted
    BY <1>1 DEF Types, TypeHooks, Noted
  <2> QED
    BY <1>1, <1>2, <2>1 DEF RollbackTo, Types, TypeHooks
<1>6. /\ TypeLocks' /\ held'[b] = held[b] \ sub[b] /\ asked'[b] = asked[b] \ sub[b] /\ sub'[b] = {}
      /\ \A c \in Backend \ {b} : held'[c] = held[c] /\ asked'[c] = asked[c] /\ sub'[c] = sub[c]
  BY <1>1, <1>2 DEF RollbackTo, Types, TypeLocks
<1>7. TypeTodo' /\ todo'[b] = <<>> /\ \A c \in Backend \ {b} : todo'[c] = todo[c]
  BY <1>1, <1>2 DEF RollbackTo, Types, TypeTodo
<1>8. TypeRound'
  BY <1>1, <1>2, <1>3 DEF Types, TypeRound
<1>9. LockInv'
  BY <1>1, <1>2, <1>6 DEF LockInv
<1>10. RowsInv'
  <2>1. ASSUME switch' # None, NEW t \in switch'.locked, NEW c \in Backend
        PROVE  own'[c][t] = NoRows[t]
    <3>1. t \in Table /\ own[c][t] = NoRows[t] /\ switch' = switch
      BY <1>1, <1>2, <2>1 DEF RowsInv, Types, TypeSwitch, Switches
    <3>2. CASE c = b
      BY <1>1, <1>2, <1>4, <3>1, <3>2 DEF RowsInv
    <3> QED
      BY <1>4, <3>1, <3>2
  <2>2. \A c \in Backend : saved'[c] # None =>
          \A t \in Table : own'[c][t] = NoRows[t] => saved'[c][t] = NoRows[t]
    BY <1>1, <1>4 DEF RowsInv
  <2> QED
    BY <1>1, <2>1, <2>2 DEF RowsInv
<1>11. FireInv'
  BY <1>1, <1>2, <1>4, <1>7 DEF FireInv
<1>12. Kept(b)'
  BY <1>1, <1>2, <1>3, <1>4, <1>5, <1>6 DEF Kept
<1>13. RoundInv(b)'
  <2>1. pass'[b] = 0 /\ Locked(b) = {}
    BY <1>1, <1>2 DEF RoundInv
  <2>2. Locked(b)' = {}
    BY <1>2, <1>6, <2>1 DEF Locked
  <2> QED
    BY <1>3, <2>1, <2>2 DEF RoundInv
<1>14. Others(b)
  BY <1>2, <1>3, <1>4, <1>5, <1>6 DEF Others
<1>15. \A c \in Backend : Kept(c)' /\ RoundInv(c)'
  BY <1>1, <1>2, <1>12, <1>13, <1>14, Parts, OthersKept
<1> QED
  BY <1>1, <1>2, <1>4, <1>5, <1>6, <1>7, <1>8, <1>9, <1>10, <1>11, <1>15, SameTypes, Together

LEMMA PreCommitStep ==
  ASSUME IInv, NEW b \in Backend, PreCommit(b)
  PROVE  IInv'
<1>1. Types /\ RowsInv /\ Kept(b) /\ RoundInv(b) /\ NoRows' = NoRows
  BY Parts DEF NoRows
<1>2. /\ pc[b] = "open" /\ Accept(b)
      /\ UNCHANGED <<db, mode, capture, own, snap, written, captured, capOk, held, asked, commit, switch, bounds>>
  BY DEF PreCommit
<1>3. PICK l \in {"commit", "pass"} : Goto(b, l)
  BY DEF PreCommit
<1>4. pc' \in [Backend -> Places] /\ pc'[b] = l /\ \A c \in Backend \ {b} : pc'[c] = pc[c]
  BY <1>1, <1>3, GotoOf DEF Places
<1>5. TypeRows' /\ saved'[b] = None /\ \A c \in Backend \ {b} : saved'[c] = saved[c]
  BY <1>1, <1>2 DEF PreCommit, Types, TypeRows
<1>6. TypeHooks' /\ inner'[b] = {} /\ \A c \in Backend \ {b} : inner'[c] = inner[c]
  BY <1>1, <1>2 DEF PreCommit, Types, TypeHooks, Noted
<1>7. TypeLocks' /\ sub'[b] = {} /\ \A c \in Backend \ {b} : sub'[c] = sub[c]
  BY <1>1, <1>2 DEF PreCommit, Types, TypeLocks
<1>8. TypeRound' /\ TypeTodo'
  BY <1>1, <1>2, <1>4 DEF Types, TypeRound, TypeTodo, commit
<1>9. RowsInv'
  BY <1>1, <1>2, <1>5 DEF RowsInv
<1>10. Kept(b)'
  BY <1>1, <1>2, <1>4, <1>5, <1>6, <1>7 DEF Kept, commit
<1>11. RoundInv(b)'
  <2>1. pass'[b] = 0 /\ Locked(b)' = {}
    BY <1>1, <1>2 DEF RoundInv, Locked, commit
  <2> QED
    BY <1>4, <1>5, <2>1 DEF RoundInv
<1>12. Others(b)
  BY <1>2, <1>4, <1>5, <1>6, <1>7 DEF Others, commit
<1>13. \A c \in Backend : Kept(c)' /\ RoundInv(c)'
  BY <1>1, <1>2, <1>10, <1>11, <1>12, Parts, OthersKept
<1> QED
  BY <1>1, <1>2, <1>5, <1>6, <1>7, <1>8, <1>9, <1>13, AcceptOf, SameTypes, SameParts, Together DEF commit

LEMMA PassStep ==
  ASSUME IInv, NEW b \in Backend, Pass(b)
  PROVE  IInv'
<1> DEFINE set == IF cache[b] = None THEN LoadBound(b) ELSE cache[b]
           hits == Hits(set, written[b])
<1>1. Types /\ Kept(b) /\ RoundInv(b) /\ Results' = Results
  BY Parts DEF Results
<1>2. /\ pc[b] = "pass" /\ written' = [written EXCEPT ![b] = {}]
      /\ cache' = [cache EXCEPT ![b] = IF snap[b] = None THEN set ELSE @]
      /\ UNCHANGED <<db, mode, capture, own, saved, snap, inner, captured, capOk, behind, locks, todo, switch, bounds>>
  BY DEF Pass
<1>3. TypeHooks' /\ written'[b] = {} /\ \A c \in Backend \ {b} : written'[c] = written[c]
  BY <1>1, <1>2 DEF Types, TypeHooks, Noted
<1>4. TypeCache'
  <2>1. set \in (SUBSET Table) \cup {None}
    BY <1>1, ConstantsAssumption DEF Types, TypeCache, LoadBound
  <2> HIDE DEF set
  <2> QED
    BY <1>1, <1>2, <2>1 DEF Types, TypeCache
<1>5. saved[b] = None /\ inner[b] = {} /\ models[b] = {} /\ Locked(b)' = Locked(b)
  BY <1>1, <1>2 DEF RoundInv, Kept, Locked, locks
<1>6. CASE Goto(b, "commit") /\ UNCHANGED <<batch, models, pass>>
  <2>1. pc' \in [Backend -> Places] /\ pc'[b] = "commit" /\ \A c \in Backend \ {b} : pc'[c] = pc[c]
    BY <1>1, <1>6, GotoOf DEF Places
  <2>2. TypeRound'
    BY <1>1, <1>6, <2>1 DEF Types, TypeRound
  <2>3. Kept(b)'
    BY <1>1, <1>2, <1>3, <1>5, <1>6, <2>1 DEF Kept, locks
  <2>4. RoundInv(b)'
    BY <1>1, <1>2, <1>3, <1>5, <1>6, <2>1 DEF RoundInv
  <2>5. Others(b)
    BY <1>2, <1>3, <1>6, <2>1 DEF Others, locks
  <2>6. \A c \in Backend : Kept(c)' /\ RoundInv(c)'
    BY <1>1, <1>2, <2>3, <2>4, <2>5, Parts, OthersKept
  <2> QED
    BY <1>1, <1>2, <1>3, <1>4, <2>2, <2>6, SameTypes, SameParts, Together DEF locks
<1>7. CASE /\ pass[b] # MaxPass /\ batch' = [batch EXCEPT ![b] = written[b]]
           /\ models' = [models EXCEPT ![b] = ModelsFor(b, hits)]
           /\ pass' = [pass EXCEPT ![b] = @ + 1] /\ Goto(b, "recompute")
  <2>1. pc' \in [Backend -> Places] /\ pc'[b] = "recompute" /\ \A c \in Backend \ {b} : pc'[c] = pc[c]
    BY <1>1, <1>7, GotoOf DEF Places
  <2>2. /\ batch' \in [Backend -> Noted]
        /\ pass' \in [Backend -> 0 .. MaxPass] /\ pass'[b] = pass[b] + 1 /\ pass[b] \in Nat
        /\ \A c \in Backend \ {b} : pass'[c] = pass[c]
    <3>1. pass \in [Backend -> 0 .. MaxPass] /\ MaxPass \in Nat
      BY <1>1, ConstantsAssumption DEF Types, TypeRound
    <3>2. pass[b] + 1 \in 0 .. MaxPass /\ pass[b] \in Nat
      BY <1>7, <3>1
    <3>3. batch' \in [Backend -> Noted]
      BY <1>1, <1>7 DEF Types, TypeRound, TypeHooks
    <3> QED
      BY <1>7, <3>1, <3>2, <3>3
  <2>3. ModelsFor(b, hits) \in SUBSET Model
    BY DEF ModelsFor
  <2>4. /\ models' \in [Backend -> SUBSET Model] /\ models'[b] = ModelsFor(b, hits)
        /\ \A c \in Backend \ {b} : models'[c] = models[c]
    <3> HIDE DEF hits
    <3> QED
      BY <1>1, <1>7, <2>3 DEF Types, TypeRound
  <2>5. TypeRound'
    BY <2>1, <2>2, <2>4 DEF TypeRound
  <2>6. Kept(b)'
    BY <1>1, <1>2, <1>3, <1>5, <2>1 DEF Kept, locks
  <2>7. pass'[b] > 1 => \A n \in models'[b] : Binds[n] \cap Results # {}
    <3> SUFFICES ASSUME pass'[b] > 1, NEW n \in ModelsFor(b, hits) PROVE Binds[n] \cap Results # {}
      BY <2>4
    <3>1. written[b] \subseteq Results
      BY <1>1, <2>2 DEF RoundInv
    <3>2. AnyRel \notin written[b]
      BY <3>1, ConstantsAssumption DEF Results, Table
    <3>3. hits \subseteq Results /\ AnyRel \notin hits
      BY <3>1, <3>2 DEF Hits
    <3> HIDE DEF hits
    <3> QED
      BY <3>3 DEF ModelsFor
  <2>8. pass'[b] # 0 /\ (pass'[b] = 1 => Locked(b)' = {})
    BY <1>1, <1>5, <2>2 DEF RoundInv
  <2>9. RoundInv(b)'
    BY <1>1, <1>2, <1>3, <1>5, <2>1, <2>7, <2>8 DEF RoundInv
  <2>10. Others(b)
    BY <1>2, <1>3, <2>1, <2>2, <2>4 DEF Others, locks
  <2>11. \A c \in Backend : Kept(c)' /\ RoundInv(c)'
    BY <1>1, <1>2, <2>6, <2>9, <2>10, Parts, OthersKept
  <2> QED
    BY <1>1, <1>2, <1>3, <1>4, <2>5, <2>11, SameTypes, SameParts, Together DEF locks
<1> QED
  BY <1>6, <1>7 DEF Pass

LEMMA PassEndsStep ==
  ASSUME IInv, NEW b \in Backend, PassEnds(b)
  PROVE  IInv'
<1>1. Types /\ Kept(b) /\ RoundInv(b) /\ Results' = Results
  BY Parts DEF Results
<1>2. /\ pc[b] = "recompute" /\ models[b] = {} /\ Goto(b, "pass") /\ batch' = [batch EXCEPT ![b] = {}]
      /\ UNCHANGED <<db, mode, capture, own, saved, snap, hooks, cache, behind, locks, todo, models, pass, switch, bounds>>
  BY DEF PassEnds
<1>3. pc' \in [Backend -> Places] /\ pc'[b] = "pass" /\ \A c \in Backend \ {b} : pc'[c] = pc[c]
  BY <1>1, <1>2, GotoOf DEF Places
<1>4. TypeRound'
  BY <1>1, <1>2, <1>3 DEF Types, TypeRound, Noted
<1>5. Kept(b)'
  BY <1>1, <1>2, <1>3 DEF Kept, hooks, locks
<1>6. RoundInv(b)'
  BY <1>1, <1>2, <1>3 DEF RoundInv, Locked, hooks, locks
<1>7. Others(b)
  BY <1>2, <1>3 DEF Others, hooks, locks
<1>8. \A c \in Backend : Kept(c)' /\ RoundInv(c)'
  BY <1>1, <1>2, <1>5, <1>6, <1>7, Parts, OthersKept
<1> QED
  BY <1>1, <1>2, <1>4, <1>8, SameTypes, SameParts, Together DEF locks

\* The transaction ends, with its rows or without.
LEMMA EndsStep ==
  ASSUME IInv, NEW b \in Backend, Ends(b), db' \in [Table -> [Key -> Nat]]
  PROVE  IInv'
<1>1. Types /\ LockInv /\ RowsInv /\ FireInv /\ NoRows' = NoRows /\ Goto(b, "idle")
  BY Parts DEF NoRows, Ends
<1>2. UNCHANGED <<mode, capture, cache, behind, switch, bounds>>
  BY DEF Ends
<1>3. pc' \in [Backend -> Places] /\ pc'[b] = "idle" /\ \A c \in Backend \ {b} : pc'[c] = pc[c]
  BY <1>1, GotoOf DEF Places
<1>4. TypeShared'
  BY <1>1, <1>2 DEF Types, TypeShared
<1>5. /\ TypeRows' /\ own'[b] = NoRows /\ saved'[b] = None
      /\ \A c \in Backend \ {b} : own'[c] = own[c] /\ saved'[c] = saved[c]
  <2>1. NoRows \in Rows
    BY DEF NoRows, Rows
  <2> QED
    BY <1>1, <2>1 DEF Ends, Types, TypeRows
<1>6. /\ written' \in [Backend -> Noted] /\ written'[b] = {}
      /\ inner' \in [Backend -> Noted] /\ inner'[b] = {}
      /\ \A c \in Backend \ {b} : written'[c] = written[c] /\ inner'[c] = inner[c]
  BY <1>1 DEF Ends, Types, TypeHooks, Noted
<1>7. captured' \in [Backend -> [Model \X Table -> SUBSET Key]]
  <2> DEFINE n == [x \in Model \X Table |-> {}]
  <2>1. n \in [Model \X Table -> SUBSET Key] /\ captured' = [captured EXCEPT ![b] = n]
    BY DEF Ends
  <2> HIDE DEF n
  <2> QED
    BY <1>1, <2>1, CapturedOf DEF Types
<1>8. capOk' \in [Backend -> [Table -> (SUBSET Model) \cup {None}]]
  <2> DEFINE n == [t \in Table |-> None]
  <2>1. n \in [Table -> (SUBSET Model) \cup {None}] /\ capOk' = [capOk EXCEPT ![b] = n]
    BY DEF Ends
  <2> HIDE DEF n
  <2> QED
    BY <1>1, <2>1 DEF Types, TypeHooks
<1>9. TypeHooks'
  BY <1>6, <1>7, <1>8 DEF TypeHooks
<1>10. /\ TypeLocks' /\ held'[b] = {} /\ asked'[b] = {} /\ sub'[b] = {}
       /\ \A c \in Backend \ {b} : held'[c] = held[c] /\ asked'[c] = asked[c] /\ sub'[c] = sub[c]
  BY <1>1 DEF Ends, Types, TypeLocks
<1>11. TypeTodo' /\ todo'[b] = <<>> /\ \A c \in Backend \ {b} : todo'[c] = todo[c]
  BY <1>1 DEF Ends, Types, TypeTodo
<1>12. /\ TypeRound' /\ models'[b] = {} /\ pass'[b] = 0
       /\ \A c \in Backend \ {b} : models'[c] = models[c] /\ pass'[c] = pass[c]
  BY <1>1, <1>3, ConstantsAssumption DEF Ends, Types, TypeRound, Noted
<1>13. LockInv'
  BY <1>1, <1>2, <1>10 DEF LockInv
<1>14. RowsInv'
  <2>1. \A c \in Backend : saved'[c] # None =>
          \A t \in Table : own'[c][t] = NoRows[t] => saved'[c][t] = NoRows[t]
    BY <1>1, <1>5 DEF RowsInv
  <2>2. switch' # None => \A t \in switch'.locked : \A c \in Backend : own'[c][t] = NoRows[t]
    BY <1>1, <1>2, <1>5 DEF RowsInv
  <2> QED
    BY <1>1, <2>1, <2>2 DEF RowsInv
<1>15. FireInv'
  BY <1>1, <1>2, <1>5, <1>11 DEF FireInv
<1>16. Kept(b)'
  BY <1>1, <1>3, <1>5, <1>6, <1>10, <1>12 DEF Kept
<1>17. Locked(b)' = {}
  BY <1>10 DEF Locked
<1>18. RoundInv(b)'
  BY <1>3, <1>5, <1>12, <1>17 DEF RoundInv
<1>19. Others(b)
  BY <1>3, <1>5, <1>6, <1>10, <1>12 DEF Others
<1>20. \A c \in Backend : Kept(c)' /\ RoundInv(c)'
  BY <1>1, <1>2, <1>16, <1>18, <1>19, Parts, OthersKept
<1> QED
  BY <1>1, <1>2, <1>4, <1>5, <1>9, <1>10, <1>11, <1>12, <1>13, <1>14, <1>15, <1>20, SameTypes, Together

LEMMA CommitStep ==
  ASSUME IInv, NEW b \in Backend, Commit(b) \/ Abort(b)
  PROVE  IInv'
<1>1. db \in [Table -> [Key -> Nat]] /\ own[b] \in Rows
  BY Parts DEF Types, TypeShared, TypeRows
<1>2. Over(db, own[b]) \in [Table -> [Key -> Nat]]
  BY <1>1 DEF Over, Rows
<1> QED
  BY <1>1, <1>2, EndsStep DEF Commit, Abort

-----------------------------------------------------------------------------
(* set_sync_mode. *)

LEMMA SwitchParts ==
  ASSUME IInv, NoSwitch, UNCHANGED mode, switch' \in Switches \cup {None}
  PROVE  /\ TypeRows' /\ TypeHooks' /\ TypeLocks' /\ TypeTodo' /\ TypeRound' /\ TypeSwitch' /\ FireInv'
         /\ \A c \in Backend : Kept(c)' /\ RoundInv(c)'
<1>1. Types /\ FireInv /\ NoRows' = NoRows /\ Results' = Results
  BY Parts DEF NoRows, Results
<1>2. UNCHANGED <<pc, own, saved, snap, hooks, cache, locks, commit>>
  BY DEF NoSwitch
<1>3. TypeRows' /\ TypeHooks' /\ TypeLocks' /\ TypeTodo' /\ TypeRound' /\ TypeSwitch'
  BY <1>1, <1>2, SameTypes DEF commit, TypeSwitch
<1>4. ASSUME NEW c \in Backend PROVE Kept(c)' /\ RoundInv(c)'
  <2>1. Kept(c) /\ RoundInv(c) /\ Locked(c)' = Locked(c)
    BY <1>2, Parts DEF Locked, locks
  <2> QED
    BY <1>1, <1>2, <2>1 DEF Kept, RoundInv, hooks, locks, commit
<1>5. FireInv'
  BY <1>2, SameParts DEF commit
<1> QED
  BY <1>3, <1>4, <1>5

LEMMA BeginSwitchStep ==
  ASSUME IInv, NEW m \in Model, NEW to \in Modes, NEW rows \in BOOLEAN, BeginSwitch(m, to, rows)
  PROVE  IInv'
<1> DEFINE s == [model |-> m, to |-> to, rows |-> rows, locked |-> {}]
<1>1. Types /\ LockInv /\ RowsInv
  BY Parts
<1>2. /\ switches < MaxSwitches /\ (\A b \in Backend : m \notin held[b])
      /\ (rows => to = "commit") /\ switch' = s
      /\ switches' = switches + 1 /\ UNCHANGED <<db, mode, capture, behind, stmts>> /\ NoSwitch
  BY DEF BeginSwitch
<1>3. s \in Switches /\ s.model = m /\ s.locked = {} /\ (s.rows => s.to = "commit")
  BY <1>2 DEF Switches
<1> HIDE DEF s
<1>4. UNCHANGED <<own, saved, held, cache>>
  BY <1>2 DEF NoSwitch, locks
<1>5. TypeBounds'
  BY <1>1, <1>2, ConstantsAssumption DEF Types, TypeBounds
<1>6. LockInv'
  BY <1>1, <1>2, <1>3, <1>4 DEF LockInv
<1>7. RowsInv'
  BY <1>1, <1>2, <1>3, <1>4 DEF RowsInv, NoRows
<1>8. /\ TypeRows' /\ TypeHooks' /\ TypeLocks' /\ TypeTodo' /\ TypeRound' /\ TypeSwitch' /\ FireInv'
      /\ \A c \in Backend : Kept(c)' /\ RoundInv(c)'
  BY <1>2, <1>3, SwitchParts
<1> QED
  BY <1>1, <1>2, <1>4, <1>5, <1>6, <1>7, <1>8, SameTypes, Together

LEMMA GuardStep ==
  ASSUME IInv, NEW t \in Table, Guard(t)
  PROVE  IInv'
<1> DEFINE s == [switch EXCEPT !.locked = @ \cup {t}]
<1>1. Types /\ LockInv /\ RowsInv /\ NoRows' = NoRows
  BY Parts DEF NoRows
<1>2. /\ switch # None /\ Guarded(t) /\ switch' = s
      /\ UNCHANGED <<db, mode, capture, behind, bounds>> /\ NoSwitch
  BY DEF Guard
<1>3. switch \in Switches
  BY <1>1, <1>2 DEF Types, TypeSwitch
<1>4. /\ s \in Switches /\ s.model = switch.model /\ s.locked = switch.locked \cup {t}
      /\ s.rows = switch.rows /\ s.to = switch.to
  BY <1>3 DEF Switches
<1> HIDE DEF s
<1>5. UNCHANGED <<own, saved, held, cache>>
  BY <1>2 DEF NoSwitch, locks
<1>6. LockInv'
  BY <1>1, <1>2, <1>4, <1>5 DEF LockInv
<1>7. RowsInv'
  BY <1>1, <1>2, <1>4, <1>5 DEF RowsInv, Guarded
<1>8. /\ TypeRows' /\ TypeHooks' /\ TypeLocks' /\ TypeTodo' /\ TypeRound' /\ TypeSwitch' /\ FireInv'
      /\ \A c \in Backend : Kept(c)' /\ RoundInv(c)'
  BY <1>2, <1>4, SwitchParts
<1> QED
  BY <1>1, <1>2, <1>5, <1>6, <1>7, <1>8, SameTypes, Together

\* What a switch and the models that follow leave are tables.
LEMMA FollowedType ==
  ASSUME db \in [Table -> [Key -> Nat]], NEW live \in SUBSET Model
  PROVE  Followed(live) \in [Table -> [Key -> Nat]]
<1>1. ASSUME NEW d PROVE AllRecomputed(live, d) \in [Table -> [Key -> Nat]]
  BY ResultType DEF AllRecomputed
<1> QED
  BY <1>1 DEF Followed

\* A model somebody holds is not switched, and one whose triggers are to fire does
\* not come to commit mode: its session still has rows of one of its tables.
LEMMA SwitchStep ==
  ASSUME IInv, Switch
  PROVE  IInv'
<1> DEFINE m == switch.model
<1>1. Types /\ LockInv /\ RowsInv /\ FireInv /\ NoRows' = NoRows /\ Results' = Results
  BY Parts DEF NoRows, Results
<1>2. /\ switch # None /\ (switch.to # "manual" => switch.locked = Binds[m])
      /\ mode' = [mode EXCEPT ![m] = switch.to] /\ capture' = Capturers(m)
      /\ behind' = Backend /\ switch' = None /\ UNCHANGED bounds
      /\ UNCHANGED <<pc, own, saved, snap, hooks, cache, locks, commit>>
  BY DEF Switch, NoSwitch
<1>3. m \in Model /\ switch.to \in Modes /\ switch.rows \in BOOLEAN
  BY <1>1, <1>2 DEF Types, TypeSwitch, Switches
<1> HIDE DEF m
<1>4. /\ mode' \in [Model -> Modes] /\ mode'[m] = switch.to
      /\ \A n \in Model \ {m} : mode'[n] = mode[n]
  BY <1>1, <1>2, <1>3 DEF Types, TypeShared
<1>5. TypeShared'
  <2>1. db' \in [Table -> [Key -> Nat]]
    BY <1>1, FollowedType DEF Switch, Types, TypeShared
  <2>2. capture \subseteq Model /\ \A n \in capture : mode[n] = "commit"
    BY <1>1 DEF Types, TypeShared
  <2>3. switch.rows => switch.to = "commit"
    BY <1>1, <1>2 DEF LockInv
  <2>4. capture' \subseteq Model /\ \A n \in capture' : mode'[n] = "commit"
    BY <1>2, <1>3, <1>4, <2>2, <2>3 DEF Capturers
  <2> QED
    BY <1>4, <2>1, <2>4 DEF TypeShared
<1>6. TypeRows' /\ TypeHooks' /\ TypeLocks' /\ TypeTodo' /\ TypeRound' /\ TypeSwitch' /\ TypeCache' /\ TypeBounds'
  BY <1>1, <1>2, SameTypes DEF commit, TypeSwitch, TypeCache, Types
<1>7. LockInv' /\ RowsInv'
  BY <1>1, <1>2 DEF LockInv, RowsInv, locks
<1>8. FireInv'
  <2> SUFFICES ASSUME NEW b \in Backend, NEW i \in DOMAIN todo[b], NEW n \in todo[b][i].models
               PROVE  mode'[n] # "commit" /\ \E t \in Binds[n] : own[b][t] # NoRows[t]
    BY <1>1, <1>2 DEF FireInv, commit
  <2>1. mode[n] # "commit" /\ \E t \in Binds[n] : own[b][t] # NoRows[t]
    BY <1>1 DEF FireInv
  <2>2. n \in Model
    <3>1. todo[b][i] \in Firings
      BY <1>1 DEF Types, TypeTodo
    <3> QED
      BY <3>1 DEF Firings
  <2>3. CASE n = m
    <3>1. switch.to = "commit" => \A t \in Binds[n] : own[b][t] = NoRows[t]
      BY <1>1, <1>2, <2>3 DEF RowsInv
    <3> QED
      BY <1>4, <2>1, <2>3, <3>1
  <2>4. CASE n # m
    BY <1>4, <2>1, <2>2, <2>4
  <2> QED
    BY <2>3, <2>4
<1>9. ASSUME NEW c \in Backend PROVE Kept(c)' /\ RoundInv(c)'
  <2>1. Kept(c) /\ RoundInv(c)
    BY Parts
  <2>2. m \notin held[c] /\ held[c] \subseteq Model
    BY <1>1, <1>2 DEF LockInv, Types, TypeLocks, m
  <2>3. Locked(c)' = Locked(c)
    BY <1>2, <1>4, <2>2 DEF Locked, locks
  <2> QED
    BY <1>1, <1>2, <2>1, <2>3 DEF Kept, RoundInv, hooks, locks, commit
<1> QED
  BY <1>5, <1>6, <1>7, <1>8, <1>9, Together

LEMMA SwitchFailsStep ==
  ASSUME IInv, SwitchFails
  PROVE  IInv'
<1>1. Types /\ LockInv /\ RowsInv
  BY Parts
<1>2. switch' = None /\ UNCHANGED <<db, mode, capture, behind, bounds>> /\ NoSwitch
  BY DEF SwitchFails
<1>3. UNCHANGED <<own, saved, held, cache>>
  BY <1>2 DEF NoSwitch, locks
<1>4. LockInv' /\ RowsInv'
  BY <1>1, <1>2, <1>3 DEF LockInv, RowsInv, NoRows
<1>5. /\ TypeRows' /\ TypeHooks' /\ TypeLocks' /\ TypeTodo' /\ TypeRound' /\ TypeSwitch' /\ FireInv'
      /\ \A c \in Backend : Kept(c)' /\ RoundInv(c)'
  BY <1>2, SwitchParts
<1> QED
  BY <1>1, <1>2, <1>3, <1>4, <1>5, SameTypes, Together

LEMMA SameStep ==
  ASSUME IInv, UNCHANGED vars
  PROVE  IInv'
<1>1. /\ UNCHANGED <<db, mode, capture, pc, own, saved, snap, hooks, cache, behind, locks, commit, switch, bounds>>
      /\ NoSwitch
  BY DEF vars, NoSwitch
<1>2. Types /\ switch' \in Switches \cup {None}
  BY <1>1, Parts DEF Types, TypeSwitch
<1>3. /\ TypeRows' /\ TypeHooks' /\ TypeLocks' /\ TypeTodo' /\ TypeRound' /\ TypeSwitch' /\ FireInv'
      /\ \A c \in Backend : Kept(c)' /\ RoundInv(c)'
  BY <1>1, <1>2, SwitchParts
<1> QED
  BY <1>1, <1>2, <1>3, SameTypes, SameParts, Together DEF locks

-----------------------------------------------------------------------------
(* The theorems. *)

LEMMA StepHolds ==
  IInv /\ [Next]_vars => IInv'
<1> SUFFICES ASSUME IInv, [Next]_vars PROVE IInv'
  OBVIOUS
<1>1. ASSUME NEW b \in Backend, Session(b) PROVE IInv'
  <2>1. CASE \E rr \in BOOLEAN : Begin(b, rr)
    BY <2>1, BeginStep
  <2>2. CASE \E t \in Rel, k \in Key, v \in {0, 1}, fires \in BOOLEAN : Write(b, t, k, v, fires)
    BY <2>2, WriteStep
  <2>3. CASE \E t \in Rel, cascade \in BOOLEAN : Truncate(b, t, cascade)
    BY <2>3, TruncateStep
  <2>4. CASE \E m \in Model : Recalc(b, m)
    BY <2>4, RecalcStep
  <2>5. CASE Fire(b)
    BY <2>5, FiresStep
  <2>6. CASE Savepoint(b)
    BY <2>6, SavepointStep
  <2>7. CASE RollbackTo(b)
    BY <2>7, RollbackToStep
  <2>8. CASE PreCommit(b)
    BY <2>8, PreCommitStep
  <2>9. CASE Pass(b)
    BY <2>9, PassStep
  <2>10. CASE Recompute(b)
    BY <2>10, RecomputeStep
  <2>11. CASE PassEnds(b)
    BY <2>11, PassEndsStep
  <2>12. CASE Commit(b) \/ Abort(b)
    BY <2>12, CommitStep
  <2> QED
    BY <1>1, <2>1, <2>2, <2>3, <2>4, <2>5, <2>6, <2>7, <2>8, <2>9, <2>10, <2>11, <2>12 DEF Session
<1>2. ASSUME SetSyncMode PROVE IInv'
  <2>1. CASE \E m \in Model, to \in Modes, rows \in BOOLEAN : BeginSwitch(m, to, rows)
    BY <2>1, BeginSwitchStep
  <2>2. CASE \E t \in Table : Guard(t)
    BY <2>2, GuardStep
  <2>3. CASE Switch
    BY <2>3, SwitchStep
  <2>4. CASE SwitchFails
    BY <2>4, SwitchFailsStep
  <2> QED
    BY <1>2, <2>1, <2>2, <2>3, <2>4 DEF SetSyncMode
<1>3. CASE UNCHANGED vars
  BY <1>3, SameStep
<1> QED
  BY <1>1, <1>2, <1>3 DEF Next

\* What is locked and noted stays consistent, whichever sessions write, roll back,
\* commit or switch modes at once: the invariant the other results rest on.
THEOREM Invariant == Spec => []IInv
  BY InitHolds, StepHolds, PTL DEF Spec

\* The variables have their types; what a savepoint noted and locked (subxact_callback)
\* is always among what the transaction did, and an ended transaction keeps nothing.
THEOREM TypeCorrect == Spec => []TypeOK
<1>1. IInv => TypeOK
  BY DEF IInv
<1> QED
  BY <1>1, Invariant, PTL

\* In its first round a commit holds only models before the one it waits for.
LEMMA FirstRound ==
  ASSUME IInv, InOrder, NEW b \in Backend, pass[b] <= 1, pc[b] = "recompute", models[b] # {}
  PROVE  \A m \in held[b] : m < NextModel(models[b])
<1>1. Types /\ RoundInv(b)
  BY Parts
<1>2. models[b] \in SUBSET Model /\ held[b] \in SUBSET Model
  BY <1>1 DEF Types, TypeRound, TypeLocks
<1>3. NextModel(models[b]) \in models[b]
  BY <1>2, NextModelOf
<1>4. pass[b] \in Nat
  BY <1>1, ConstantsAssumption DEF Types, TypeRound
<1>5. pass[b] = 1
  BY <1>1, <1>4 DEF RoundInv
<1>6. Locked(b) = held[b]
  BY <1>2 DEF Locked, InOrder
<1> QED
  BY <1>1, <1>3, <1>5, <1>6 DEF RoundInv

\* In a later round it waits for a model that reads results.
LEMMA LaterRound ==
  ASSUME IInv, LastReads, NEW b \in Backend, ~(pass[b] <= 1), models[b] # {}
  PROVE  \A o \in Model : o <= NextModel(models[b])
<1>1. Types /\ RoundInv(b)
  BY Parts
<1>2. models[b] \in SUBSET Model /\ pass[b] \in Nat
  BY <1>1, ConstantsAssumption DEF Types, TypeRound
<1>3. NextModel(models[b]) \in models[b]
  BY <1>2, NextModelOf
<1>4. Binds[NextModel(models[b])] \cap Results # {}
  BY <1>1, <1>2, <1>3 DEF RoundInv
<1> QED
  BY <1>2, <1>3, <1>4 DEF LastReads, Results

LEMMA NoCycle ==
  IInv => NoCommitDeadlock
<1> SUFFICES ASSUME IInv, InOrder, LastReads \/ (\A b \in Backend : pass[b] <= 1),
                    NEW b \in Backend, NEW c \in Backend \ {b}, Waits(b, c), Waits(c, b)
             PROVE  FALSE
  BY DEF NoCommitDeadlock, NoLockCycle
<1> DEFINE x == NextModel(models[b])
           y == NextModel(models[c])
<1>1. Types /\ LockInv
  BY Parts
<1>2. /\ pc[b] = "recompute" /\ models[b] # {} /\ x \in held[c]
      /\ pc[c] = "recompute" /\ models[c] # {} /\ y \in held[b]
  BY DEF Waits
<1>3. x \in Nat /\ y \in Nat /\ x \in Model /\ y \in Model
  <2>1. held[b] \in SUBSET Model /\ held[c] \in SUBSET Model
    BY <1>1 DEF Types, TypeLocks
  <2> QED
    BY <1>2, <2>1, ConstantsAssumption
<1>4. pass[b] <= 1 => y < x
  BY <1>2, FirstRound
<1>5. pass[c] <= 1 => x < y
  BY <1>2, FirstRound
<1>6. ~(pass[b] <= 1) => y <= x
  BY <1>2, <1>3, LaterRound
<1>7. ~(pass[c] <= 1) => x <= y
  BY <1>2, <1>3, LaterRound
<1> HIDE DEF x, y
<1>8. x = y
  BY <1>3, <1>4, <1>5, <1>6, <1>7
<1> QED
  BY <1>1, <1>2, <1>8 DEF LockInv

\* "in id order (the lock order)": two commits never wait for each other in their first
\* rounds, and in no round when only the last model reads others' results, for any
\* number of sessions, models and rounds.
THEOREM NoDeadlock == Spec => []NoCommitDeadlock
  BY Invariant, NoCycle, PTL

-----------------------------------------------------------------------------
(* The results follow: the invariant. *)

\* Models feed each other in fewer layers than pre_commit has rounds.
Layers == {l \in [Model -> 0 .. MaxPass - 1] :
             \A m, n \in Model : Out[m] \in Binds[n] => l[m] < l[n]}
Layered == Layers # {}
Layer == CHOOSE l \in Layers : TRUE

\* The modes whose results are claimed to follow.
Sure == {"trigger"} \cup (IF Layered THEN {"commit"} ELSE {})
Follows(m) == mode[m] \in Sure

\* Over tables v the result of m at k is what it computes.
Agrees(m, v, k) == v[Out[m]][k] = Result(m, v)[k]

\* Of the triggers still to fire, one will recompute m at k.
ToFire(q, m, k) ==
  \E i \in DOMAIN q : m \in q[i].models /\ (m \in Elementwise => k \in q[i].keys)

\* If m is recomputed for the writes of the tables W, it is at k.
Noticed(b, m, t, k) == capOk[b][t] = None \/ m \notin capOk[b][t] \/ k \in captured[b][<<m, t>>]
Noting(b, W, m, k) == \E t \in Binds[m] \cap W : m \in Elementwise => Noticed(b, m, t, k)

\* Session b is yet to recompute m at k.
Owed(b, m, k) ==
  IF mode[m] = "trigger" THEN ToFire(todo[b], m, k)
  ELSE Noting(b, written[b], m, k) \/ (m \in models[b] /\ Noting(b, batch[b], m, k))

\* What session b sees of the results of m is current or owed, and unless it has locked m
\* all it wrote of m's tables is owed.
FollowInv(b, m) ==
  /\ \A k \in Key : Agrees(m, Over(db, own[b]), k) \/ Owed(b, m, k)
  /\ m \notin held[b] => \A t \in Binds[m], k \in Key : own[b][t][k] # None => Owed(b, m, k)

\* The same of what it goes back to.
OwedThen(b, m, k) == mode[m] = "commit" /\ Noting(b, written[b] \ inner[b], m, k)
SavedInv(b, m) ==
  saved[b] # None =>
    /\ \A k \in Key : Agrees(m, Over(db, saved[b]), k) \/ OwedThen(b, m, k)
    /\ m \notin held[b] \ sub[b] =>
         \A t \in Binds[m], k \in Key : saved[b][t][k] # None => OwedThen(b, m, k)

\* Results are written by who locked their model.
OutInv(b, m) ==
  /\ m \notin held[b] => own[b][Out[m]] = NoRows[Out[m]]
  /\ saved[b] # None /\ m \notin held[b] \ sub[b] => saved[b][Out[m]] = NoRows[Out[m]]

\* A table noted has rows, and it is known whose triggers saw them.
NoteInv(b) ==
  /\ \A t \in Table : t \in written[b] \cup batch[b] => capOk[b][t] # None
  /\ \A t \in Table : t \in written[b] => own[b][t] # NoRows[t]
  /\ saved[b] # None => \A t \in Table : t \in written[b] \ inner[b] => saved[b][t] # NoRows[t]

\* A session's cache has the tables that commit mode binds, but for switches it is yet to
\* hear of, of tables it has not written.
CacheInv(b) ==
  cache[b] # None =>
    \A m \in Model : mode[m] = "commit" =>
      \A t \in Binds[m] : t \in cache[b] \/ (b \in behind /\ own[b][t] = NoRows[t])

\* Nothing is left to do where it would be forgotten.
DoneInv(b) ==
  /\ snap[b] = None
  /\ todo[b] # <<>> => pc[b] \in {"fires", "recompute"}
  /\ pc[b] = "commit" => \A m \in Model : mode[m] = "commit" => Binds[m] \cap written[b] = {}

\* After p rounds what is left to recompute is in layers from the p-th on.
LayerInv(b) ==
  Layered /\ pc[b] \in {"pass", "recompute"} /\ pass[b] # 0 =>
    /\ \A m \in Model : Out[m] \in written[b] => Layer[m] >= pass[b] - 1
    /\ \A m \in models[b] : Layer[m] >= pass[b] - 1
    /\ \A i \in DOMAIN todo[b] : \A m \in todo[b][i].models : Layer[m] >= pass[b] - 1

SessionInv(b) ==
  /\ NoteInv(b) /\ CacheInv(b) /\ DoneInv(b) /\ LayerInv(b)
  /\ \A m \in Model : OutInv(b, m) /\ (Follows(m) => FollowInv(b, m) /\ SavedInv(b, m))

DbInv == \A m \in Model : Follows(m) => \A k \in Key : Agrees(m, db, k)

ResultsInv == DbInv /\ \A b \in Backend : SessionInv(b)

-----------------------------------------------------------------------------
(* Results and what they are computed from. *)

\* Over v and w model m computes from the same rows at k, and has the same result.
SameRead(m, v, w, k) ==
  /\ m \in Elementwise => \A t \in Binds[m] : v[t][k] = w[t][k]
  /\ m \notin Elementwise => \A t \in Binds[m], j \in Key : v[t][j] = w[t][j]
Near(m, v, w, k) == SameRead(m, v, w, k) /\ v[Out[m]][k] = w[Out[m]][k]

LEMMA ResultLocal ==
  ASSUME NEW m \in Model, NEW v, NEW w, NEW k \in Key, SameRead(m, v, w, k)
  PROVE  Result(m, v)[k] = Result(m, w)[k]
<1>1. CASE m \in Elementwise
  BY <1>1 DEF Result, SameRead
<1>2. CASE m \notin Elementwise
  <2> DEFINE ones(u) == {x \in Binds[m] \X Key : u[x[1]][x[2]] # 0}
  <2>1. ones(v) = ones(w)
    BY <1>2 DEF SameRead
  <2>2. Result(m, v)[k] = Cardinality(ones(v)) /\ Result(m, w)[k] = Cardinality(ones(w))
    BY <1>2 DEF Result
  <2> HIDE DEF ones
  <2> QED
    BY <2>1, <2>2
<1> QED
  BY <1>1, <1>2

LEMMA NearAgrees ==
  ASSUME NEW m \in Model, NEW v, NEW w, NEW k \in Key, Near(m, v, w, k), Agrees(m, v, k)
  PROVE  Agrees(m, w, k)
  BY ResultLocal DEF Near, Agrees

LEMMA OverOf ==
  ASSUME NEW base, NEW rows, NEW t \in Table, NEW k \in Key
  PROVE  Over(base, rows)[t][k] = IF rows[t][k] = None THEN base[t][k] ELSE rows[t][k]
  BY DEF Over

LEMMA Bound ==
  ASSUME NEW m \in Model
  PROVE  Binds[m] \subseteq Table /\ Out[m] \in Table /\ \A n \in Model : Out[n] = Out[m] => n = m
  BY ConstantsAssumption DEF Table

\* Where a session has no rows it sees the committed ones.
LEMMA NoneOwn ==
  ASSUME NEW m \in Model, NEW base, NEW rows, NEW k \in Key,
         rows[Out[m]][k] = None,
         m \in Elementwise => \A t \in Binds[m] : rows[t][k] = None,
         m \notin Elementwise => \A t \in Binds[m], j \in Key : rows[t][j] = None
  PROVE  Near(m, base, Over(base, rows), k)
  BY Bound, OverOf DEF Near, SameRead

\* The rows of its own with which a session sees model m at k.
LEMMA SameOwn ==
  ASSUME NEW m \in Model, NEW base, NEW rows, NEW more, NEW k \in Key,
         rows[Out[m]][k] = more[Out[m]][k],
         m \in Elementwise => \A t \in Binds[m] : rows[t][k] = more[t][k],
         m \notin Elementwise => \A t \in Binds[m], j \in Key : rows[t][j] = more[t][j]
  PROVE  Near(m, Over(base, rows), Over(base, more), k)
  BY Bound, OverOf DEF Near, SameRead

-----------------------------------------------------------------------------
(* Triggers to fire. *)

LEMMA ToFireFiring ==
  ASSUME NEW ms \in SUBSET Model, NEW keys \in SUBSET Key, NEW rest \in Seq(Firings), NEW m, NEW k,
         (m \in ms /\ (m \in Elementwise => k \in keys)) \/ ToFire(rest, m, k)
  PROVE  ToFire(Firing(ms, keys, rest), m, k)
<1>1. CASE ms = {}
  BY <1>1 DEF Firing
<1>2. CASE ms # {}
  <2> DEFINE x == [models |-> ms, keys |-> keys]
             f == <<x>> \o rest
  <2>1. x.models = ms /\ x.keys = keys /\ Firing(ms, keys, rest) = f
    BY <1>2 DEF Firing
  <2> HIDE DEF x
  <2>2. Len(f) = Len(rest) + 1 /\ Len(rest) \in Nat /\ DOMAIN f = 1 .. Len(f) /\ DOMAIN rest = 1 .. Len(rest)
    OBVIOUS
  <2>3. f[1] = x /\ \A i \in DOMAIN rest : f[i + 1] = rest[i] /\ i + 1 \in DOMAIN f
    BY <2>2
  <2>4. 1 \in DOMAIN f
    BY <2>2
  <2> HIDE DEF f
  <2>5. ToFire(f, m, k)
    BY <2>1, <2>3, <2>4 DEF ToFire
  <2> QED
    BY <2>1, <2>5
<1> QED
  BY <1>1, <1>2

LEMMA ToFireNow ==
  ASSUME NEW q \in Seq(Firings), q # <<>>, NEW m, NEW k, ToFire(q, m, k)
  PROVE  \/ m \in Head(q).models /\ (m \in Elementwise => k \in Head(q).keys)
         \/ ToFire(Tail(q), m, k)
<1>1. PICK i \in DOMAIN q : m \in q[i].models /\ (m \in Elementwise => k \in q[i].keys)
  BY DEF ToFire
<1>2. CASE i = 1
  BY <1>1, <1>2
<1>3. CASE i # 1
  <2>1. i - 1 \in DOMAIN Tail(q) /\ Tail(q)[i - 1] = q[i]
    BY <1>3
  <2> QED
    BY <1>1, <2>1 DEF ToFire
<1> QED
  BY <1>2, <1>3

\* Once n has had its turn of the triggers to fire, the other models' are left, and those
\* of n for other keys.
LEMMA ToFireRest ==
  ASSUME Types, NEW b \in Backend, todo[b] # <<>>, NEW n \in Model, NEW m, NEW k, ToFire(todo[b], m, k),
         m # n \/ (n \in Elementwise /\ k \notin Head(todo[b]).keys)
  PROVE  ToFire(Firing(Head(todo[b]).models \ {n}, Head(todo[b]).keys, Tail(todo[b])), m, k)
<1> DEFINE q == todo[b]
           ms == Head(q).models \ {n}
<1>1. q \in Seq(Firings) /\ q # <<>>
  BY DEF Types, TypeTodo
<1> HIDE DEF q
<1>2. Head(q) \in Firings /\ Tail(q) \in Seq(Firings)
  BY <1>1
<1>3. ms \in SUBSET Model /\ Head(q).keys \in SUBSET Key
  BY <1>2 DEF Firings
<1>4. (m \in ms /\ (m \in Elementwise => k \in Head(q).keys)) \/ ToFire(Tail(q), m, k)
  BY <1>1, ToFireNow DEF q
<1> HIDE DEF ms
<1>5. PICK s \in SUBSET Model, j \in SUBSET Key, r \in Seq(Firings) : s = ms /\ j = Head(q).keys /\ r = Tail(q)
  BY <1>2, <1>3
<1>6. ToFire(Firing(s, j, r), m, k)
  BY <1>4, <1>5, ToFireFiring
<1> QED
  BY <1>5, <1>6 DEF q, ms

-----------------------------------------------------------------------------
(* What a write does to what is owed. *)

\* Session b's write of the rows of t at keys.
Put(b, t, keys, row) ==
  \A u \in Table, k \in Key : own'[b][u][k] = IF u = t /\ k \in keys THEN row[k] ELSE own[b][u][k]

\* What the hooks and triggers noted of a session's writes stays noted.
Marks(b) ==
  /\ written[b] \subseteq written'[b]
  /\ saved[b] # None => \A u \in Table : u \in written'[b] \ inner'[b] <=> u \in written[b] \ inner[b]
  /\ \A u \in Table : capOk[b][u] # None => capOk'[b][u] # None
  /\ \A u \in Table, m \in Model, k \in Key : capOk[b][u] # None /\ Noticed(b, m, u, k) => Noticed(b, m, u, k)'

\* They saw a write of the rows of t at keys.
Seeing(b, t, keys) ==
  /\ Marks(b) /\ t \in written'[b]
  /\ \A u \in Table : u \in written'[b] => u \in written[b] \cup {t}
  /\ capOk'[b][t] # None
  /\ \A m \in Model, k \in keys : Noticed(b, m, t, k)'

LEMMA MarksSame ==
  ASSUME UNCHANGED hooks, NEW b
  PROVE  Marks(b)
  BY DEF Marks, hooks, Noticed

LEMMA CapturesOf ==
  ASSUME NEW old \in SUBSET Key, NEW keys \in SUBSET Key
  PROVE  old \cup keys \subseteq Captures(old, keys)
  BY DEF Captures

\* Whatever the marks of a table become when a write's triggers run.
LEMMA SeeingOf ==
  ASSUME Types, NEW b \in Backend, Kept(b), NEW t \in Table, NEW keys \in SUBSET Key, NEW caught \in SUBSET Model,
         NEW ts \in Noted, t \in ts, \A u \in Table : u \in ts => u = t,
         written' = [written EXCEPT ![b] = @ \cup ts],
         inner' = [inner EXCEPT ![b] = IF saved[b] # None THEN @ \cup (ts \ written[b]) ELSE @],
         capOk' = [capOk EXCEPT ![b][t] = Seen(@, caught)],
         \A m \in Model, u \in Table : captured[b][<<m, u>>] \subseteq captured'[b][<<m, u>>],
         \A m \in caught : keys \subseteq captured'[b][<<m, t>>]
  PROVE  Seeing(b, t, keys)
<1>1. /\ written \in [Backend -> Noted] /\ inner \in [Backend -> Noted]
      /\ capOk \in [Backend -> [Table -> (SUBSET Model) \cup {None}]] /\ inner[b] \subseteq written[b]
  BY DEF Types, TypeHooks, Kept
<1>2. written'[b] = written[b] \cup ts
  BY <1>1
<1>3. saved[b] # None => inner'[b] = inner[b] \cup (ts \ written[b])
  BY <1>1
<1>4. capOk[b] \in [Table -> (SUBSET Model) \cup {None}]
  BY <1>1
<1>5. capOk' = [capOk EXCEPT ![b] = [capOk[b] EXCEPT ![t] = Seen(capOk[b][t], caught)]]
  BY <1>4
<1>6. capOk'[b] = [capOk[b] EXCEPT ![t] = Seen(capOk[b][t], caught)]
  BY <1>1, <1>5
<1>7. capOk'[b][t] = Seen(capOk[b][t], caught) /\ \A u \in Table \ {t} : capOk'[b][u] = capOk[b][u]
  BY <1>4, <1>6
<1>8. /\ Seen(capOk[b][t], caught) # None /\ Seen(capOk[b][t], caught) \subseteq caught
      /\ capOk[b][t] # None => Seen(capOk[b][t], caught) \subseteq capOk[b][t]
  <2>1. capOk[b][t] \in SUBSET Model \/ capOk[b][t] = None
    BY <1>4
  <2>2. Seen(capOk[b][t], caught) \in SUBSET Model
    BY <2>1 DEF Seen
  <2> QED
    BY <2>1, <2>2, ConstantsAssumption DEF Seen
<1>9. \A u \in Table, m \in Model, k \in Key : capOk[b][u] # None /\ Noticed(b, m, u, k) => Noticed(b, m, u, k)'
  BY <1>7, <1>8 DEF Noticed
<1>10. \A m \in Model, k \in keys : Noticed(b, m, t, k)'
  BY <1>7, <1>8 DEF Noticed
<1>11. \A u \in Table : u = t \/ capOk[b][u] # None => capOk'[b][u] # None
  BY <1>7, <1>8
<1>12. saved[b] # None => \A u \in Table : u \in written'[b] \ inner'[b] <=> u \in written[b] \ inner[b]
  BY <1>1, <1>2, <1>3
<1> QED
  BY <1>2, <1>9, <1>10, <1>11, <1>12 DEF Seeing, Marks

LEMMA PutOf ==
  ASSUME own \in [Backend -> Rows], NEW b \in Backend, NEW t \in Table, NEW keys \in SUBSET Key,
         NEW row \in [Key -> Nat],
         own' = [own EXCEPT ![b][t] = [k \in Key |-> IF k \in keys THEN row[k] ELSE @[k]]]
  PROVE  Put(b, t, keys, row)
<1> DEFINE n == [k \in Key |-> IF k \in keys THEN row[k] ELSE own[b][t][k]]
<1>1. own[b] \in Rows /\ own[b] \in [Table -> [Key -> Nat \cup {None}]]
  BY DEF Rows
<1>2. own' = [own EXCEPT ![b] = [own[b] EXCEPT ![t] = n]]
  BY <1>1
<1>3. own'[b] = [own[b] EXCEPT ![t] = n]
  BY <1>2
<1>4. own'[b][t] = n /\ \A u \in Table \ {t} : own'[b][u] = own[b][u]
  BY <1>1, <1>3
<1> QED
  BY <1>4 DEF Put

LEMMA CapturedNow ==
  ASSUME Types, NEW b \in Backend, NEW c \in [Model \X Table -> SUBSET Key],
         captured' = [captured EXCEPT ![b] = c]
  PROVE  captured'[b] = c
  BY DEF Types, TypeHooks

\* A write puts its rows, and the hooks and triggers see it.
LEMMA WritesSee ==
  ASSUME Types, NEW b \in Backend, Kept(b), NEW t \in Table, NEW keys \in SUBSET Key,
         NEW row \in [Key -> Nat], NEW caught \in SUBSET Model, NEW rest,
         Writes(b, t, keys, row, caught, rest)
  PROVE  Put(b, t, keys, row) /\ Seeing(b, t, keys)
<1>1. own \in [Backend -> Rows] /\ captured \in [Backend -> [Model \X Table -> SUBSET Key]]
      /\ written \in [Backend -> Noted] /\ inner \in [Backend -> Noted] /\ AnyRel \notin Table
  BY ConstantsAssumption DEF Types, TypeRows, TypeHooks
<1>2. Put(b, t, keys, row)
  BY <1>1, PutOf DEF Writes
<1> DEFINE c == [x \in Model \X Table |-> IF x[1] \in caught /\ x[2] = t
                                          THEN Captures(captured[b][x], keys) ELSE captured[b][x]]
<1>3. captured[b] \in [Model \X Table -> SUBSET Key]
  BY <1>1
<1>4. \A x \in Model \X Table : Captures(captured[b][x], keys) \in SUBSET Key
                                /\ captured[b][x] \cup keys \subseteq Captures(captured[b][x], keys)
  BY <1>3, CapturesOf DEF Captures
<1>5. c \in [Model \X Table -> SUBSET Key]
  BY <1>3, <1>4
<1>6. captured' = [captured EXCEPT ![b] = c]
  BY DEF Writes
<1>7. captured'[b] = c
  BY <1>5, <1>6, CapturedNow
<1>8. \A m \in Model, u \in Table : captured[b][<<m, u>>] \subseteq captured'[b][<<m, u>>]
  BY <1>4, <1>7
<1>9. \A m \in caught : keys \subseteq captured'[b][<<m, t>>]
  BY <1>4, <1>7
<1> HIDE DEF c
<1>10. {t} \in Noted /\ t \in {t} /\ \A u \in Table : u \in {t} => u = t
  BY DEF Noted
<1>11. written' = [written EXCEPT ![b] = @ \cup {t}] /\ capOk' = [capOk EXCEPT ![b][t] = Seen(@, caught)]
  BY DEF Writes
<1>12. inner' = [inner EXCEPT ![b] = IF saved[b] # None THEN @ \cup ({t} \ written[b]) ELSE @]
  BY <1>1 DEF Writes
<1>13. PICK ts \in Noted : ts = {t}
  BY <1>10
<1>14. Seeing(b, t, keys)
  BY <1>8, <1>9, <1>10, <1>11, <1>12, <1>13, SeeingOf
<1> QED
  BY <1>2, <1>14

\* The same of TRUNCATE.
LEMMA TruncateSees ==
  ASSUME Types, NEW b \in Backend, Kept(b), NEW t \in Rel, NEW cascade \in BOOLEAN, Truncate(b, t, cascade)
  PROVE  Put(b, t, Key, [k \in Key |-> 0]) /\ Seeing(b, t, Key)
<1> DEFINE caught == Capturing(t)
           all == {t} \cup (IF cascade THEN {AnyRel} ELSE {})
           zero == [k \in Key |-> 0]
           c == [x \in Model \X Table |-> IF x[1] \in caught /\ x[2] = t THEN Key ELSE captured[b][x]]
<1>1. /\ own \in [Backend -> Rows] /\ captured \in [Backend -> [Model \X Table -> SUBSET Key]]
      /\ AnyRel \notin Table /\ t \in Table /\ caught \in SUBSET Model
  BY ConstantsAssumption, CapturingOf DEF Types, TypeRows, TypeHooks, Table
<1>2. Put(b, t, Key, zero)
  <2>1. own' = [own EXCEPT ![b][t] = zero]
    BY DEF Truncate
  <2>2. zero = [k \in Key |-> IF k \in Key THEN zero[k] ELSE own[b][t][k]] /\ zero \in [Key -> Nat]
    OBVIOUS
  <2>3. PICK row \in [Key -> Nat] : row = zero
    BY <2>2
  <2> HIDE DEF zero
  <2>4. own' = [own EXCEPT ![b][t] = [k \in Key |-> IF k \in Key THEN row[k] ELSE @[k]]]
    BY <2>1, <2>2, <2>3
  <2> QED
    BY <1>1, <2>3, <2>4, PutOf
<1>3. captured[b] \in [Model \X Table -> SUBSET Key]
  BY <1>1
<1> HIDE DEF caught
<1>4. c \in [Model \X Table -> SUBSET Key]
  BY <1>3
<1>5. captured' = [captured EXCEPT ![b] = c]
  BY DEF Truncate, caught
<1>6. captured'[b] = c
  BY <1>4, <1>5, CapturedNow
<1>7. \A m \in Model, u \in Table : captured[b][<<m, u>>] \subseteq captured'[b][<<m, u>>]
  BY <1>3, <1>6
<1>8. \A m \in caught : Key \subseteq captured'[b][<<m, t>>]
  BY <1>1, <1>6
<1> HIDE DEF c, all
<1>9. all \in Noted /\ t \in all /\ \A u \in Table : u \in all => u = t
  BY <1>1 DEF Noted, all
<1>10. /\ written' = [written EXCEPT ![b] = @ \cup all] /\ capOk' = [capOk EXCEPT ![b][t] = Seen(@, caught)]
       /\ inner' = [inner EXCEPT ![b] = IF saved[b] # None THEN @ \cup (all \ written[b]) ELSE @]
  BY DEF Truncate, all, caught
<1>11. PICK ts \in Noted, keys \in SUBSET Key : ts = all /\ keys = Key
  BY <1>9
<1>12. Seeing(b, t, keys)
  BY <1>1, <1>7, <1>8, <1>9, <1>10, <1>11, SeeingOf
<1> QED
  BY <1>2, <1>11, <1>12

-----------------------------------------------------------------------------
(* What a step leaves owed. *)

\* A step that leaves rest to do takes nothing else of m at k from what was left.
Keeps(b, rest, m, k) ==
  /\ ToFire(todo[b], m, k) => ToFire(rest, m, k)
  /\ mode[m] # "trigger" /\ m \in models[b] /\ Noting(b, batch[b], m, k) => m \in models'[b]

\* Triggers of some models, and then rest, are left to do.
Leaves(b, rest) == \E ms \in SUBSET Model, keys \in SUBSET Key : todo'[b] = Firing(ms, keys, rest)

LEMMA OwedKept ==
  ASSUME NEW b \in Backend, Marks(b), NoteInv(b), NEW m \in Model, UNCHANGED <<mode, batch>>, NEW k \in Key,
         Owed(b, m, k), NEW rest \in Seq(Firings), Keeps(b, rest, m, k), Leaves(b, rest)
  PROVE  Owed(b, m, k)'
<1>1. \A u \in Table : u \in written[b] \cup batch[b] /\ Noticed(b, m, u, k) => Noticed(b, m, u, k)'
  BY DEF Marks, NoteInv
<1>2. Binds[m] \subseteq Table /\ written[b] \subseteq written'[b]
  BY Bound DEF Marks
<1>3. Noting(b, written[b], m, k) => Noting(b, written[b], m, k)'
  BY <1>1, <1>2 DEF Noting
<1>4. Noting(b, batch[b], m, k) => Noting(b, batch[b], m, k)'
  BY <1>1, <1>2 DEF Noting
<1>5. CASE mode[m] = "trigger"
  <2>1. ToFire(rest, m, k)
    BY <1>5 DEF Owed, Keeps
  <2>2. PICK ms \in SUBSET Model, keys \in SUBSET Key : todo'[b] = Firing(ms, keys, rest)
    BY DEF Leaves
  <2>3. ToFire(todo'[b], m, k)
    BY <2>1, <2>2, ToFireFiring
  <2> QED
    BY <1>5, <2>3 DEF Owed, ToFire
<1>6. CASE mode[m] # "trigger"
  BY <1>3, <1>4, <1>6 DEF Owed, Keeps
<1> QED
  BY <1>5, <1>6

\* The models that read what was written are owed it.
LEMMA OwedNew ==
  ASSUME NEW b \in Backend, NEW t \in Table, NEW keys \in SUBSET Key, Seeing(b, t, keys),
         NEW m \in Model, t \in Binds[m], UNCHANGED mode, NEW rest \in Seq(Firings),
         todo'[b] = Firing(Following(t), keys, rest), NEW k \in Key, m \in Elementwise => k \in keys
  PROVE  Owed(b, m, k)'
<1>1. CASE mode[m] = "trigger"
  <2>1. m \in Following(t) /\ Following(t) \in SUBSET Model
    BY <1>1 DEF Following
  <2>2. ToFire(Firing(Following(t), keys, rest), m, k)
    BY <2>1, ToFireFiring
  <2>3. ToFire(todo'[b], m, k)
    BY <2>2
  <2> QED
    BY <1>1, <2>3 DEF Owed, ToFire
<1>2. CASE mode[m] # "trigger"
  <2>1. t \in written'[b] /\ (m \in Elementwise => Noticed(b, m, t, k)')
    BY DEF Seeing
  <2>2. Noting(b, written[b], m, k)'
    BY <2>1 DEF Noting
  <2> QED
    BY <1>2, <2>2 DEF Owed
<1> QED
  BY <1>1, <1>2

-----------------------------------------------------------------------------
(* What a step leaves of the claim that results follow. *)

\* Nothing written: what was owed is.
LEMMA SkipFollows ==
  ASSUME NEW b \in Backend, UNCHANGED <<db, mode, batch, own, hooks>>, NoteInv(b), held[b] \subseteq held'[b],
         NEW rest \in Seq(Firings), Leaves(b, rest), NEW m \in Model,
         \A k \in Key : Keeps(b, rest, m, k), FollowInv(b, m)
  PROVE  FollowInv(b, m)'
<1>1. \A k \in Key : Owed(b, m, k) => Owed(b, m, k)'
  BY MarksSame, OwedKept
<1>2. \A k \in Key : Agrees(m, Over(db', own'[b]), k) \/ Owed(b, m, k)'
  BY <1>1 DEF FollowInv
<1>3. m \notin held'[b] => \A t \in Binds[m], k \in Key : own'[b][t][k] # None => Owed(b, m, k)'
  BY <1>1 DEF FollowInv
<1> QED
  BY <1>2, <1>3 DEF FollowInv

\* A write of t is owed to the models that read it, whoever else writes their results.
LEMMA PutFollows ==
  ASSUME NEW b \in Backend, NEW t \in Table, NEW keys \in SUBSET Key, NEW row, Put(b, t, keys, row),
         Seeing(b, t, keys), UNCHANGED <<db, mode, batch>>, NoteInv(b), held[b] \subseteq held'[b],
         NEW rest \in Seq(Firings), todo'[b] = Firing(Following(t), keys, rest), NEW m \in Model, t # Out[m],
         \A k \in Key : Keeps(b, rest, m, k), FollowInv(b, m), keys # {}
  PROVE  FollowInv(b, m)'
<1>1. Leaves(b, rest) /\ Marks(b)
  BY CapturingOf DEF Leaves, Seeing
<1>2. \A k \in Key : Owed(b, m, k) => Owed(b, m, k)'
  BY <1>1, OwedKept
<1>3. ASSUME NEW k \in Key, t \in Binds[m], m \in Elementwise => k \in keys
      PROVE  Owed(b, m, k)'
  BY <1>3, OwedNew
<1>4. Binds[m] \subseteq Table /\ Out[m] \in Table
  BY Bound
<1>5. ASSUME NEW k \in Key
      PROVE  Agrees(m, Over(db', own'[b]), k) \/ Owed(b, m, k)'
  <2>1. CASE t \in Binds[m] /\ (m \in Elementwise => k \in keys)
    BY <1>3, <2>1
  <2>2. CASE ~(t \in Binds[m] /\ (m \in Elementwise => k \in keys))
    <3>1. own[b][Out[m]][k] = own'[b][Out[m]][k]
      BY <1>4 DEF Put
    <3>2. m \in Elementwise => \A u \in Binds[m] : own[b][u][k] = own'[b][u][k]
      BY <1>4, <2>2 DEF Put
    <3>3. m \notin Elementwise => \A u \in Binds[m], j \in Key : own[b][u][j] = own'[b][u][j]
      BY <1>4, <2>2 DEF Put
    <3>4. Near(m, Over(db, own[b]), Over(db, own'[b]), k)
      BY <3>1, <3>2, <3>3, SameOwn
    <3>5. Agrees(m, Over(db, own[b]), k) => Agrees(m, Over(db, own'[b]), k)
      BY <3>4, NearAgrees
    <3> QED
      BY <1>2, <3>5 DEF FollowInv
  <2> QED
    BY <2>1, <2>2
<1>6. ASSUME m \notin held'[b], NEW u \in Binds[m], NEW k \in Key, own'[b][u][k] # None
      PROVE  Owed(b, m, k)'
  <2>1. CASE u = t /\ k \in keys
    BY <1>3, <2>1
  <2>2. CASE ~(u = t /\ k \in keys)
    <3>1. own[b][u][k] # None
      BY <1>4, <1>6, <2>2 DEF Put
    <3>2. m \notin held[b]
      BY <1>6
    <3> QED
      BY <1>2, <3>1, <3>2 DEF FollowInv
  <2> QED
    BY <2>1, <2>2
<1> QED
  BY <1>5, <1>6 DEF FollowInv

\* A model recomputed at the keys of C where it differs, the keys of at, is current or
\* owed there, and elsewhere as before.
LEMMA PutOwn ==
  ASSUME NEW b \in Backend, NEW n \in Model, NEW C \in SUBSET Key, NEW at \in SUBSET Key, NEW row,
         Put(b, Out[n], at, row), Seeing(b, Out[n], at), UNCHANGED <<db, mode, batch>>, NoteInv(b), n \in held'[b],
         n \notin Elementwise => C = Key,
         at = {k \in C : row[k] # Over(db, own[b])[Out[n]][k]}, at # {},
         \A k \in Key : row[k] = Result(n, Over(db, own[b]))[k],
         \A k \in Key : row[k] # None,
         NEW rest \in Seq(Firings), todo'[b] = Firing(Following(Out[n]), at, rest),
         \A k \in Key \ C : Keeps(b, rest, n, k), FollowInv(b, n)
  PROVE  FollowInv(b, n)'
<1> DEFINE t == Out[n]
           v == Over(db, own[b])
           w == Over(db, own'[b])
<1>1. Leaves(b, rest) /\ Marks(b)
  BY CapturingOf DEF Leaves, Seeing
<1>2. \A k \in Key \ C : Owed(b, n, k) => Owed(b, n, k)'
  BY <1>1, OwedKept
<1>3. Binds[n] \subseteq Table /\ t \in Table
  BY Bound
<1>4. ASSUME NEW k \in Key, t \in Binds[n], n \in Elementwise => k \in at
      PROVE  Owed(b, n, k)'
  BY <1>3, <1>4, OwedNew
<1>5. ASSUME NEW k \in Key
      PROVE  Agrees(n, w, k) \/ Owed(b, n, k)'
  <2>1. CASE t \in Binds[n] /\ (n \in Elementwise => k \in at)
    BY <1>4, <2>1
  <2>2. CASE ~(t \in Binds[n] /\ (n \in Elementwise => k \in at))
    <3>1. n \in Elementwise => \A u \in Binds[n] : own[b][u][k] = own'[b][u][k]
      BY <1>3, <2>2 DEF Put
    <3>2. n \notin Elementwise => \A u \in Binds[n], j \in Key : own[b][u][j] = own'[b][u][j]
      BY <1>3, <2>2 DEF Put
    <3>3. SameRead(n, v, w, k)
      BY <1>3, <3>1, <3>2, OverOf DEF SameRead
    <3>4. Result(n, v)[k] = Result(n, w)[k]
      BY <3>3, ResultLocal
    <3>5. CASE k \in at
      <4>1. own'[b][t][k] = row[k]
        BY <1>3, <3>5 DEF Put
      <4>2. w[t][k] = row[k]
        BY <1>3, <4>1, OverOf
      <4> QED
        BY <3>4, <4>2 DEF Agrees
    <3>6. CASE k \notin at
      <4>1. own'[b][t][k] = own[b][t][k]
        BY <1>3, <3>6 DEF Put
      <4>2. w[t][k] = v[t][k]
        BY <1>3, <4>1, OverOf
      <4>3. CASE k \in C
        <5>1. row[k] = v[t][k]
          BY <3>6, <4>3
        <5> QED
          BY <3>4, <4>2, <5>1 DEF Agrees
      <4>4. CASE k \notin C
        <5>1. Agrees(n, v, k) => Agrees(n, w, k)
          BY <3>4, <4>2 DEF Agrees
        <5> QED
          BY <1>2, <4>4, <5>1 DEF FollowInv
      <4> QED
        BY <4>3, <4>4
    <3> QED
      BY <3>5, <3>6
  <2> QED
    BY <2>1, <2>2
<1> QED
  BY <1>5 DEF FollowInv

-----------------------------------------------------------------------------
(* A recompute. *)

\* A model recomputed where nothing differs.
LEMMA SameOwnResult ==
  ASSUME NEW b \in Backend, UNCHANGED <<db, mode, batch, own, hooks>>, NoteInv(b), NEW n \in Model, n \in held'[b],
         NEW C \in SUBSET Key, \A k \in C : Result(n, Over(db, own[b]))[k] = Over(db, own[b])[Out[n]][k],
         NEW rest \in Seq(Firings), Leaves(b, rest), \A k \in Key \ C : Keeps(b, rest, n, k), FollowInv(b, n)
  PROVE  FollowInv(b, n)'
<1>1. \A k \in Key \ C : Owed(b, n, k) => Owed(b, n, k)'
  BY MarksSame, OwedKept
<1>2. \A k \in C : Agrees(n, Over(db, own[b]), k)
  BY DEF Agrees
<1>3. \A k \in Key : Agrees(n, Over(db', own'[b]), k) \/ Owed(b, n, k)'
  BY <1>1, <1>2 DEF FollowInv
<1> QED
  BY <1>3 DEF FollowInv

\* What a write leaves of what is noted of the tables written.
LEMMA NoteKept ==
  ASSUME own' \in [Backend -> Rows], NEW b \in Backend, NEW t \in Table, NEW keys \in SUBSET Key, keys # {},
         NEW row \in [Key -> Nat], Put(b, t, keys, row), Seeing(b, t, keys), NoteInv(b), UNCHANGED <<batch, saved>>,
         own \in [Backend -> Rows]
  PROVE  NoteInv(b)'
<1>1. PICK k \in keys : row[k] # None /\ own'[b][t][k] = row[k]
  BY ConstantsAssumption DEF Put
<1>2. own'[b][t] # NoRows[t]
  BY <1>1 DEF NoRows
<1>3. \A u \in Table \ {t} : own'[b][u] = own[b][u]
  <2> TAKE u \in Table \ {t}
  <2>1. own'[b][u] \in [Key -> Nat \cup {None}] /\ own[b][u] \in [Key -> Nat \cup {None}]
    BY DEF Rows
  <2>2. \A j \in Key : own'[b][u][j] = own[b][u][j]
    BY DEF Put
  <2> QED
    BY <2>1, <2>2
<1>4. NoRows' = NoRows
  BY DEF NoRows
<1>5. \A u \in Table : u \in written'[b] \cup batch'[b] => capOk'[b][u] # None
  BY DEF NoteInv, Seeing, Marks
<1>6. \A u \in Table : u \in written'[b] => own'[b][u] # NoRows[u]
  BY <1>2, <1>3 DEF NoteInv, Seeing
<1>7. saved[b] # None => \A u \in Table : u \in written'[b] \ inner'[b] => saved[b][u] # NoRows[u]
  BY DEF NoteInv, Seeing, Marks
<1> QED
  BY <1>4, <1>5, <1>6, <1>7 DEF NoteInv

\* What a recompute of n leaves in the session's rows, notes and triggers to fire.
Redone(b, n, rest) ==
  /\ Marks(b) /\ NoteInv(b)' /\ Leaves(b, rest)
  /\ \A m \in Model \ {n} : own'[b][Out[m]] = own[b][Out[m]]
  /\ \A m \in Model : Out[m] \in written'[b] => Out[m] \in written[b] \/ m = n
  /\ \E ms \in SUBSET Model, keys \in SUBSET Key :
       /\ todo'[b] = Firing(ms, keys, rest) /\ \A m \in ms : Out[n] \in Binds[m]
  /\ CacheInv(b) /\ UNCHANGED mode => CacheInv(b)'

LEMMA CacheKept ==
  ASSUME Types, NEW b \in Backend, CacheInv(b), Accept(b), UNCHANGED mode
  PROVE  CacheInv(b)'
<1>1. cache'[b] = (IF b \in behind THEN None ELSE cache[b]) /\ b \notin behind'
  BY DEF Types, TypeCache, Accept
<1> QED
  BY <1>1 DEF CacheInv

LEMMA RecomputedFollows ==
  ASSUME Types, NEW b \in Backend, Kept(b), NoteInv(b), snap[b] = None, UNCHANGED <<db, mode, batch, saved>>,
         NEW n \in Model, NEW keys \in SUBSET Key, NEW rest \in Seq(Firings), Recomputed(b, n, keys, rest),
         held'[b] = held[b] \cup {n},
         \A m \in Model, k \in Key : m # n \/ (n \in Elementwise /\ k \notin keys) => Keeps(b, rest, m, k)
  PROVE  Redone(b, n, rest) /\ \A m \in Model : FollowInv(b, m) => FollowInv(b, m)'
<1> DEFINE v == View(b)
           new == Result(n, v)
           C == IF n \in Elementwise THEN keys ELSE Key
           at == {k \in C : new[k] # v[Out[n]][k]}
<1>1. v = Over(db, own[b])
  BY DEF View, Base
<1>2. at \in SUBSET Key /\ C \in SUBSET Key /\ Out[n] \in Table /\ (n \notin Elementwise => C = Key)
      /\ \A m \in Model : Out[m] = Out[n] => m = n
  BY Bound
<1>3. new \in [Key -> Nat] /\ \A k \in Key : new[k] # None
  BY ResultType, ConstantsAssumption
<1>4. own \in [Backend -> Rows] /\ own' \in [Backend -> Rows]
  BY RecomputedOf DEF Types, TypeRows
<1>5. \A k \in Key \ C : Keeps(b, rest, n, k)
  OBVIOUS
<1>6. CASE at = {}
  <2>1. todo' = [todo EXCEPT ![b] = rest] /\ UNCHANGED <<own, hooks, cache, behind>>
    BY <1>6 DEF Recomputed
  <2>2. todo'[b] = rest
    BY <2>1 DEF Types, TypeTodo
  <2>3. Firing({}, {}, rest) = rest
    BY DEF Firing
  <2>4. Leaves(b, rest)
    BY <2>2, <2>3 DEF Leaves
  <2>5. NoteInv(b)'
    BY <2>1 DEF NoteInv, hooks, NoRows
  <2>6. Redone(b, n, rest)
    BY <2>1, <2>2, <2>3, <2>4, <2>5, MarksSame DEF Redone, hooks, CacheInv, NoRows
  <2>7. \A k \in C : new[k] = v[Out[n]][k]
    BY <1>6
  <2>8. FollowInv(b, n) => FollowInv(b, n)'
    <3>1. PICK D \in SUBSET Key : D = C
      BY <1>2
    <3>2. \A k \in D : Result(n, Over(db, own[b]))[k] = Over(db, own[b])[Out[n]][k]
      BY <1>1, <2>7, <3>1
    <3>3. \A k \in Key \ D : Keeps(b, rest, n, k)
      BY <1>5, <3>1
    <3> HIDE DEF v, new, C, at
    <3>4. n \in held'[b] /\ UNCHANGED <<db, mode, batch, own, hooks>>
      BY <2>1
    <3> QED
      BY <2>4, <3>2, <3>3, <3>4, SameOwnResult
  <2>9. \A m \in Model \ {n} : FollowInv(b, m) => FollowInv(b, m)'
    BY <2>1, <2>4, SkipFollows
  <2> QED
    BY <2>6, <2>8, <2>9
<1>7. CASE at # {}
  <2>1. Writes(b, Out[n], at, new, Capturing(Out[n]), rest) /\ Accept(b)
    BY <1>7 DEF Recomputed
  <2>2. todo'[b] = Firing(Following(Out[n]), at, rest)
    BY <2>1 DEF Writes, Types, TypeTodo
  <2>3. PICK t \in Table, ks \in SUBSET Key, row \in [Key -> Nat], c \in SUBSET Model, D \in SUBSET Key :
          t = Out[n] /\ ks = at /\ row = new /\ c = Capturing(Out[n]) /\ D = C
    BY <1>2, <1>3, CapturingOf DEF Types
  <2>4. Put(b, t, ks, row) /\ Seeing(b, t, ks)
    BY <2>1, <2>3, WritesSee
  <2>5. /\ ks = {k \in D : row[k] # Over(db, own[b])[t][k]} /\ ks # {}
        /\ \A k \in Key : row[k] = Result(n, Over(db, own[b]))[k]
        /\ \A k \in Key : row[k] # None
        /\ \A k \in Key \ D : Keeps(b, rest, n, k)
        /\ todo'[b] = Firing(Following(t), ks, rest)
        /\ n \notin Elementwise => D = Key
    BY <1>1, <1>2, <1>3, <1>5, <1>7, <2>2, <2>3
  <2> HIDE DEF v, new, C, at
  <2>6. FollowInv(b, n) => FollowInv(b, n)'
    <3>1. /\ Put(b, Out[n], ks, row) /\ Seeing(b, Out[n], ks)
          /\ ks = {k \in D : row[k] # Over(db, own[b])[Out[n]][k]}
          /\ todo'[b] = Firing(Following(Out[n]), ks, rest)
          /\ n \in held'[b]
      BY <2>3, <2>4, <2>5
    <3> QED
      BY <2>5, <3>1, PutOwn
  <2>7. \A m \in Model \ {n} : FollowInv(b, m) => FollowInv(b, m)'
    BY <1>2, <2>3, <2>4, <2>5, PutFollows
  <2>8. NoteInv(b)'
    BY <1>4, <2>4, <2>5, NoteKept
  <2>9. \A m \in Model \ {n} : own'[b][Out[m]] = own[b][Out[m]]
    <3> TAKE m \in Model \ {n}
    <3>1. Out[m] \in Table /\ Out[m] # t
      BY <1>2, <2>3, Bound
    <3>2. own'[b][Out[m]] \in [Key -> Nat \cup {None}] /\ own[b][Out[m]] \in [Key -> Nat \cup {None}]
      BY <1>4, <3>1 DEF Rows
    <3>3. \A k \in Key : own'[b][Out[m]][k] = own[b][Out[m]][k]
      BY <2>4, <3>1 DEF Put
    <3> QED
      BY <3>2, <3>3
  <2>10. \A m \in Model : Out[m] \in written'[b] => Out[m] \in written[b] \/ m = n
    BY <1>2, <2>3, <2>4, Bound DEF Seeing
  <2>11. Following(t) \in SUBSET Model /\ \A m \in Following(t) : t \in Binds[m]
    BY DEF Following
  <2>12. CacheInv(b) => CacheInv(b)'
    BY <2>1, CacheKept
  <2>13. Redone(b, n, rest)
    BY <2>3, <2>4, <2>5, <2>8, <2>9, <2>10, <2>11, <2>12 DEF Redone, Leaves, Seeing
  <2> QED
    BY <2>6, <2>7, <2>13
<1> QED
  BY <1>6, <1>7

-----------------------------------------------------------------------------
(* Parts a step leaves alone. *)

LEMMA SavedKept ==
  ASSUME NEW b \in Backend, Marks(b), NoteInv(b), UNCHANGED <<db, mode, saved>>,
         saved[b] # None => held'[b] \ sub'[b] = held[b] \ sub[b], NEW m \in Model, SavedInv(b, m)
  PROVE  SavedInv(b, m)'
<1>1. CASE saved[b] = None
  BY <1>1 DEF SavedInv
<1>2. CASE saved[b] # None
  <2>1. Binds[m] \subseteq Table
    BY Bound
  <2>2. \A k \in Key : OwedThen(b, m, k) => OwedThen(b, m, k)'
    <3> TAKE k \in Key
    <3> SUFFICES ASSUME OwedThen(b, m, k) PROVE OwedThen(b, m, k)'
      OBVIOUS
    <3>1. PICK t \in Binds[m] : t \in written[b] \ inner[b] /\ (m \in Elementwise => Noticed(b, m, t, k))
      BY DEF OwedThen, Noting
    <3>2. t \in Table /\ t \in written'[b] \ inner'[b]
      BY <1>2, <2>1, <3>1 DEF Marks
    <3>3. m \in Elementwise => Noticed(b, m, t, k)'
      BY <3>1, <3>2 DEF Marks, NoteInv
    <3> QED
      BY <3>1, <3>2, <3>3 DEF OwedThen, Noting
  <2>3. \A k \in Key : Agrees(m, Over(db', saved'[b]), k) \/ OwedThen(b, m, k)'
    BY <1>2, <2>2 DEF SavedInv
  <2>4. m \notin held'[b] \ sub'[b] =>
          \A t \in Binds[m], k \in Key : saved'[b][t][k] # None => OwedThen(b, m, k)'
    BY <1>2, <2>2 DEF SavedInv
  <2> QED
    BY <2>3, <2>4 DEF SavedInv
<1> QED
  BY <1>1, <1>2

\* What a session has written, noted, locked and is yet to do.
Same(c) ==
  /\ own'[c] = own[c] /\ saved'[c] = saved[c] /\ held'[c] = held[c] /\ sub'[c] = sub[c]
  /\ written'[c] = written[c] /\ inner'[c] = inner[c] /\ captured'[c] = captured[c] /\ capOk'[c] = capOk[c]
  /\ todo'[c] = todo[c] /\ batch'[c] = batch[c] /\ models'[c] = models[c]

LEMMA SameOwed ==
  ASSUME NEW c \in Backend, Same(c), NEW m \in Model, mode'[m] = mode[m], NEW k \in Key
  PROVE  Owed(c, m, k)' = Owed(c, m, k) /\ OwedThen(c, m, k)' = OwedThen(c, m, k)
<1>1. \A t \in Table : Noticed(c, m, t, k)' = Noticed(c, m, t, k)
  BY DEF Same, Noticed
<1>2. \A W : Noting(c, W, m, k)' = Noting(c, W, m, k)
  BY <1>1, Bound DEF Noting
<1>3. ToFire(todo'[c], m, k) = ToFire(todo[c], m, k)
  BY DEF Same
<1>4. /\ Noting(c, written[c], m, k)' = Noting(c, written[c], m, k)
      /\ Noting(c, batch[c], m, k)' = Noting(c, batch[c], m, k)
      /\ Noting(c, written[c] \ inner[c], m, k)' = Noting(c, written[c] \ inner[c], m, k)
  BY <1>1, Bound DEF Noting, Same
<1> QED
  BY <1>3, <1>4 DEF Owed, OwedThen, Same

LEMMA SameNotes ==
  ASSUME NEW c \in Backend, Same(c), NoteInv(c)
  PROVE  NoteInv(c)'
  BY DEF Same, NoteInv, NoRows

LEMMA SameOut ==
  ASSUME NEW c \in Backend, Same(c), NEW m \in Model, OutInv(c, m)
  PROVE  OutInv(c, m)'
  BY DEF Same, OutInv, NoRows

LEMMA SameFollows ==
  ASSUME NEW c \in Backend, Same(c), UNCHANGED <<db, mode>>, NEW m \in Model
  PROVE  (FollowInv(c, m) => FollowInv(c, m)') /\ (SavedInv(c, m) => SavedInv(c, m)')
<1>1. \A k \in Key : Owed(c, m, k)' = Owed(c, m, k) /\ OwedThen(c, m, k)' = OwedThen(c, m, k)
  BY SameOwed
<1>2. FollowInv(c, m) => FollowInv(c, m)'
  BY <1>1 DEF FollowInv, Same
<1>3. SavedInv(c, m) => SavedInv(c, m)'
  BY <1>1 DEF SavedInv, Same
<1> QED
  BY <1>2, <1>3

LEMMA SameCache ==
  ASSUME NEW c \in Backend, own'[c] = own[c], UNCHANGED mode, cache'[c] = cache[c],
         c \in behind => c \in behind', CacheInv(c)
  PROVE  CacheInv(c)'
  BY DEF CacheInv, NoRows

LEMMA SameDone ==
  ASSUME NEW c \in Backend, pc'[c] = pc[c], snap'[c] = snap[c], todo'[c] = todo[c], written'[c] = written[c],
         UNCHANGED mode, DoneInv(c)
  PROVE  DoneInv(c)'
  BY DEF DoneInv

LEMMA SameLayer ==
  ASSUME NEW c \in Backend, pc'[c] = pc[c], pass'[c] = pass[c], todo'[c] = todo[c], written'[c] = written[c],
         models'[c] = models[c], LayerInv(c)
  PROVE  LayerInv(c)'
  BY DEF LayerInv

\* A session a step is not of.
Apart(c) ==
  /\ Same(c) /\ pc'[c] = pc[c] /\ snap'[c] = snap[c] /\ pass'[c] = pass[c]
  /\ cache'[c] = cache[c] /\ (c \in behind => c \in behind')

LEMMA ApartFollows ==
  ASSUME NEW c \in Backend, Apart(c), UNCHANGED <<db, mode>>, SessionInv(c)
  PROVE  SessionInv(c)'
<1>1. Same(c) /\ NoteInv(c)' /\ CacheInv(c)' /\ DoneInv(c)' /\ LayerInv(c)'
  BY SameNotes, SameCache, SameDone, SameLayer DEF Apart, Same, SessionInv
<1>2. \A m \in Model : OutInv(c, m)'
  BY <1>1, SameOut DEF SessionInv
<1>3. \A m \in Model : Follows(m)' => FollowInv(c, m)' /\ SavedInv(c, m)'
  BY <1>1, SameFollows DEF SessionInv, Follows
<1> QED
  BY <1>1, <1>2, <1>3 DEF SessionInv

\* A step of session b that leaves the committed tables alone.
LEMMA StepOf ==
  ASSUME ResultsInv, NEW b \in Backend, \A c \in Backend \ {b} : Apart(c), UNCHANGED <<db, mode>>,
         SessionInv(b)'
  PROVE  ResultsInv'
<1>1. \A c \in Backend : SessionInv(c)'
  BY ApartFollows DEF ResultsInv
<1>2. DbInv'
  BY DEF ResultsInv, DbInv, Follows
<1> QED
  BY <1>1, <1>2 DEF ResultsInv

-----------------------------------------------------------------------------
(* One lemma per action: statements. *)

LEMMA InitFollows ==
  ASSUME Init
  PROVE  ResultsInv
<1>1. \A m \in Model, k \in Key : Agrees(m, db, k)
  BY StartAssumption DEF Init, Agrees
<1>2. ASSUME NEW b \in Backend
      PROVE  SessionInv(b)
  <2>1. /\ own[b] = NoRows /\ saved[b] = None /\ snap[b] = None /\ written[b] = {} /\ batch[b] = {}
        /\ cache[b] = None /\ todo[b] = <<>> /\ pc[b] = "idle"
    BY <1>2 DEF Init
  <2>2. NoteInv(b) /\ CacheInv(b) /\ DoneInv(b) /\ LayerInv(b)
    BY <2>1 DEF NoteInv, CacheInv, DoneInv, LayerInv
  <2>3. ASSUME NEW m \in Model
        PROVE  OutInv(b, m) /\ FollowInv(b, m) /\ SavedInv(b, m)
    <3>1. Binds[m] \subseteq Table /\ Out[m] \in Table
      BY Bound
    <3>2. \A k \in Key : Near(m, db, Over(db, own[b]), k)
      BY <2>1, <3>1, NoneOwn DEF NoRows
    <3>3. \A k \in Key : Agrees(m, Over(db, own[b]), k)
      BY <1>1, <3>2, NearAgrees
    <3>4. \A t \in Binds[m], k \in Key : own[b][t][k] = None
      BY <2>1, <3>1 DEF NoRows
    <3> QED
      BY <2>1, <3>3, <3>4 DEF OutInv, FollowInv, SavedInv
  <2> QED
    BY <2>2, <2>3 DEF SessionInv
<1> QED
  BY <1>1, <1>2 DEF ResultsInv, DbInv

LEMMA BeginFollows ==
  ASSUME IInv, ResultsInv, NEW b \in Backend, NEW rr \in BOOLEAN, Begin(b, rr), "rr" \notin Env
  PROVE  ResultsInv'
<1>1. Types /\ SessionInv(b)
  BY Parts DEF ResultsInv
<1>2. /\ pc[b] = "idle" /\ Goto(b, "open") /\ snap' = [snap EXCEPT ![b] = None]
      /\ UNCHANGED <<db, mode, capture, own, saved, hooks, cache, behind, locks, commit, switch, bounds>>
  BY DEF Begin
<1>3. pc'[b] = "open" /\ \A c \in Backend \ {b} : pc'[c] = pc[c]
  BY <1>1, <1>2, GotoOf DEF Places
<1>4. snap'[b] = None /\ \A c \in Backend \ {b} : snap'[c] = snap[c]
  BY <1>1, <1>2 DEF Types, TypeRows
<1>5. \A c \in Backend : Same(c) /\ pass'[c] = pass[c] /\ cache'[c] = cache[c] /\ (c \in behind => c \in behind')
  BY <1>2 DEF Same, hooks, locks, commit
<1>6. \A c \in Backend \ {b} : Apart(c)
  BY <1>3, <1>4, <1>5 DEF Apart
<1>7. DoneInv(b)' /\ LayerInv(b)'
  <2>1. todo[b] = <<>>
    BY <1>1, <1>2 DEF SessionInv, DoneInv
  <2> QED
    BY <1>3, <1>4, <1>5, <2>1 DEF DoneInv, LayerInv, Same
<1>8. NoteInv(b)' /\ CacheInv(b)'
  BY <1>1, <1>2, <1>5, SameNotes, SameCache DEF SessionInv, Same
<1>9. \A m \in Model : OutInv(b, m)' /\ (Follows(m)' => FollowInv(b, m)' /\ SavedInv(b, m)')
  BY <1>1, <1>2, <1>5, SameOut, SameFollows DEF SessionInv, Follows
<1> QED
  BY <1>2, <1>6, <1>7, <1>8, <1>9, StepOf DEF SessionInv

\* A statement that writes rows of a user's table.
LEMMA StatementFollows ==
  ASSUME IInv, IInv', ResultsInv, NEW b \in Backend, NEW t \in Rel, NEW keys \in SUBSET Key, keys # {},
         NEW row \in [Key -> Nat], Put(b, t, keys, row), Seeing(b, t, keys), pc[b] = "open",
         todo'[b] = Firing(Following(t), keys, <<>>),
         pc'[b] = IF todo'[b] = <<>> THEN "open" ELSE "fires", Accept(b),
         UNCHANGED <<db, mode, saved, snap, locks, batch, models, pass>>,
         \A c \in Backend \ {b} : Apart(c)
  PROVE  ResultsInv'
<1>1. Types /\ Kept(b) /\ SessionInv(b) /\ t \in Table /\ <<>> \in Seq(Firings)
  BY Parts, DueNothing DEF ResultsInv, Table
<1>2. todo[b] = <<>> /\ models[b] = {}
  BY <1>1 DEF SessionInv, DoneInv, Kept
<1>3. own \in [Backend -> Rows] /\ own' \in [Backend -> Rows]
  BY Parts, TypePartsNext DEF Types, TypeRows, IInv
<1>4. NoteInv(b)'
  BY <1>1, <1>3, NoteKept DEF SessionInv
<1>5. CacheInv(b)'
  BY <1>1, CacheKept DEF SessionInv
<1>6. DoneInv(b)' /\ LayerInv(b)'
  BY <1>1 DEF DoneInv, LayerInv, SessionInv
<1>7. ASSUME NEW m \in Model
      PROVE  OutInv(b, m)' /\ (Follows(m)' => FollowInv(b, m)' /\ SavedInv(b, m)')
  <2>1. t # Out[m] /\ Out[m] \in Table
    BY Bound, ConstantsAssumption
  <2>2. own'[b][Out[m]] = own[b][Out[m]]
    <3>1. own'[b][Out[m]] \in [Key -> Nat \cup {None}] /\ own[b][Out[m]] \in [Key -> Nat \cup {None}]
      BY <1>3, <2>1 DEF Rows
    <3>2. \A k \in Key : own'[b][Out[m]][k] = own[b][Out[m]][k]
      BY <2>1 DEF Put
    <3> QED
      BY <3>1, <3>2
  <2>3. OutInv(b, m)'
    <3>1. OutInv(b, m) /\ NoRows' = NoRows
      BY <1>1 DEF SessionInv, NoRows
    <3> QED
      BY <2>2, <3>1 DEF OutInv, locks
  <2>4. \A k \in Key : Keeps(b, <<>>, m, k)
    BY <1>2 DEF Keeps, ToFire
  <2>5. FollowInv(b, m) => FollowInv(b, m)'
    BY <1>1, <2>1, <2>4, PutFollows DEF locks, SessionInv
  <2>6. SavedInv(b, m) => SavedInv(b, m)'
    BY <1>1, SavedKept DEF locks, SessionInv, Seeing
  <2> QED
    BY <1>1, <2>3, <2>5, <2>6 DEF SessionInv, Follows
<1> QED
  BY <1>4, <1>5, <1>6, <1>7, StepOf DEF SessionInv

\* What Writes and Accept leave of the other sessions.
LEMMA WritesApart ==
  ASSUME Types, NEW b \in Backend, NEW t, NEW keys, NEW row, NEW caught, NEW rest, Writes(b, t, keys, row, caught, rest)
  PROVE  \A c \in Backend \ {b} :
           /\ own'[c] = own[c] /\ written'[c] = written[c] /\ inner'[c] = inner[c]
           /\ captured'[c] = captured[c] /\ capOk'[c] = capOk[c] /\ todo'[c] = todo[c]
  BY DEF Types, TypeRows, TypeHooks, TypeTodo, Writes

LEMMA AcceptApart ==
  ASSUME Types, NEW b \in Backend, Accept(b)
  PROVE  \A c \in Backend \ {b} : cache'[c] = cache[c] /\ (c \in behind => c \in behind')
  BY DEF Types, TypeCache, Accept

LEMMA WriteFollows ==
  ASSUME IInv, IInv', ResultsInv, NEW b \in Backend, NEW t \in Rel, NEW k \in Key, NEW v \in {0, 1},
         NEW fires \in BOOLEAN, Write(b, t, k, v, fires)
  PROVE  ResultsInv'
<1> DEFINE row == [x \in Key |-> v]
           caught == IF fires THEN Capturing(t) ELSE {}
           l == IF todo'[b] = <<>> THEN "open" ELSE "fires"
<1>1. Types /\ Kept(b) /\ t \in Table
  BY Parts DEF Table
<1>2. /\ pc[b] = "open" /\ Writes(b, t, {k}, row, caught, <<>>) /\ Goto(b, l) /\ Accept(b)
      /\ UNCHANGED <<db, mode, capture, saved, snap, locks, batch, models, pass, switch, switches>>
  BY DEF Write
<1>3. row \in [Key -> Nat] /\ {k} \in SUBSET Key /\ {k} # {} /\ caught \in SUBSET Model /\ l \in Places
  BY <1>1, CapturingOf DEF Types, Places
<1>4. pc'[b] = l /\ \A c \in Backend \ {b} : pc'[c] = pc[c]
  BY <1>1, <1>2, <1>3, GotoOf
<1>5. todo'[b] = Firing(Following(t), {k}, <<>>)
  BY <1>1, <1>2 DEF Writes, Types, TypeTodo
<1> HIDE DEF row, caught
<1>6. PICK ks \in SUBSET Key, r \in [Key -> Nat], c \in SUBSET Model : ks = {k} /\ r = row /\ c = caught
  BY <1>3
<1>7. Put(b, t, ks, r) /\ Seeing(b, t, ks)
  BY <1>1, <1>2, <1>6, WritesSee
<1>8. \A c2 \in Backend \ {b} : Apart(c2)
  BY <1>1, <1>2, <1>4, WritesApart, AcceptApart DEF Apart, Same, locks
<1> QED
  BY <1>2, <1>3, <1>4, <1>5, <1>6, <1>7, <1>8, StatementFollows

LEMMA TruncateFollows ==
  ASSUME IInv, IInv', ResultsInv, NEW b \in Backend, NEW t \in Rel, NEW cascade \in BOOLEAN,
         Truncate(b, t, cascade)
  PROVE  ResultsInv'
<1> DEFINE zero == [x \in Key |-> 0]
           l == IF todo'[b] = <<>> THEN "open" ELSE "fires"
<1>1. Types /\ Kept(b) /\ t \in Table
  BY Parts DEF Table
<1>2. /\ pc[b] = "open" /\ Goto(b, l) /\ Accept(b)
      /\ UNCHANGED <<db, mode, capture, saved, snap, locks, batch, models, pass, switch, switches>>
      /\ todo' = [todo EXCEPT ![b] = Firing(Following(t), Key, <<>>)]
  BY DEF Truncate
<1>3. zero \in [Key -> Nat] /\ Key # {} /\ l \in Places
  BY ConstantsAssumption DEF Places
<1>4. pc'[b] = l /\ \A c \in Backend \ {b} : pc'[c] = pc[c]
  BY <1>1, <1>2, <1>3, GotoOf
<1>5. todo'[b] = Firing(Following(t), Key, <<>>)
  BY <1>1, <1>2 DEF Types, TypeTodo
<1>6. Put(b, t, Key, zero) /\ Seeing(b, t, Key)
  BY <1>1, TruncateSees
<1>7. \A c \in Backend \ {b} : /\ own'[c] = own[c] /\ written'[c] = written[c] /\ inner'[c] = inner[c]
                               /\ captured'[c] = captured[c] /\ capOk'[c] = capOk[c] /\ todo'[c] = todo[c]
  BY <1>1 DEF Truncate, Types, TypeRows, TypeHooks, TypeTodo
<1>8. \A c \in Backend \ {b} : Apart(c)
  BY <1>1, <1>2, <1>4, <1>7, AcceptApart DEF Apart, Same, locks
<1> HIDE DEF zero
<1>9. PICK ks \in SUBSET Key, r \in [Key -> Nat] : ks = Key /\ r = zero
  BY <1>3
<1> QED
  BY <1>2, <1>3, <1>4, <1>5, <1>6, <1>8, <1>9, StatementFollows

-----------------------------------------------------------------------------
(* A model's turn to be recomputed. *)

LEMMA RecomputedApart ==
  ASSUME Types, NEW b \in Backend, NEW m \in Model, NEW keys, NEW rest, Recomputed(b, m, keys, rest)
  PROVE  \A c \in Backend \ {b} :
           /\ own'[c] = own[c] /\ written'[c] = written[c] /\ inner'[c] = inner[c]
           /\ captured'[c] = captured[c] /\ capOk'[c] = capOk[c] /\ todo'[c] = todo[c]
           /\ cache'[c] = cache[c] /\ (c \in behind => c \in behind')
<1> DEFINE new == Result(m, View(b))
           at == {k \in (IF m \in Elementwise THEN keys ELSE Key) : new[k] # View(b)[Out[m]][k]}
<1>1. CASE at = {}
  <2>1. todo' = [todo EXCEPT ![b] = rest] /\ UNCHANGED <<own, hooks, cache, behind>>
    BY <1>1 DEF Recomputed
  <2> QED
    BY <2>1 DEF Types, TypeTodo, hooks
<1>2. CASE at # {}
  <2>1. Writes(b, Out[m], at, new, Capturing(Out[m]), rest) /\ Accept(b)
    BY <1>2 DEF Recomputed
  <2> HIDE DEF at, new
  <2> QED
    BY <2>1, WritesApart, AcceptApart
<1> QED
  BY <1>1, <1>2

\* Model n is locked, and recomputed at keys or, if it is none of those that follow, passed over.
Turn(b, n, rest) ==
  \/ \E keys \in SUBSET Key :
       /\ Recomputed(b, n, keys, rest)
       /\ \A m \in Model, k \in Key : m # n \/ (n \in Elementwise /\ k \notin keys) => Keeps(b, rest, m, k)
  \/ /\ UNCHANGED <<own, hooks, cache, behind>> /\ Left(b, rest)
     /\ \A m \in Model, k \in Key : Follows(m) => Keeps(b, rest, m, k)

\* What session b is left with.
Turned(b, n, rest) ==
  /\ NoteInv(b)' /\ CacheInv(b)'
  /\ \A m \in Model : OutInv(b, m)' /\ (Follows(m)' => FollowInv(b, m)' /\ SavedInv(b, m)')
  /\ \A m \in Model : Out[m] \in written'[b] => Out[m] \in written[b] \/ m = n
  /\ \E ms \in SUBSET Model, keys \in SUBSET Key :
       /\ todo'[b] = Firing(ms, keys, rest) /\ \A m \in ms : Out[n] \in Binds[m]
  /\ \A c \in Backend \ {b} :
       /\ own'[c] = own[c] /\ written'[c] = written[c] /\ inner'[c] = inner[c]
       /\ captured'[c] = captured[c] /\ capOk'[c] = capOk[c] /\ todo'[c] = todo[c]
       /\ cache'[c] = cache[c] /\ (c \in behind => c \in behind')
       /\ held'[c] = held[c] /\ sub'[c] = sub[c]

LEMMA TurnFollows ==
  ASSUME IInv, ResultsInv, NEW b \in Backend, UNCHANGED <<db, mode, batch, saved, snap, switch>>,
         NEW n \in Model, NEW rest \in Seq(Firings), Lockable(b, n), Lock(b, n), Turn(b, n, rest)
  PROVE  Turned(b, n, rest)
<1>1. Types /\ LockInv /\ Kept(b) /\ SessionInv(b)
  BY Parts DEF ResultsInv
<1>2. /\ NoteInv(b) /\ CacheInv(b) /\ snap[b] = None
      /\ \A m \in Model : OutInv(b, m) /\ (Follows(m) => FollowInv(b, m) /\ SavedInv(b, m))
  BY <1>1 DEF SessionInv, DoneInv
<1>3. /\ held'[b] = held[b] \cup {n} /\ \A c \in Backend \ {b} : held'[c] = held[c] /\ sub'[c] = sub[c]
      /\ saved[b] # None => held'[b] \ sub'[b] = held[b] \ sub[b]
  <2>1. /\ held'[b] = held[b] \cup {n}
        /\ sub'[b] = IF saved[b] # None /\ n \notin held[b] THEN sub[b] \cup {n} ELSE sub[b]
    BY <1>1 DEF Lock, Types, TypeLocks
  <2>2. \A c \in Backend \ {b} : held'[c] = held[c] /\ sub'[c] = sub[c]
    BY <1>1, LockOf
  <2> QED
    BY <2>1, <2>2
<1>4. ASSUME Redone(b, n, rest), \A m \in Model : Follows(m) /\ FollowInv(b, m) => FollowInv(b, m)',
             \A c \in Backend \ {b} :
               /\ own'[c] = own[c] /\ written'[c] = written[c] /\ inner'[c] = inner[c]
               /\ captured'[c] = captured[c] /\ capOk'[c] = capOk[c] /\ todo'[c] = todo[c]
               /\ cache'[c] = cache[c] /\ (c \in behind => c \in behind')
      PROVE  Turned(b, n, rest)
  <2>1. \A m \in Model : SavedInv(b, m) => SavedInv(b, m)'
    BY <1>2, <1>3, <1>4, SavedKept DEF Redone
  <2>2. ASSUME NEW m \in Model PROVE OutInv(b, m)'
    <3>1. OutInv(b, m) /\ NoRows' = NoRows
      BY <1>2 DEF NoRows
    <3> QED
      BY <1>3, <1>4, <3>1 DEF OutInv, Redone
  <2>3. CacheInv(b)' /\ NoteInv(b)'
    BY <1>2, <1>4 DEF Redone
  <2> QED
    BY <1>2, <1>3, <1>4, <2>1, <2>2, <2>3 DEF Turned, Follows, Redone
<1>5. ASSUME NEW keys \in SUBSET Key, Recomputed(b, n, keys, rest),
             \A m \in Model, k \in Key : m # n \/ (n \in Elementwise /\ k \notin keys) => Keeps(b, rest, m, k)
      PROVE  Turned(b, n, rest)
  <2>1. Redone(b, n, rest) /\ \A m \in Model : FollowInv(b, m) => FollowInv(b, m)'
    BY <1>1, <1>2, <1>3, <1>5, RecomputedFollows
  <2> QED
    BY <1>1, <1>4, <1>5, <2>1, RecomputedApart
<1>6. CASE /\ UNCHANGED <<own, hooks, cache, behind>> /\ Left(b, rest)
           /\ \A m \in Model, k \in Key : Follows(m) => Keeps(b, rest, m, k)
  <2>1. todo'[b] = rest /\ \A c \in Backend \ {b} : todo'[c] = todo[c]
    BY <1>1, <1>6 DEF Types, TypeTodo, Left
  <2>2. Firing({}, {}, rest) = rest
    BY DEF Firing
  <2>3. Leaves(b, rest)
    BY <2>1, <2>2 DEF Leaves
  <2>4. NoteInv(b)' /\ CacheInv(b)'
    BY <1>2, <1>6 DEF NoteInv, CacheInv, hooks, NoRows
  <2>5. Redone(b, n, rest)
    BY <1>6, <2>1, <2>2, <2>3, <2>4, MarksSame DEF Redone, hooks
  <2>6. \A m \in Model : Follows(m) /\ FollowInv(b, m) => FollowInv(b, m)'
    BY <1>2, <1>3, <1>6, <2>3, SkipFollows
  <2> QED
    BY <1>4, <1>6, <2>1, <2>5, <2>6 DEF hooks
<1> QED
  BY <1>5, <1>6 DEF Turn

LEMMA RecalcFollows ==
  ASSUME IInv, ResultsInv, NEW b \in Backend, NEW m \in Model, Recalc(b, m)
  PROVE  ResultsInv'
<1> DEFINE l == IF todo'[b] = <<>> THEN "open" ELSE "fires"
<1>1. Types /\ Kept(b) /\ SessionInv(b) /\ <<>> \in Seq(Firings)
  BY Parts, DueNothing DEF ResultsInv
<1>2. /\ pc[b] = "open" /\ Lockable(b, m) /\ Lock(b, m) /\ Goto(b, l) /\ Recomputed(b, m, Key, <<>>)
      /\ UNCHANGED <<db, mode, capture, saved, snap, batch, models, pass, switch, switches>>
  BY DEF Recalc
<1>3. todo[b] = <<>> /\ models[b] = {} /\ snap[b] = None
  BY <1>1, <1>2 DEF SessionInv, DoneInv, Kept
<1>4. \A n \in Model, k \in Key : Keeps(b, <<>>, n, k)
  BY <1>3 DEF Keeps, ToFire
<1>5. Turn(b, m, <<>>)
  BY <1>2, <1>4 DEF Turn
<1>6. Turned(b, m, <<>>)
  BY <1>1, <1>2, <1>5, TurnFollows
<1>7. pc'[b] = l /\ \A c \in Backend \ {b} : pc'[c] = pc[c]
  BY <1>1, <1>2, GotoOf DEF Places
<1>8. DoneInv(b)' /\ LayerInv(b)'
  BY <1>2, <1>3, <1>7 DEF DoneInv, LayerInv
<1>9. \A c \in Backend \ {b} : Apart(c)
  BY <1>2, <1>6, <1>7 DEF Apart, Same, Turned
<1> QED
  BY <1>2, <1>6, <1>8, <1>9, StepOf DEF SessionInv, Turned

\* What is left to recompute is in layers from p on.
Deep(q, p) == \A i \in DOMAIN q : \A m \in q[i].models : Layer[m] >= p

LEMMA DeepFiring ==
  ASSUME NEW ms \in SUBSET Model, NEW keys \in SUBSET Key, NEW rest \in Seq(Firings), NEW p,
         Deep(rest, p), \A m \in ms : Layer[m] >= p
  PROVE  Deep(Firing(ms, keys, rest), p)
<1>1. \A i \in DOMAIN Firing(ms, keys, rest) :
        \/ Firing(ms, keys, rest)[i].models = ms
        \/ \E j \in DOMAIN rest : Firing(ms, keys, rest)[i] = rest[j]
  BY FiringOf
<1> QED
  BY <1>1 DEF Deep

LEMMA DeepTail ==
  ASSUME NEW q \in Seq(Firings), q # <<>>, NEW p, Deep(q, p)
  PROVE  Deep(Tail(q), p) /\ \A m \in Head(q).models : Layer[m] >= p
<1>1. Head(q) = q[1] /\ 1 \in DOMAIN q /\ \A j \in DOMAIN Tail(q) : Tail(q)[j] = q[j + 1] /\ j + 1 \in DOMAIN q
  OBVIOUS
<1> QED
  BY <1>1 DEF Deep

\* Who reads the results of a model is in a later layer.
LEMMA LayerOf ==
  ASSUME Layered
  PROVE  /\ \A m \in Model : Layer[m] \in 0 .. MaxPass - 1 /\ Layer[m] \in Int
         /\ \A m, n \in Model : Out[m] \in Binds[n] => Layer[m] < Layer[n]
<1>1. Layer \in Layers
  BY DEF Layered, Layer
<1> QED
  BY <1>1, ConstantsAssumption DEF Layers

LEMMA FireFollows ==
  ASSUME IInv, ResultsInv, NEW b \in Backend, Fire(b)
  PROVE  ResultsInv'
<1> DEFINE q == todo[b]
           now == Head(q)
           n == NextModel(now.models)
           ms == now.models \ {n}
           rest == Firing(ms, now.keys, Tail(q))
           l == IF pc[b] = "fires" /\ todo'[b] = <<>> THEN "open" ELSE pc[b]
<1>1. Types /\ FireInv /\ Kept(b) /\ SessionInv(b) /\ q \in Seq(Firings) /\ pc[b] \in Places
  BY Parts DEF ResultsInv, Types, TypeTodo, TypeRound
<1>2. /\ pc[b] \in {"fires", "recompute"} /\ q # <<>> /\ Lockable(b, n) /\ Lock(b, n) /\ Goto(b, l)
      /\ UNCHANGED <<db, mode, capture, saved, snap, asked, batch, models, pass, switch, bounds>>
  BY DEF Fire
<1>3. \/ mode[n] = "trigger" /\ Recomputed(b, n, now.keys, rest)
      \/ mode[n] # "trigger" /\ UNCHANGED <<own, hooks, cache, behind>> /\ Left(b, rest)
  BY DEF Fire, Left
<1>4. ms \in SUBSET now.models
  OBVIOUS
<1>5. /\ now.models \in SUBSET Model /\ now.models # {} /\ now.keys \in SUBSET Key
      /\ \A m \in now.models : mode[m] # "commit" /\ rest \in Seq(Firings)
  BY <1>1, <1>2, <1>4, DueRest
<1>6. n \in now.models /\ n \in Model /\ mode[n] # "commit"
  BY <1>5, NextModelOf
<1>7. rest \in Seq(Firings)
  BY <1>5
<1>8. ASSUME NEW m \in Model, NEW k \in Key, m # n \/ (n \in Elementwise /\ k \notin now.keys)
      PROVE  Keeps(b, rest, m, k)
  <2>1. ToFire(todo[b], m, k) => ToFire(rest, m, k)
    BY <1>1, <1>2, <1>6, <1>8, ToFireRest
  <2> QED
    BY <1>2, <2>1 DEF Keeps
<1> HIDE DEF now, ms, rest, n, q
<1>9. Turn(b, n, rest)
  <2>1. CASE mode[n] = "trigger" /\ Recomputed(b, n, now.keys, rest)
    BY <1>5, <1>8, <2>1 DEF Turn
  <2>2. CASE mode[n] # "trigger" /\ UNCHANGED <<own, hooks, cache, behind>> /\ Left(b, rest)
    <3>1. ~Follows(n)
      BY <1>6, <2>2 DEF Follows, Sure
    <3> QED
      BY <1>8, <2>2, <3>1 DEF Turn
  <2> QED
    BY <1>3, <2>1, <2>2
<1>10. PICK x \in Model, r \in Seq(Firings) : x = n /\ r = rest
  BY <1>6, <1>7
<1>11. Turned(b, x, r)
  BY <1>2, <1>9, <1>10, TurnFollows
<1>12. pc'[b] = l /\ \A c \in Backend \ {b} : pc'[c] = pc[c]
  BY <1>1, <1>2, GotoOf DEF Places
<1>13. DoneInv(b)'
  BY <1>1, <1>2, <1>12 DEF DoneInv, SessionInv
<1>14. LayerInv(b)'
  <2> SUFFICES ASSUME Layered, pc'[b] \in {"pass", "recompute"}, pass'[b] # 0
               PROVE  /\ \A m \in Model : Out[m] \in written'[b] => Layer[m] >= pass'[b] - 1
                      /\ \A m \in models'[b] : Layer[m] >= pass'[b] - 1
                      /\ Deep(todo'[b], pass'[b] - 1)
    BY DEF LayerInv, Deep
  <2> DEFINE p == pass[b] - 1
  <2>1. pc[b] = "recompute" /\ pass'[b] = pass[b] /\ models'[b] = models[b] /\ p \in Int
    BY <1>1, <1>2, <1>12, ConstantsAssumption DEF Types, TypeRound
  <2>2. /\ \A m \in Model : Out[m] \in written[b] => Layer[m] >= p
        /\ \A m \in models[b] : Layer[m] >= p
        /\ Deep(q, p)
    BY <1>1, <2>1 DEF SessionInv, LayerInv, Deep, q
  <2>3. Tail(q) \in Seq(Firings) /\ ms \in SUBSET Model /\ now.keys \in SUBSET Key
    BY <1>1, <1>2, <1>4, <1>5
  <2> HIDE DEF p
  <2>4. Deep(Tail(q), p) /\ \A m \in now.models : Layer[m] >= p
    BY <1>1, <1>2, <2>2, DeepTail DEF now
  <2>5. Deep(rest, p)
    <3>1. PICK y \in Seq(Firings), s \in SUBSET Model, ks \in SUBSET Key : y = Tail(q) /\ s = ms /\ ks = now.keys
      BY <2>3
    <3>2. Deep(Firing(s, ks, y), p)
      BY <1>4, <2>4, <3>1, DeepFiring
    <3> QED
      BY <3>1, <3>2 DEF rest
  <2>6. PICK s \in SUBSET Model, ks \in SUBSET Key :
          todo'[b] = Firing(s, ks, r) /\ \A m \in s : Out[x] \in Binds[m]
    BY <1>11 DEF Turned
  <2>7. \A m \in s : Layer[m] >= p
    BY <1>6, <1>10, <2>1, <2>4, <2>6, LayerOf
  <2>8. Deep(todo'[b], p)
    BY <1>10, <2>5, <2>6, <2>7, DeepFiring
  <2>9. \A m \in Model : Out[m] \in written'[b] => Layer[m] >= p
    BY <1>6, <1>10, <1>11, <2>2, <2>4 DEF Turned
  <2> QED
    BY <2>1, <2>2, <2>8, <2>9 DEF p
<1>15. \A c \in Backend \ {b} : Apart(c)
  BY <1>2, <1>11, <1>12 DEF Apart, Same, Turned
<1> QED
  BY <1>2, <1>11, <1>13, <1>14, <1>15, StepOf DEF SessionInv, Turned

-----------------------------------------------------------------------------
(* Savepoints. *)

LEMMA SavepointFollows ==
  ASSUME IInv, ResultsInv, NEW b \in Backend, Savepoint(b)
  PROVE  ResultsInv'
<1>1. Types /\ Kept(b) /\ SessionInv(b)
  BY Parts DEF ResultsInv
<1>2. /\ pc[b] = "open" /\ saved[b] = None /\ saved' = [saved EXCEPT ![b] = own[b]]
      /\ UNCHANGED <<db, mode, capture, pc, own, snap, hooks, cache, behind, locks, commit, switch, bounds>>
  BY DEF Savepoint
<1>3. saved'[b] = own[b] /\ \A c \in Backend \ {b} : saved'[c] = saved[c]
  BY <1>1, <1>2 DEF Types, TypeRows
<1>4. /\ todo[b] = <<>> /\ models[b] = {} /\ inner[b] = {} /\ sub[b] = {}
      /\ written[b] \ inner[b] = written[b] /\ held[b] \ sub[b] = held[b]
  BY <1>1, <1>2 DEF Kept, SessionInv, DoneInv
<1>5. NoteInv(b)'
  BY <1>1, <1>2, <1>3 DEF NoteInv, hooks, commit, NoRows, SessionInv
<1>6. CacheInv(b)' /\ DoneInv(b)' /\ LayerInv(b)'
  BY <1>1, <1>2, SameCache, SameDone, SameLayer DEF SessionInv, hooks, commit
<1>7. ASSUME NEW m \in Model PROVE OutInv(b, m)'
  BY <1>1, <1>2, <1>3, <1>4 DEF OutInv, SessionInv, locks, NoRows
<1>8. ASSUME NEW m \in Model, Follows(m)'
      PROVE  FollowInv(b, m)' /\ SavedInv(b, m)'
  <2>1. FollowInv(b, m) /\ Follows(m)
    BY <1>1, <1>2, <1>8 DEF SessionInv, Follows
  <2>2. ASSUME NEW k \in Key
        PROVE  (Owed(b, m, k)' = Owed(b, m, k)) /\ (Owed(b, m, k) => OwedThen(b, m, k)')
    <3>1. \A W : Noting(b, W, m, k)' = Noting(b, W, m, k)
      BY <1>2 DEF Noting, Noticed, hooks
    <3>2. Owed(b, m, k)' = Owed(b, m, k)
      BY <1>2 DEF Owed, Noting, Noticed, hooks, commit, ToFire
    <3>3. Owed(b, m, k) => mode[m] = "commit" /\ Noting(b, written[b], m, k)
      <4>1. ~ToFire(todo[b], m, k)
        BY <1>4 DEF ToFire
      <4>2. mode[m] = "trigger" \/ mode[m] = "commit"
        BY <2>1 DEF Follows, Sure
      <4> QED
        BY <1>4, <4>1, <4>2 DEF Owed
    <3>4. Noting(b, written[b], m, k) => Noting(b, written[b] \ inner[b], m, k)'
      BY <1>2, <1>4 DEF Noting, Noticed, hooks
    <3> QED
      BY <1>2, <3>2, <3>3, <3>4 DEF OwedThen
  <2>3. FollowInv(b, m)'
    BY <1>2, <2>1, <2>2 DEF FollowInv, locks
  <2>4. \A k \in Key : Agrees(m, Over(db', saved'[b]), k) \/ OwedThen(b, m, k)'
    BY <1>2, <1>3, <2>1, <2>2 DEF FollowInv
  <2>5. m \notin held'[b] \ sub'[b] =>
          \A t \in Binds[m], k \in Key : saved'[b][t][k] # None => OwedThen(b, m, k)'
    BY <1>2, <1>3, <1>4, <2>1, <2>2 DEF FollowInv, locks
  <2>6. SavedInv(b, m)'
    BY <2>4, <2>5 DEF SavedInv
  <2> QED
    BY <2>3, <2>6
<1>9. \A c \in Backend \ {b} : Apart(c)
  BY <1>2, <1>3 DEF Apart, Same, hooks, locks, commit
<1> QED
  BY <1>2, <1>5, <1>6, <1>7, <1>8, <1>9, StepOf DEF SessionInv

\* What is left of its rows is what was noted before the savepoint.
LEMMA RollbackToFollows ==
  ASSUME IInv, ResultsInv, NEW b \in Backend, RollbackTo(b)
  PROVE  ResultsInv'
<1>1. Types /\ RowsInv /\ Kept(b) /\ SessionInv(b)
  BY Parts DEF ResultsInv
<1>2. /\ pc[b] \in {"open", "fires"} /\ saved[b] # None /\ Goto(b, "open")
      /\ UNCHANGED <<db, mode, capture, snap, captured, capOk, cache, behind, batch, models, pass, switch, bounds>>
  BY DEF RollbackTo
<1>3. /\ own'[b] = saved[b] /\ saved'[b] = None /\ written'[b] = written[b] \ inner[b] /\ inner'[b] = {}
      /\ held'[b] = held[b] \ sub[b] /\ sub'[b] = {} /\ todo'[b] = <<>>
  BY <1>1 DEF RollbackTo, Types, TypeRows, TypeHooks, TypeLocks, TypeTodo
<1>4. \A c \in Backend \ {b} : /\ own'[c] = own[c] /\ saved'[c] = saved[c] /\ written'[c] = written[c]
                               /\ inner'[c] = inner[c] /\ held'[c] = held[c] /\ sub'[c] = sub[c]
                               /\ todo'[c] = todo[c]
  BY <1>1 DEF RollbackTo, Types, TypeRows, TypeHooks, TypeLocks, TypeTodo
<1>5. pc'[b] = "open" /\ \A c \in Backend \ {b} : pc'[c] = pc[c]
  BY <1>1, <1>2, GotoOf DEF Places
<1>6. NoRows' = NoRows
  BY DEF NoRows
<1>7. NoteInv(b)'
  BY <1>1, <1>2, <1>3, <1>6 DEF NoteInv, SessionInv
<1>8. CacheInv(b)'
  <2>1. \A t \in Table : own[b][t] = NoRows[t] => own'[b][t] = NoRows[t]
    BY <1>1, <1>2, <1>3 DEF RowsInv
  <2> QED
    BY <1>1, <1>2, <1>6, <2>1, Bound DEF CacheInv, SessionInv
<1>9. DoneInv(b)' /\ LayerInv(b)'
  BY <1>1, <1>2, <1>3, <1>5 DEF DoneInv, LayerInv, SessionInv
<1>10. ASSUME NEW m \in Model PROVE OutInv(b, m)'
  <2>1. OutInv(b, m)
    BY <1>1 DEF SessionInv
  <2> QED
    BY <1>2, <1>3, <1>6, <2>1 DEF OutInv
<1>11. ASSUME NEW m \in Model, Follows(m)'
       PROVE  FollowInv(b, m)' /\ SavedInv(b, m)'
  <2>1. SavedInv(b, m)
    BY <1>1, <1>2, <1>11 DEF SessionInv, Follows
  <2>2. \A k \in Key : OwedThen(b, m, k) => Owed(b, m, k)'
    <3> TAKE k \in Key
    <3>1. Noting(b, written[b] \ inner[b], m, k) => Noting(b, written[b], m, k)'
      BY <1>2, <1>3 DEF Noting, Noticed
    <3> QED
      BY <1>2, <3>1 DEF OwedThen, Owed
  <2>3. FollowInv(b, m)'
    BY <1>2, <1>3, <2>1, <2>2 DEF FollowInv, SavedInv
  <2> QED
    BY <1>3, <2>3 DEF SavedInv
<1>12. \A c \in Backend \ {b} : Apart(c)
  BY <1>2, <1>4, <1>5 DEF Apart, Same
<1> QED
  BY <1>2, <1>7, <1>8, <1>9, <1>10, <1>11, <1>12, StepOf DEF SessionInv

-----------------------------------------------------------------------------
(* Before COMMIT. *)

\* A table noted that a commit-mode model binds is a hit, and the model one of those to recompute.
LEMMA HitOf ==
  ASSUME NEW set \in SUBSET Table, NEW W, NEW t \in set, t \in W
  PROVE  Hits(set, W) # {} /\ (AnyRel \in Hits(set, W) \/ t \in Hits(set, W))
  BY DEF Hits

LEMMA PreCommitFollows ==
  ASSUME IInv, ResultsInv, NEW b \in Backend, PreCommit(b)
  PROVE  ResultsInv'
<1> DEFINE l == IF written[b] = {} \/ (cache'[b] # None /\ Hits(cache'[b], written[b]) = {})
                THEN "commit" ELSE "pass"
<1>1. Types /\ Kept(b) /\ RoundInv(b) /\ SessionInv(b)
  BY Parts DEF ResultsInv
<1>2. /\ pc[b] = "open" /\ Accept(b) /\ Goto(b, l)
      /\ UNCHANGED <<db, mode, capture, own, snap, written, captured, capOk, held, asked, commit, switch, bounds>>
  BY DEF PreCommit
<1>3. /\ saved'[b] = None /\ inner'[b] = {} /\ sub'[b] = {}
      /\ \A c \in Backend \ {b} : saved'[c] = saved[c] /\ inner'[c] = inner[c] /\ sub'[c] = sub[c]
  BY <1>1 DEF PreCommit, Types, TypeRows, TypeHooks, TypeLocks
<1>4. pc'[b] = l /\ \A c \in Backend \ {b} : pc'[c] = pc[c]
  BY <1>1, <1>2, GotoOf DEF Places
<1>5. todo[b] = <<>> /\ pass[b] = 0
  BY <1>1, <1>2 DEF SessionInv, DoneInv, RoundInv
<1>6. NoRows' = NoRows
  BY DEF NoRows
<1>7. NoteInv(b)'
  BY <1>1, <1>2, <1>3, <1>6 DEF NoteInv, SessionInv, commit
<1>8. CacheInv(b)'
  BY <1>1, <1>2, CacheKept DEF SessionInv
<1>9. LayerInv(b)'
  BY <1>2, <1>5 DEF LayerInv, commit
<1>10. DoneInv(b)'
  <2>1. ASSUME l = "commit", NEW m \in Model, mode[m] = "commit", NEW t \in Binds[m], t \in written[b]
        PROVE  FALSE
    <3>1. cache'[b] # None /\ Hits(cache'[b], written[b]) = {}
      BY <2>1
    <3>2. b \notin behind'
      BY <1>2 DEF Accept
    <3>3. t \in cache'[b]
      BY <1>2, <1>8, <2>1, <3>1, <3>2 DEF CacheInv
    <3>4. cache'[b] \in SUBSET Table
      BY <1>1, <1>2, <3>1, AcceptOf DEF TypeCache
    <3> QED
      BY <2>1, <3>1, <3>3, <3>4, HitOf
  <2>2. snap'[b] = None /\ todo'[b] = <<>>
    BY <1>1, <1>2, <1>5 DEF SessionInv, DoneInv, commit
  <2> QED
    BY <1>2, <1>4, <2>1, <2>2 DEF DoneInv
<1>11. ASSUME NEW m \in Model PROVE OutInv(b, m)'
  BY <1>1, <1>2, <1>3, <1>6 DEF OutInv, SessionInv
<1>12. ASSUME NEW m \in Model, Follows(m)'
       PROVE  FollowInv(b, m)' /\ SavedInv(b, m)'
  <2>1. FollowInv(b, m)
    BY <1>1, <1>2, <1>12 DEF SessionInv, Follows
  <2>2. \A k \in Key : Owed(b, m, k)' = Owed(b, m, k)
    BY <1>2 DEF Owed, Noting, Noticed, commit, ToFire
  <2>3. FollowInv(b, m)'
    BY <1>2, <2>1, <2>2 DEF FollowInv
  <2> QED
    BY <1>3, <2>3 DEF SavedInv
<1>13. \A c \in Backend \ {b} : Apart(c)
  BY <1>1, <1>2, <1>3, <1>4, AcceptApart DEF Apart, Same, commit
<1> QED
  BY <1>2, <1>7, <1>8, <1>9, <1>10, <1>11, <1>12, <1>13, StepOf DEF SessionInv

\* What a round finds: the tables noted that commit-mode models bind are among its hits.
LEMMA RoundHits ==
  ASSUME Types, NEW b \in Backend, SessionInv(b), NEW m \in Model, mode[m] = "commit",
         NEW t \in Binds[m], t \in written[b], NEW set \in SUBSET Table,
         set = IF cache[b] = None THEN LoadBound(b) ELSE cache[b]
  PROVE  /\ Hits(set, written[b]) # {}
         /\ m \in ModelsFor(b, Hits(set, written[b]))
<1>1. snap[b] = None /\ CacheInv(b) /\ NoteInv(b) /\ t \in Table
  BY Bound DEF SessionInv, DoneInv
<1>2. own[b][t] # NoRows[t]
  BY <1>1 DEF NoteInv
<1>3. t \in set
  <2>1. CASE cache[b] = None
    BY <1>1, <2>1 DEF LoadBound, ModeSeen
  <2>2. CASE cache[b] # None
    BY <1>1, <1>2, <2>2 DEF CacheInv
  <2> QED
    BY <2>1, <2>2
<1>4. Hits(set, written[b]) # {} /\ (AnyRel \in Hits(set, written[b]) \/ t \in Hits(set, written[b]))
  BY <1>3, HitOf
<1> QED
  BY <1>1, <1>4 DEF ModelsFor, ModeSeen

\* A round is the last that could be needed when there were as many as models have layers.
LEMMA LastRound ==
  ASSUME Types, NEW b \in Backend, RoundInv(b), SessionInv(b), pc[b] = "pass", pass[b] = MaxPass, Layered,
         NEW m \in Model, NEW t \in Binds[m], t \in written[b]
  PROVE  FALSE
<1>1. Layer[m] \in 0 .. MaxPass - 1 /\ Layer[m] \in Int /\ MaxPass \in Nat
  BY LayerOf, ConstantsAssumption
<1>2. pass[b] # 0
  BY <1>1
<1>3. PICK n \in Model : t = Out[n]
  BY <1>2 DEF RoundInv, Results
<1>4. Layer[n] >= MaxPass - 1
  BY <1>2, <1>3 DEF SessionInv, LayerInv
<1>5. Layer[n] < Layer[m] /\ Layer[n] \in Int
  BY <1>3, LayerOf
<1> QED
  BY <1>1, <1>4, <1>5

LEMMA PassFollows ==
  ASSUME IInv, ResultsInv, NEW b \in Backend, Pass(b)
  PROVE  ResultsInv'
<1> DEFINE set == IF cache[b] = None THEN LoadBound(b) ELSE cache[b]
           hits == Hits(set, written[b])
           ends == pass[b] = MaxPass \/ written[b] = {} \/ hits = {}
           l == IF ends THEN "commit" ELSE "recompute"
<1>1. Types /\ Kept(b) /\ RoundInv(b) /\ SessionInv(b)
  BY Parts DEF ResultsInv
<1>2. /\ pc[b] = "pass" /\ Goto(b, l)
      /\ IF ends THEN UNCHANGED <<batch, models, pass>>
         ELSE /\ batch' = [batch EXCEPT ![b] = written[b]]
              /\ models' = [models EXCEPT ![b] = ModelsFor(b, hits)]
              /\ pass' = [pass EXCEPT ![b] = @ + 1]
      /\ written' = [written EXCEPT ![b] = {}]
      /\ cache' = [cache EXCEPT ![b] = IF snap[b] = None THEN set ELSE @]
      /\ UNCHANGED <<db, mode, capture, own, saved, snap, inner, captured, capOk, behind, locks, todo, switch, bounds>>
  BY DEF Pass
<1>3. /\ todo[b] = <<>> /\ models[b] = {} /\ snap[b] = None /\ saved[b] = None
      /\ NoteInv(b) /\ CacheInv(b)
  BY <1>1, <1>2 DEF SessionInv, DoneInv, Kept, RoundInv
<1>4. set \in SUBSET Table
  BY <1>1, Bound DEF Types, TypeCache, LoadBound
<1>5. written'[b] = {} /\ \A c \in Backend \ {b} : written'[c] = written[c]
  BY <1>1, <1>2 DEF Types, TypeHooks
<1>6. cache'[b] = set /\ \A c \in Backend \ {b} : cache'[c] = cache[c]
  BY <1>1, <1>2, <1>3 DEF Types, TypeCache
<1>7. pc'[b] = l /\ \A c \in Backend \ {b} : pc'[c] = pc[c]
  <2>1. l \in Places
    BY DEF Places
  <2> QED
    BY <1>1, <1>2, <2>1, GotoOf
<1>8. /\ ~ends => batch'[b] = written[b] /\ models'[b] = ModelsFor(b, hits) /\ pass'[b] = pass[b] + 1
      /\ ends => batch'[b] = batch[b] /\ models'[b] = models[b] /\ pass'[b] = pass[b]
      /\ \A c \in Backend \ {b} : batch'[c] = batch[c] /\ models'[c] = models[c] /\ pass'[c] = pass[c]
  BY <1>1, <1>2 DEF Types, TypeRound
<1>9. \A m \in Model : \A t \in Binds[m] :
        mode[m] = "commit" /\ t \in written[b] => hits # {} /\ m \in ModelsFor(b, hits)
  BY <1>1, <1>4, RoundHits
<1>10. ASSUME ends, Layered, NEW m \in Model, mode[m] = "commit", NEW t \in Binds[m], t \in written[b]
       PROVE  FALSE
  BY <1>1, <1>2, <1>9, <1>10, LastRound
<1> HIDE DEF hits
<1>11. NoteInv(b)'
  BY <1>2, <1>3, <1>5, <1>8 DEF NoteInv, NoRows
<1>12. CacheInv(b)'
  <2>1. CASE cache[b] = None
    <3>1. \A m \in Model : mode[m] = "commit" => Binds[m] \subseteq set
      BY <1>3, <2>1 DEF LoadBound, ModeSeen
    <3> QED
      BY <1>2, <1>6, <3>1 DEF CacheInv
  <2>2. CASE cache[b] # None
    BY <1>2, <1>3, <1>6, <2>2 DEF CacheInv, NoRows
  <2> QED
    BY <2>1, <2>2
<1>13. DoneInv(b)'
  BY <1>2, <1>3, <1>5 DEF DoneInv
<1>14. LayerInv(b)'
  <2> SUFFICES ASSUME Layered, ~ends
               PROVE  /\ \A m \in Model : Out[m] \in written'[b] => Layer[m] >= pass'[b] - 1
                      /\ \A m \in models'[b] : Layer[m] >= pass'[b] - 1
                      /\ \A i \in DOMAIN todo'[b] : \A m \in todo'[b][i].models : Layer[m] >= pass'[b] - 1
    BY <1>7 DEF LayerInv
  <2>1. pass[b] \in Nat /\ pass'[b] - 1 = pass[b] /\ written[b] \in Noted
    <3>1. pass[b] \in Nat /\ written[b] \in Noted
      BY <1>1, ConstantsAssumption DEF Types, TypeRound, TypeHooks
    <3>2. pass'[b] = pass[b] + 1
      BY <1>8
    <3> QED
      BY <3>1, <3>2
  <2>2. ASSUME NEW m \in models'[b] PROVE Layer[m] >= pass[b]
    <3>1. m \in Model /\ (AnyRel \in hits \/ Binds[m] \cap hits # {})
      BY <1>8, <2>2 DEF ModelsFor
    <3>2. CASE pass[b] = 0
      BY <3>1, <3>2, LayerOf
    <3>3. CASE pass[b] # 0
      <4>1. written[b] \subseteq Results /\ AnyRel \notin Results
        BY <1>1, <3>3, Bound, ConstantsAssumption DEF RoundInv, Results
      <4>2. hits \subseteq written[b]
        BY <4>1 DEF hits, Hits
      <4>3. PICK n \in Model : Out[n] \in Binds[m] /\ Out[n] \in written[b]
        BY <3>1, <4>1, <4>2 DEF Results
      <4>4. Layer[n] >= pass[b] - 1
        BY <1>1, <1>2, <3>3, <4>3 DEF SessionInv, LayerInv
      <4>5. Layer[n] < Layer[m] /\ Layer[n] \in Int /\ Layer[m] \in Int
        BY <3>1, <4>3, LayerOf
      <4> QED
        BY <2>1, <4>4, <4>5
    <3> QED
      BY <3>2, <3>3
  <2> QED
    BY <1>2, <1>3, <1>5, <2>1, <2>2
<1>15. ASSUME NEW m \in Model PROVE OutInv(b, m)'
  BY <1>1, <1>2, <1>3 DEF OutInv, SessionInv, NoRows, locks
<1>16. ASSUME NEW m \in Model, Follows(m)'
       PROVE  FollowInv(b, m)' /\ SavedInv(b, m)'
  <2>1. FollowInv(b, m) /\ Follows(m)
    BY <1>1, <1>2, <1>16 DEF SessionInv, Follows
  <2>2. ASSUME NEW k \in Key, Owed(b, m, k) PROVE Owed(b, m, k)'
    <3>1. mode[m] # "trigger" /\ Noting(b, written[b], m, k)
      BY <1>3, <2>2 DEF Owed, ToFire
    <3>2. mode[m] = "commit" /\ Layered
      BY <2>1, <3>1 DEF Follows, Sure
    <3>3. ~ends /\ m \in ModelsFor(b, hits)
      <4>1. PICK t \in Binds[m] : t \in written[b]
        BY <3>1 DEF Noting
      <4> QED
        BY <1>9, <1>10, <3>2, <4>1
    <3>4. Noting(b, batch[b], m, k)'
      BY <1>2, <1>8, <3>1, <3>3 DEF Noting, Noticed
    <3> QED
      BY <1>2, <1>8, <3>1, <3>3, <3>4 DEF Owed
  <2>3. FollowInv(b, m)'
    BY <1>2, <2>1, <2>2 DEF FollowInv, locks
  <2> QED
    BY <1>2, <1>3, <2>3 DEF SavedInv
<1>17. \A c \in Backend \ {b} : Apart(c)
  BY <1>2, <1>5, <1>6, <1>7, <1>8 DEF Apart, Same, locks
<1> QED
  BY <1>2, <1>11, <1>12, <1>13, <1>14, <1>15, <1>16, <1>17, StepOf DEF SessionInv

\* The keys a model of the round is owed for are those it is recomputed at.
LEMMA ScopeOf ==
  ASSUME Types, NEW b \in Backend, NEW m \in Model, m \in Elementwise, NEW k \in Key, Noting(b, batch[b], m, k)
  PROVE  k \in Scope(b, m)
<1>1. PICK t \in Binds[m] \cap batch[b] : Noticed(b, m, t, k)
  BY DEF Noting
<1> QED
  BY <1>1 DEF Scope, Noticed

LEMMA ScopeType ==
  ASSUME Types, NEW b \in Backend, NEW m \in Model
  PROVE  Scope(b, m) \in SUBSET Key
<1>1. \A t \in Binds[m] : captured[b][<<m, t>>] \in SUBSET Key
  BY Bound DEF Types, TypeHooks
<1> QED
  BY <1>1 DEF Scope

LEMMA RecomputeFollows ==
  ASSUME IInv, ResultsInv, NEW b \in Backend, Recompute(b)
  PROVE  ResultsInv'
<1> DEFINE n == NextModel(models[b])
<1>1. Types /\ Kept(b) /\ SessionInv(b) /\ <<>> \in Seq(Firings) /\ models[b] \in SUBSET Model
  BY Parts, DueNothing DEF ResultsInv, Types, TypeRound
<1>2. /\ pc[b] = "recompute" /\ todo[b] = <<>> /\ models[b] # {} /\ Lockable(b, n) /\ Lock(b, n)
      /\ UNCHANGED <<db, mode, capture, pc, saved, snap, asked, batch, pass, switch, bounds>>
  BY DEF Recompute
<1>3. \/ mode[n] = "commit" /\ Recomputed(b, n, Scope(b, n), <<>>)
      \/ mode[n] # "commit" /\ UNCHANGED <<own, hooks, todo, cache, behind>>
  BY DEF Recompute
<1>4. n \in models[b] /\ n \in Model
  BY <1>1, <1>2, NextModelOf
<1>5. models'[b] = models[b] \ {n} /\ \A c \in Backend \ {b} : models'[c] = models[c]
  BY <1>1 DEF Recompute, Types, TypeRound
<1>6. \A m \in Model \ {n}, k \in Key : Keeps(b, <<>>, m, k)
  BY <1>2, <1>5 DEF Keeps, ToFire
<1> HIDE DEF n
<1>7. Turn(b, n, <<>>)
  <2>1. CASE mode[n] = "commit" /\ Recomputed(b, n, Scope(b, n), <<>>)
    <3>1. Scope(b, n) \in SUBSET Key
      BY <1>1, <1>4, ScopeType
    <3>2. ASSUME NEW k \in Key, n \in Elementwise, k \notin Scope(b, n) PROVE Keeps(b, <<>>, n, k)
      <4>1. ~Noting(b, batch[b], n, k)
        BY <1>1, <1>4, <3>2, ScopeOf
      <4> QED
        BY <1>2, <4>1 DEF Keeps, ToFire
    <3>3. \A m \in Model, k \in Key : m # n \/ (n \in Elementwise /\ k \notin Scope(b, n)) => Keeps(b, <<>>, m, k)
      BY <1>6, <3>2
    <3> QED
      BY <2>1, <3>1, <3>3 DEF Turn
  <2>2. CASE mode[n] # "commit" /\ UNCHANGED <<own, hooks, todo, cache, behind>>
    <3>1. Left(b, <<>>)
      BY <1>1, <1>2, <2>2 DEF Left, Types, TypeTodo
    <3>2. ASSUME Follows(n), NEW k \in Key PROVE Keeps(b, <<>>, n, k)
      <4>1. mode[n] = "trigger"
        BY <2>2, <3>2 DEF Follows, Sure
      <4> QED
        BY <1>2, <4>1 DEF Keeps, ToFire
    <3>3. \A m \in Model, k \in Key : Follows(m) => Keeps(b, <<>>, m, k)
      BY <1>6, <3>2
    <3> QED
      BY <2>2, <3>1, <3>3 DEF Turn
  <2> QED
    BY <1>3, <2>1, <2>2
<1>8. Turned(b, n, <<>>)
  BY <1>1, <1>2, <1>4, <1>7, TurnFollows
<1>9. DoneInv(b)'
  BY <1>1, <1>2 DEF DoneInv, SessionInv
<1>10. LayerInv(b)'
  <2> SUFFICES ASSUME Layered, pass'[b] # 0
               PROVE  /\ \A m \in Model : Out[m] \in written'[b] => Layer[m] >= pass'[b] - 1
                      /\ \A m \in models'[b] : Layer[m] >= pass'[b] - 1
                      /\ Deep(todo'[b], pass'[b] - 1)
    BY DEF LayerInv, Deep
  <2> DEFINE p == pass[b] - 1
  <2>1. pass'[b] = pass[b] /\ p \in Int
    BY <1>1, <1>2, ConstantsAssumption DEF Types, TypeRound
  <2>2. (\A m \in Model : Out[m] \in written[b] => Layer[m] >= p) /\ \A m \in models[b] : Layer[m] >= p
    BY <1>1, <1>2, <2>1 DEF SessionInv, LayerInv
  <2> HIDE DEF p
  <2>3. PICK s \in SUBSET Model, ks \in SUBSET Key :
          todo'[b] = Firing(s, ks, <<>>) /\ \A m \in s : Out[n] \in Binds[m]
    BY <1>8 DEF Turned
  <2>4. \A m \in s : Layer[m] >= p
    BY <1>4, <2>1, <2>2, <2>3, LayerOf
  <2>5. Deep(<<>>, p)
    BY DEF Deep
  <2>6. Deep(todo'[b], p)
    BY <1>1, <2>3, <2>4, <2>5, DeepFiring
  <2>7. \A m \in Model : Out[m] \in written'[b] => Layer[m] >= p
    BY <1>4, <1>8, <2>2 DEF Turned
  <2> QED
    BY <1>5, <2>1, <2>2, <2>6, <2>7 DEF p
<1>11. \A c \in Backend \ {b} : Apart(c)
  BY <1>2, <1>5, <1>8 DEF Apart, Same, Turned
<1> QED
  BY <1>2, <1>8, <1>9, <1>10, <1>11, StepOf DEF SessionInv, Turned

LEMMA PassEndsFollows ==
  ASSUME IInv, ResultsInv, NEW b \in Backend, PassEnds(b)
  PROVE  ResultsInv'
<1>1. Types /\ Kept(b) /\ RoundInv(b) /\ SessionInv(b)
  BY Parts DEF ResultsInv
<1>2. /\ pc[b] = "recompute" /\ todo[b] = <<>> /\ models[b] = {} /\ Goto(b, "pass")
      /\ UNCHANGED <<db, mode, capture, own, saved, snap, hooks, cache, behind, locks, todo, models, pass, switch, bounds>>
  BY DEF PassEnds
<1>3. batch'[b] = {} /\ \A c \in Backend \ {b} : batch'[c] = batch[c]
  BY <1>1 DEF PassEnds, Types, TypeRound
<1>4. pc'[b] = "pass" /\ \A c \in Backend \ {b} : pc'[c] = pc[c]
  BY <1>1, <1>2, GotoOf DEF Places
<1>5. NoteInv(b)'
  BY <1>1, <1>2, <1>3 DEF NoteInv, SessionInv, hooks, NoRows
<1>6. CacheInv(b)'
  BY <1>1, <1>2, SameCache DEF SessionInv
<1>7. DoneInv(b)'
  BY <1>1, <1>2, <1>4 DEF DoneInv, SessionInv
<1>8. LayerInv(b)'
  BY <1>1, <1>2 DEF LayerInv, SessionInv, hooks
<1>9. ASSUME NEW m \in Model PROVE OutInv(b, m)'
  BY <1>1, <1>2 DEF OutInv, SessionInv, NoRows, locks
<1>10. ASSUME NEW m \in Model, Follows(m)'
       PROVE  FollowInv(b, m)' /\ SavedInv(b, m)'
  <2>1. FollowInv(b, m)
    BY <1>1, <1>2, <1>10 DEF SessionInv, Follows
  <2>2. \A k \in Key : Owed(b, m, k) => Owed(b, m, k)'
    BY <1>2 DEF Owed, Noting, Noticed, hooks, ToFire
  <2>3. FollowInv(b, m)'
    BY <1>2, <2>1, <2>2 DEF FollowInv, locks
  <2>4. saved[b] = None
    BY <1>1, <1>2 DEF RoundInv
  <2> QED
    BY <1>2, <2>3, <2>4 DEF SavedInv
<1>11. \A c \in Backend \ {b} : Apart(c)
  BY <1>2, <1>3, <1>4 DEF Apart, Same, hooks, locks
<1> QED
  BY <1>2, <1>5, <1>6, <1>7, <1>8, <1>9, <1>10, <1>11, StepOf DEF SessionInv

-----------------------------------------------------------------------------
(* The end of a transaction, and switches: the committed tables change under the others. *)

\* A session that has not locked m is owed the results of all it wrote; whatever the tables
\* become, they are current elsewhere if those committed are.
LEMMA FreeAgrees ==
  ASSUME NEW m \in Model, NEW base, NEW rows, NEW O \in SUBSET Key,
         m \notin Elementwise => \A j, k \in Key : j \in O => k \in O,
         \A t \in Binds[m], k \in Key : rows[t][k] # None => k \in O,
         \A k \in Key : rows[Out[m]][k] = None,
         \A k \in Key : Agrees(m, base, k)
  PROVE  \A k \in Key : Agrees(m, Over(base, rows), k) \/ k \in O
<1> SUFFICES ASSUME NEW k \in Key, k \notin O PROVE Agrees(m, Over(base, rows), k)
  OBVIOUS
<1>1. m \in Elementwise => \A t \in Binds[m] : rows[t][k] = None
  OBVIOUS
<1>2. m \notin Elementwise => \A t \in Binds[m], j \in Key : rows[t][j] = None
  OBVIOUS
<1>3. Near(m, base, Over(base, rows), k)
  BY <1>1, <1>2, NoneOwn
<1> QED
  BY <1>3, NearAgrees

\* What a session sees of m does not change with tables that m neither reads nor fills.
LEMMA StillAgrees ==
  ASSUME NEW m \in Model, NEW base, NEW base2, NEW rows, NEW k \in Key, Agrees(m, Over(base, rows), k),
         \A t \in Binds[m], j \in Key : base2[t][j] = base[t][j], base2[Out[m]][k] = base[Out[m]][k]
  PROVE  Agrees(m, Over(base2, rows), k)
<1>1. Near(m, Over(base, rows), Over(base2, rows), k)
  BY Bound, OverOf DEF Near, SameRead
<1> QED
  BY <1>1, NearAgrees

\* Of an aggregating model all keys are owed, or none.
LEMMA OwedAll ==
  ASSUME NEW b, NEW m \in Model, m \notin Elementwise, NEW j, NEW k
  PROVE  (Owed(b, m, j) => Owed(b, m, k)) /\ (OwedThen(b, m, j) => OwedThen(b, m, k))
  BY DEF Owed, OwedThen, Noting, ToFire

\* Another session's claims, when the committed tables change: those a session without the
\* lock of m reads, for models whose lock nobody else could have had.
LEMMA FreeFollows ==
  ASSUME NEW c \in Backend, Same(c), NEW m \in Model, mode'[m] = mode[m], m \notin held[c], OutInv(c, m),
         FollowInv(c, m), SavedInv(c, m), \A k \in Key : Agrees(m, db', k)
  PROVE  FollowInv(c, m)' /\ SavedInv(c, m)'
<1>1. \A k \in Key : Owed(c, m, k)' = Owed(c, m, k) /\ OwedThen(c, m, k)' = OwedThen(c, m, k)
  BY SameOwed
<1>2. Out[m] \in Table
  BY Bound
<1>3. FollowInv(c, m)'
  <2> DEFINE O == {k \in Key : Owed(c, m, k)}
  <2>1. O \in SUBSET Key /\ (m \notin Elementwise => \A j, k \in Key : j \in O => k \in O)
    BY OwedAll
  <2>2. \A t \in Binds[m], k \in Key : own[c][t][k] # None => k \in O
    BY DEF FollowInv
  <2>3. \A k \in Key : own[c][Out[m]][k] = None
    BY <1>2 DEF OutInv, NoRows
  <2>4. \A k \in Key : k \in O <=> Owed(c, m, k)
    OBVIOUS
  <2> HIDE DEF O
  <2>5. \A k \in Key : Agrees(m, Over(db', own[c]), k) \/ k \in O
    BY <2>1, <2>2, <2>3, FreeAgrees
  <2> QED
    BY <1>1, <2>2, <2>4, <2>5 DEF FollowInv, Same
<1>4. SavedInv(c, m)'
  <2> SUFFICES ASSUME saved[c] # None
               PROVE  /\ \A k \in Key : Agrees(m, Over(db', saved[c]), k) \/ OwedThen(c, m, k)
                      /\ \A t \in Binds[m], k \in Key : saved[c][t][k] # None => OwedThen(c, m, k)
    BY <1>1 DEF SavedInv, Same
  <2> DEFINE O == {k \in Key : OwedThen(c, m, k)}
  <2>1. O \in SUBSET Key /\ (m \notin Elementwise => \A j, k \in Key : j \in O => k \in O)
    BY OwedAll
  <2>2. \A t \in Binds[m], k \in Key : saved[c][t][k] # None => k \in O
    BY DEF SavedInv
  <2>3. \A k \in Key : saved[c][Out[m]][k] = None
    BY <1>2 DEF OutInv, NoRows
  <2>4. \A k \in Key : k \in O <=> OwedThen(c, m, k)
    OBVIOUS
  <2> HIDE DEF O
  <2>5. \A k \in Key : Agrees(m, Over(db', saved[c]), k) \/ k \in O
    BY <2>1, <2>2, <2>3, FreeAgrees
  <2> QED
    BY <2>2, <2>4, <2>5
<1> QED
  BY <1>3, <1>4

\* The same of models whose tables and results do not change.
LEMMA StillFollows ==
  ASSUME NEW c \in Backend, Same(c), NEW m \in Model, mode'[m] = mode[m], FollowInv(c, m), SavedInv(c, m),
         \A t \in Binds[m], k \in Key : db'[t][k] = db[t][k], \A k \in Key : db'[Out[m]][k] = db[Out[m]][k]
  PROVE  FollowInv(c, m)' /\ SavedInv(c, m)'
<1>1. \A k \in Key : Owed(c, m, k)' = Owed(c, m, k) /\ OwedThen(c, m, k)' = OwedThen(c, m, k)
  BY SameOwed
<1>2. \A rows, k : k \in Key /\ Agrees(m, Over(db, rows), k) => Agrees(m, Over(db', rows), k)
  BY StillAgrees
<1>3. FollowInv(c, m)'
  BY <1>1, <1>2 DEF FollowInv, Same
<1>4. SavedInv(c, m)'
  BY <1>1, <1>2 DEF SavedInv, Same
<1> QED
  BY <1>3, <1>4

\* With nothing left to do, nothing is owed.
LEMMA OwedNothing ==
  ASSUME NEW b \in Backend, todo[b] = <<>>, models[b] = {}, NEW m \in Model, Follows(m),
         mode[m] = "commit" => Binds[m] \cap written[b] = {}, NEW k
  PROVE  ~Owed(b, m, k)
<1>1. mode[m] = "trigger" \/ mode[m] = "commit"
  BY DEF Follows, Sure
<1> QED
  BY <1>1 DEF Owed, Noting, ToFire

LEMMA EndsFollows ==
  ASSUME IInv, NEW b \in Backend, SessionInv(b), Ends(b), DbInv'
  PROVE  SessionInv(b)' /\ \A c \in Backend \ {b} : Apart(c)
<1>1. Types
  BY Parts
<1>2. UNCHANGED <<mode, capture, cache, behind, switch, bounds>> /\ Goto(b, "idle")
  BY DEF Ends
<1>3. /\ own'[b] = NoRows /\ saved'[b] = None /\ snap'[b] = None /\ written'[b] = {} /\ todo'[b] = <<>>
      /\ batch'[b] = {} /\ models'[b] = {} /\ pass'[b] = 0
      /\ \A c \in Backend \ {b} :
           /\ own'[c] = own[c] /\ saved'[c] = saved[c] /\ snap'[c] = snap[c] /\ written'[c] = written[c]
           /\ todo'[c] = todo[c] /\ batch'[c] = batch[c] /\ models'[c] = models[c] /\ pass'[c] = pass[c]
  BY <1>1 DEF Ends, Types, TypeRows, TypeHooks, TypeTodo, TypeRound
<1>4. \A c \in Backend \ {b} : /\ held'[c] = held[c] /\ sub'[c] = sub[c] /\ inner'[c] = inner[c]
                               /\ captured'[c] = captured[c] /\ capOk'[c] = capOk[c]
  BY <1>1 DEF Ends, Types, TypeHooks, TypeLocks
<1>5. pc'[b] = "idle" /\ \A c \in Backend \ {b} : pc'[c] = pc[c]
  BY <1>1, <1>2, GotoOf DEF Places
<1>6. \A c \in Backend \ {b} : Apart(c)
  BY <1>2, <1>3, <1>4, <1>5 DEF Apart, Same
<1>7. NoRows' = NoRows
  BY DEF NoRows
<1>8. NoteInv(b)' /\ DoneInv(b)' /\ LayerInv(b)'
  BY <1>3, <1>5 DEF NoteInv, DoneInv, LayerInv
<1>9. CacheInv(b)'
  BY <1>2, <1>3, <1>7 DEF CacheInv, SessionInv
<1>10. ASSUME NEW m \in Model
       PROVE  OutInv(b, m)' /\ (Follows(m)' => FollowInv(b, m)' /\ SavedInv(b, m)')
  <2>1. Binds[m] \subseteq Table /\ Out[m] \in Table
    BY Bound
  <2>2. OutInv(b, m)' /\ SavedInv(b, m)'
    BY <1>3, <1>7 DEF OutInv, SavedInv
  <2>3. ASSUME Follows(m)' PROVE FollowInv(b, m)'
    <3>1. \A k \in Key : Agrees(m, db', k)
      BY <2>3 DEF DbInv
    <3>2. \A k \in Key : Near(m, db', Over(db', own'[b]), k)
      BY <1>3, <2>1, NoneOwn DEF NoRows
    <3>3. \A k \in Key : Agrees(m, Over(db', own'[b]), k)
      BY <3>1, <3>2, NearAgrees
    <3>4. \A t \in Binds[m], k \in Key : own'[b][t][k] = None
      BY <1>3, <2>1 DEF NoRows
    <3> QED
      BY <3>3, <3>4 DEF FollowInv
  <2> QED
    BY <2>2, <2>3
<1> QED
  BY <1>6, <1>8, <1>9, <1>10 DEF SessionInv

LEMMA AbortFollows ==
  ASSUME IInv, ResultsInv, NEW b \in Backend, Abort(b)
  PROVE  ResultsInv'
<1>1. UNCHANGED <<db, mode>> /\ Ends(b) /\ SessionInv(b) /\ DbInv
  BY DEF Abort, Ends, ResultsInv
<1>2. DbInv'
  BY <1>1 DEF DbInv, Follows
<1> QED
  BY <1>1, <1>2, EndsFollows, StepOf

\* Who commits is owed nothing; what others hold is theirs alone.
LEMMA CommitFollows ==
  ASSUME IInv, ResultsInv, NEW b \in Backend, Commit(b)
  PROVE  ResultsInv'
<1>1. Types /\ LockInv /\ Kept(b) /\ SessionInv(b)
  BY Parts DEF ResultsInv
<1>2. pc[b] = "commit" /\ db' = Over(db, own[b]) /\ Ends(b) /\ UNCHANGED mode
  BY DEF Commit, Ends
<1>3. /\ todo[b] = <<>> /\ models[b] = {}
      /\ \A m \in Model : mode[m] = "commit" => Binds[m] \cap written[b] = {}
  BY <1>1, <1>2 DEF SessionInv, DoneInv, Kept
<1>4. ASSUME NEW m \in Model, Follows(m)
      PROVE  /\ \A k \in Key : Agrees(m, db', k)
             /\ m \notin held[b] => \A t \in Binds[m], k \in Key : own[b][t][k] = None
  <2>1. \A k \in Key : ~Owed(b, m, k)
    BY <1>3, <1>4, OwedNothing
  <2>2. FollowInv(b, m)
    BY <1>1, <1>4 DEF SessionInv
  <2> QED
    BY <1>2, <2>1, <2>2 DEF FollowInv
<1>5. DbInv'
  BY <1>2, <1>4 DEF DbInv, Follows
<1>6. SessionInv(b)' /\ \A c \in Backend \ {b} : Apart(c)
  BY <1>1, <1>2, <1>5, EndsFollows
<1>7. ASSUME NEW c \in Backend \ {b} PROVE SessionInv(c)'
  <2>1. SessionInv(c) /\ Apart(c) /\ Same(c)
    BY <1>6 DEF ResultsInv, Apart
  <2>2. NoteInv(c)' /\ CacheInv(c)' /\ DoneInv(c)' /\ LayerInv(c)'
    BY <1>2, <2>1, SameNotes, SameCache, SameDone, SameLayer DEF Apart, Same, SessionInv
  <2>3. \A m \in Model : OutInv(c, m)'
    BY <2>1, SameOut DEF SessionInv
  <2>4. ASSUME NEW m \in Model, Follows(m)'
        PROVE  FollowInv(c, m)' /\ SavedInv(c, m)'
    <3>1. Follows(m) /\ FollowInv(c, m) /\ SavedInv(c, m) /\ OutInv(c, m) /\ mode'[m] = mode[m]
      BY <1>2, <2>1, <2>4 DEF SessionInv, Follows
    <3>2. CASE m \in held[b]
      <4>1. m \notin held[c]
        BY <1>1, <3>2 DEF LockInv
      <4> QED
        BY <1>4, <2>1, <3>1, <4>1, FreeFollows
    <3>3. CASE m \notin held[b]
      <4>1. Binds[m] \subseteq Table /\ Out[m] \in Table
        BY Bound
      <4>2. own[b][Out[m]] = NoRows[Out[m]]
        BY <1>1, <3>3 DEF SessionInv, OutInv
      <4>3. \A k \in Key : own[b][Out[m]][k] = None
        BY <4>1, <4>2 DEF NoRows
      <4>4. \A t \in Binds[m], k \in Key : own[b][t][k] = None
        BY <1>4, <3>1, <3>3
      <4>5. \A t \in Binds[m], k \in Key : db'[t][k] = db[t][k]
        BY <1>2, <4>1, <4>4, OverOf
      <4>6. \A k \in Key : db'[Out[m]][k] = db[Out[m]][k]
        BY <1>2, <4>1, <4>3, OverOf
      <4> QED
        BY <2>1, <3>1, <4>5, <4>6, StillFollows
    <3> QED
      BY <3>2, <3>3
  <2> QED
    BY <2>2, <2>3, <2>4 DEF SessionInv
<1> QED
  BY <1>5, <1>6, <1>7 DEF ResultsInv

LEMMA NoSwitchApart ==
  ASSUME NoSwitch, behind \subseteq behind'
  PROVE  \A c \in Backend : Apart(c)
  BY DEF NoSwitch, Apart, Same, hooks, locks, commit

LEMMA OtherSwitchFollows ==
  ASSUME ResultsInv, NoSwitch, UNCHANGED <<db, mode, behind>>
  PROVE  ResultsInv'
<1>1. \A c \in Backend : SessionInv(c)'
  BY NoSwitchApart, ApartFollows DEF ResultsInv
<1>2. DbInv'
  BY DEF ResultsInv, DbInv, Follows
<1> QED
  BY <1>1, <1>2 DEF ResultsInv

\* Nobody has rows of the tables the switched model binds, nor of its results; the models
\* that follow are locked by nobody, and those that need not have nothing new to read.
LEMMA SwitchFollows ==
  ASSUME IInv, ResultsInv, Switch
  PROVE  ResultsInv'
<1> DEFINE n == switch.model
           live == {m \in Model : mode'[m] # "manual"}
           fed == {m \in live : \E t \in Binds[m] : db'[t] # db[t]}
<1>1. Types /\ LockInv /\ RowsInv /\ NoRows' = NoRows
  BY Parts DEF NoRows
<1>2. /\ switch # None /\ mode' = [mode EXCEPT ![n] = switch.to] /\ behind' = Backend /\ NoSwitch
  BY DEF Switch
<1>3. n \in Model /\ switch.to \in Modes
  BY <1>1, <1>2 DEF Types, TypeSwitch, Switches
<1>4. switch.to = "manual" => UNCHANGED db
  BY DEF Switch
<1>5. switch.to # "manual" =>
        /\ switch.locked = Binds[n] /\ Guarded(Out[n])
        /\ \A m \in live : db'[Out[m]] = Result(m, db')
        /\ \A m \in fed, b \in Backend : m \notin held[b]
  BY DEF Switch
<1>6. mode'[n] = switch.to /\ \A m \in Model \ {n} : mode'[m] = mode[m]
  BY <1>1, <1>2, <1>3 DEF Types, TypeShared
<1>7. \A c \in Backend : Apart(c) /\ Same(c) /\ UNCHANGED <<own, saved, held, sub, written, pc, todo, snap, cache>>
  BY <1>1, <1>2, NoSwitchApart DEF Types, TypeCache, Apart, NoSwitch, locks, hooks, commit
<1>8. \A m \in Model : Follows(m)' => m \in live
  BY DEF Follows, Sure
<1>9. \A c \in Backend : n \notin held[c]
  BY <1>1, <1>2 DEF LockInv
<1> HIDE DEF n
<1>10. ASSUME switch.to # "manual", NEW c \in Backend
       PROVE  /\ \A t \in Binds[n] : own[c][t] = NoRows[t]
              /\ own[c][Out[n]] = NoRows[Out[n]]
              /\ saved[c] # None => \A t \in Binds[n] : saved[c][t] = NoRows[t]
              /\ saved[c] # None => saved[c][Out[n]] = NoRows[Out[n]]
  <2>1. Binds[n] \subseteq Table /\ Out[n] \in Table
    BY <1>3, Bound
  <2> QED
    BY <1>1, <1>2, <1>5, <1>10, <2>1 DEF RowsInv, Guarded
<1>11. DbInv'
  <2>1. CASE switch.to = "manual"
    <3>1. \A m \in Model : Follows(m)' => Follows(m)
      BY <1>3, <1>6, <2>1 DEF Follows, Sure
    <3> QED
      BY <1>4, <2>1, <3>1 DEF DbInv, ResultsInv
  <2>2. CASE switch.to # "manual"
    BY <1>5, <1>8, <2>2 DEF DbInv, Agrees
  <2> QED
    BY <2>1, <2>2
<1>12. ASSUME NEW c \in Backend PROVE SessionInv(c)'
  <2>1. SessionInv(c) /\ Apart(c) /\ Same(c)
    BY <1>7 DEF ResultsInv
  <2>2. NoteInv(c)' /\ LayerInv(c)'
    BY <2>1, SameNotes, SameLayer DEF Apart, Same, SessionInv
  <2>3. \A m \in Model : OutInv(c, m)'
    BY <2>1, SameOut DEF SessionInv
  <2>4. CacheInv(c)'
    <3> SUFFICES ASSUME cache[c] # None, NEW m \in Model, mode'[m] = "commit", NEW t \in Binds[m]
                 PROVE  t \in cache[c] \/ own[c][t] = NoRows[t]
      BY <1>1, <1>2, <1>7 DEF CacheInv
    <3>1. CASE m = n
      BY <1>6, <1>10, <3>1
    <3>2. CASE m # n
      BY <1>6, <2>1, <3>2 DEF SessionInv, CacheInv
    <3> QED
      BY <3>1, <3>2
  <2>5. DoneInv(c)'
    <3>1. snap'[c] = None /\ (todo'[c] # <<>> => pc'[c] \in {"fires", "recompute"})
      BY <1>7, <2>1 DEF SessionInv, DoneInv
    <3>2. ASSUME pc'[c] = "commit", NEW m \in Model, mode'[m] = "commit", NEW t \in Binds[m], t \in written'[c]
          PROVE  FALSE
      <4>1. CASE m = n
        <5>1. own[c][t] = NoRows[t] /\ t \in Table
          BY <1>6, <1>10, <3>2, <4>1, Bound
        <5> QED
          BY <1>7, <2>1, <3>2, <5>1 DEF SessionInv, NoteInv
      <4>2. CASE m # n
        BY <1>6, <1>7, <2>1, <3>2, <4>2 DEF SessionInv, DoneInv
      <4> QED
        BY <4>1, <4>2
    <3> QED
      BY <3>1, <3>2 DEF DoneInv
  <2>6. ASSUME NEW m \in Model, Follows(m)'
        PROVE  FollowInv(c, m)' /\ SavedInv(c, m)'
    <3>1. Binds[m] \subseteq Table /\ Out[m] \in Table /\ m \in live
      BY <1>8, <2>6, Bound
    <3>2. \A k \in Key : Agrees(m, db', k)
      BY <1>11, <2>6 DEF DbInv
    <3>3. CASE m = n
      <4>1. switch.to # "manual"
        BY <1>6, <2>6, <3>3 DEF Follows, Sure
      <4>2. ASSUME NEW rows, \A t \in Binds[m] : rows[t] = NoRows[t], rows[Out[m]] = NoRows[Out[m]]
            PROVE  /\ \A k \in Key : Agrees(m, Over(db', rows), k)
                   /\ \A t \in Binds[m], k \in Key : rows[t][k] = None
        <5>1. \A t \in Binds[m], k \in Key : rows[t][k] = None
          BY <3>1, <4>2 DEF NoRows
        <5>2. \A k \in Key : rows[Out[m]][k] = None
          BY <3>1, <4>2 DEF NoRows
        <5>3. \A k \in Key : Near(m, db', Over(db', rows), k)
          BY <5>1, <5>2, NoneOwn
        <5> QED
          BY <3>2, <5>1, <5>3, NearAgrees
      <4>3. /\ \A k \in Key : Agrees(m, Over(db', own[c]), k)
            /\ \A t \in Binds[m], k \in Key : own[c][t][k] = None
        BY <1>10, <3>3, <4>1, <4>2
      <4>4. saved[c] # None =>
              /\ \A k \in Key : Agrees(m, Over(db', saved[c]), k)
              /\ \A t \in Binds[m], k \in Key : saved[c][t][k] = None
        BY <1>10, <3>3, <4>1, <4>2
      <4>5. FollowInv(c, m)'
        BY <1>7, <4>3 DEF FollowInv
      <4>6. SavedInv(c, m)'
        BY <1>7, <4>4 DEF SavedInv
      <4> QED
        BY <4>5, <4>6
    <3>4. CASE m # n
      <4>1. mode'[m] = mode[m] /\ Follows(m)
        BY <1>6, <2>6, <3>4 DEF Follows
      <4>2. FollowInv(c, m) /\ SavedInv(c, m) /\ OutInv(c, m)
        BY <2>1, <4>1 DEF SessionInv
      <4>3. CASE switch.to = "manual"
        BY <1>4, <2>1, <4>1, <4>2, <4>3, StillFollows
      <4>4. CASE switch.to # "manual" /\ m \in fed
        BY <1>5, <2>1, <3>2, <4>1, <4>2, <4>4, FreeFollows
      <4>5. CASE switch.to # "manual" /\ m \notin fed
        <5>1. \A t \in Binds[m] : db'[t] = db[t]
          BY <3>1, <4>5
        <5>2. \A k \in Key : Agrees(m, db, k)
          BY <4>1 DEF ResultsInv, DbInv
        <5>3. ASSUME NEW k \in Key PROVE db'[Out[m]][k] = db[Out[m]][k]
          <6>1. SameRead(m, db, db', k)
            BY <5>1 DEF SameRead
          <6> QED
            BY <3>2, <5>2, <6>1, ResultLocal DEF Agrees
        <5> QED
          BY <2>1, <4>1, <4>2, <5>1, <5>3, StillFollows
      <4> QED
        BY <4>3, <4>4, <4>5
    <3> QED
      BY <3>3, <3>4
  <2> QED
    BY <2>2, <2>3, <2>4, <2>5, <2>6 DEF SessionInv
<1> QED
  BY <1>11, <1>12 DEF ResultsInv

LEMMA SameStepFollows ==
  ASSUME ResultsInv, UNCHANGED vars
  PROVE  ResultsInv'
<1>1. UNCHANGED <<db, mode, behind>> /\ NoSwitch
  BY DEF vars, NoSwitch
<1> QED
  BY <1>1, OtherSwitchFollows

LEMMA StepFollows ==
  ASSUME "rr" \notin Env
  PROVE  IInv /\ IInv' /\ ResultsInv /\ [Next]_vars => ResultsInv'
<1> SUFFICES ASSUME IInv, IInv', ResultsInv, [Next]_vars PROVE ResultsInv'
  OBVIOUS
<1>1. ASSUME NEW b \in Backend, Session(b) PROVE ResultsInv'
  <2>1. CASE \E rr \in BOOLEAN : Begin(b, rr)
    BY <2>1, BeginFollows
  <2>2. CASE \E t \in Rel, k \in Key, v \in {0, 1}, fires \in BOOLEAN : Write(b, t, k, v, fires)
    BY <2>2, WriteFollows
  <2>3. CASE \E t \in Rel, cascade \in BOOLEAN : Truncate(b, t, cascade)
    BY <2>3, TruncateFollows
  <2>4. CASE \E m \in Model : Recalc(b, m)
    BY <2>4, RecalcFollows
  <2>5. CASE Fire(b)
    BY <2>5, FireFollows
  <2>6. CASE Savepoint(b)
    BY <2>6, SavepointFollows
  <2>7. CASE RollbackTo(b)
    BY <2>7, RollbackToFollows
  <2>8. CASE PreCommit(b)
    BY <2>8, PreCommitFollows
  <2>9. CASE Pass(b)
    BY <2>9, PassFollows
  <2>10. CASE Recompute(b)
    BY <2>10, RecomputeFollows
  <2>11. CASE PassEnds(b)
    BY <2>11, PassEndsFollows
  <2>12. CASE Commit(b)
    BY <2>12, CommitFollows
  <2>13. CASE Abort(b)
    BY <2>13, AbortFollows
  <2> QED
    BY <1>1, <2>1, <2>2, <2>3, <2>4, <2>5, <2>6, <2>7, <2>8, <2>9, <2>10, <2>11, <2>12, <2>13 DEF Session
<1>2. ASSUME SetSyncMode PROVE ResultsInv'
  <2>1. CASE Switch
    BY <2>1, SwitchFollows
  <2>2. CASE \/ \E m \in Model, to \in Modes, rows \in BOOLEAN : BeginSwitch(m, to, rows)
             \/ (\E t \in Table : Guard(t)) \/ SwitchFails
    BY <2>2, OtherSwitchFollows DEF BeginSwitch, Guard, SwitchFails
  <2> QED
    BY <1>2, <2>1, <2>2 DEF SetSyncMode
<1>3. CASE UNCHANGED vars
  BY <1>3, SameStepFollows
<1> QED
  BY <1>1, <1>2, <1>3 DEF Next

\* Nothing is owed where a session has nothing left to do, and nothing lost on the way there,
\* when no transaction reads an old snapshot.
THEOREM ResultsFollow ==
  ASSUME "rr" \notin Env
  PROVE  Spec => []ResultsInv
<1>1. Init => ResultsInv
  BY InitFollows
<1> QED
  BY <1>1, Invariant, StepFollows, PTL DEF Spec

\* "results commit with it, atomically, visible to others at the same moment": for every
\* number of sessions, whatever they write, roll back to and switch at once, if no
\* transaction is REPEATABLE READ and models feed each other in fewer layers than
\* pre_commit has rounds.
THEOREM AlwaysCurrent ==
  ASSUME "rr" \notin Env, Layered
  PROVE  Spec => []ResultsCurrent
<1>1. IInv /\ ResultsInv => ResultsCurrent
  <2> SUFFICES ASSUME IInv, ResultsInv, NEW m \in Model, mode[m] # "manual"
               PROVE  db[Out[m]] = Result(m, db)
    BY DEF ResultsCurrent
  <2>1. mode[m] \in Modes /\ db[Out[m]] \in [Key -> Nat]
    BY Parts, Bound DEF Types, TypeShared
  <2>2. Follows(m)
    BY <2>1 DEF Follows, Sure, Modes
  <2>3. \A k \in Key : db[Out[m]][k] = Result(m, db)[k]
    BY <2>2 DEF ResultsInv, DbInv, Agrees
  <2> QED
    BY <2>1, <2>3, ResultType
<1> QED
  BY <1>1, Invariant, ResultsFollow, PTL

\* "transactional, read-your-writes": a session whose statement has returned sees the results
\* of the tables it sees, its own writes and those of the triggers they fired among them,
\* however the models of trigger mode feed each other.
THEOREM WritersRead ==
  ASSUME "rr" \notin Env
  PROVE  Spec => []ReadYourWrites
<1>1. IInv /\ ResultsInv => ReadYourWrites
  <2> SUFFICES ASSUME IInv, ResultsInv, NEW b \in Backend, NEW m \in Model, pc[b] = "open", mode[m] = "trigger"
               PROVE  View(b)[Out[m]] = Result(m, View(b))
    BY DEF ReadYourWrites
  <2>1. Types /\ Kept(b) /\ SessionInv(b) /\ Out[m] \in Table
    BY Parts, Bound DEF ResultsInv
  <2>2. todo[b] = <<>> /\ models[b] = {} /\ snap[b] = None
    BY <2>1 DEF SessionInv, DoneInv, Kept
  <2>3. View(b) = Over(db, own[b])
    BY <2>2 DEF View, Base
  <2>4. Follows(m) /\ mode[m] # "commit"
    BY DEF Follows, Sure
  <2>5. \A k \in Key : ~Owed(b, m, k)
    BY <2>2, <2>4, OwedNothing
  <2>6. FollowInv(b, m)
    BY <2>1, <2>4 DEF SessionInv
  <2>7. \A k \in Key : View(b)[Out[m]][k] = Result(m, View(b))[k]
    BY <2>3, <2>5, <2>6 DEF FollowInv, Agrees
  <2>8. View(b)[Out[m]] = [k \in Key |-> View(b)[Out[m]][k]]
    BY <2>1, <2>3 DEF Over
  <2>9. Result(m, View(b)) = [k \in Key |-> Result(m, View(b))[k]]
    BY ResultType
  <2> QED
    BY <2>7, <2>8, <2>9
<1> QED
  BY <1>1, Invariant, ResultsFollow, PTL
=============================================================================
