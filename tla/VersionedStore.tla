--------------------------- MODULE VersionedStore ---------------------------
(***************************************************************************)
(* What a model store promises its handles (store/src/lib.rs, the surface  *)
(* both backends share): optimistic concurrency.  A handle holds what it   *)
(* last loaded or saved; the store takes a save only from a handle that    *)
(* holds what is stored, and "A handle that never loaded saves             *)
(* unconditionally."  How a handle's view becomes stale is left open.      *)
(***************************************************************************)
CONSTANTS
  Handle,
  Content,   \* what a store may hold
  Nothing,   \* the view of a handle that has loaded and saved nothing
  Stale      \* the view of one that is behind: its saves are refused

VARIABLES
  content,   \* what is stored
  view       \* what each handle holds

vars == <<content, view>>

Init ==
  /\ content \in Content
  /\ view = [h \in Handle |-> Nothing]

Expired(h) == IF view[h] = Nothing THEN Nothing ELSE Stale

\* A load gives what is stored, or what is no longer.
Read(h) ==
  /\ \E v \in {content, Stale} : view' = [view EXCEPT ![h] = v]
  /\ UNCHANGED content

\* Handles fall behind, as after a write of something else.
Expire(H) ==
  /\ view' = [g \in Handle |-> IF g \in H THEN Expired(g) ELSE view[g]]
  /\ UNCHANGED content

\* A handle is closed, perhaps after such a write.
Forget(H, h) ==
  /\ view' = [g \in Handle |-> IF g = h THEN Nothing ELSE IF g \in H THEN Expired(g) ELSE view[g]]
  /\ UNCHANGED content

\* The handle's content is stored: everyone else is behind from now on.
Replace(h) ==
  /\ content' \in Content
  /\ view' = [g \in Handle |-> IF g = h THEN content' ELSE Expired(g)]

Save(h) == view[h] = content /\ Replace(h)
Overwrite(h) == view[h] = Nothing /\ Replace(h)

Next ==
  \/ \E h \in Handle : Read(h) \/ Save(h) \/ Overwrite(h)
  \/ \E H \in SUBSET Handle : Expire(H) \/ \E h \in Handle : Forget(H, h)

Spec == Init /\ [][Next]_vars
=============================================================================
