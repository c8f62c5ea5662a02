---------------------------- MODULE MCSyncWorker ----------------------------
(* Small instances of SyncWorker: two models that share one relation. *)
EXTENDS SyncWorker

CONSTANTS r1, r2

BindsShared == [m \in Model |-> IF m = 1 THEN {r1} ELSE {r1, r2}]
BindsOne == [m \in Model |-> {r1}]
=============================================================================
