---------------------------- MODULE LockService ----------------------------
(***************************************************************************)
(* What the users of Lock (src/lock.ml) rely on: a lock has one owner, it  *)
(* passes from nobody to a process and back, and from a process that was   *)
(* interrupted to "Dead", until a user deletes the file.                   *)
(***************************************************************************)
CONSTANTS Procs, Nobody, Dead

VARIABLE owner

Init == owner = Nobody

(* The lock of an interrupted process may pass on without being deleted    *)
(* first, to a process that has its identifier.                            *)
Acquire(p) == owner \in {Nobody, Dead} /\ owner' = p
Release(p) == owner = p /\ owner' = Nobody
Orphan(p)  == owner = p /\ owner' = Dead
Delete     == owner = Dead /\ owner' = Nobody

Next == Delete \/ \E p \in Procs : Acquire(p) \/ Release(p) \/ Orphan(p)

Spec == Init /\ [][Next]_owner
=============================================================================
