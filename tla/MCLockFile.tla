----------------------------- MODULE MCLockFile -----------------------------
(* Instances of LockFile for TLC: neighbouring process identifiers, so     *)
(* that a process that tries the next name meets the file of another.      *)
EXTENDS LockFile, TLC

CONSTANTS p1, p2, p3

MCPid == p1 :> 0 @@ p2 :> 1 @@ p3 :> 3
=============================================================================
