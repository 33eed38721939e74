------------------------------ MODULE LockFile ------------------------------
(***************************************************************************)
(* The lock file of an archive (src/lock.ml).  To acquire the lock, a      *)
(* process makes a file of a name of its own, links it to the name of the  *)
(* lock, and asks how many links its file has: two, if the linking         *)
(* succeeded, whatever it returned.  O_EXCL may be without effect, as it   *)
(* is on old versions of NFS.                                              *)
(***************************************************************************)
EXTENDS Integers

CONSTANTS
  Procs,    \* processes that may want the lock
  Pid,      \* their process identifiers
  Nobody, Dead,
  Faults,   \* processes killed ("kill"), file systems that fail ("stat")
  MaxName,  \* bound: the largest number in the name of a temporary file
  MaxFile   \* bound: the number of files made

ASSUME PidAssumption ==
  /\ Pid \in [Procs -> Nat]
  /\ \A p, q \in Procs : Pid[p] = Pid[q] => p = q
ASSUME OwnerAssumption == Nobody \notin Procs \cup {Dead} /\ Dead \notin Procs
ASSUME BoundAssumption == MaxName \in Nat /\ MaxFile \in Nat

VARIABLES
  excl,   \* does O_EXCL work here?
  temp,   \* the temporary files, by the number in their name: 0, or a file
  lock,   \* the file the lock is a name of, or 0
  made,   \* number of files made so far
  pc,     \* what each process does
  name,   \* the number in the name of its temporary file
  file,   \* the file behind that name when it was opened
  res     \* had it two links?

vars == <<excl, temp, lock, made, pc, name, file, res>>

Names == 0 .. MaxName

TypeOK ==
  /\ excl \in BOOLEAN
  /\ temp \in [Names -> 0 .. MaxFile]
  /\ lock \in 0 .. MaxFile
  /\ made \in 0 .. MaxFile
  /\ pc \in [Procs -> {"idle", "create", "link", "stat", "unlink", "held"}]
  /\ name \in [Procs -> Nat]
  /\ file \in [Procs -> 0 .. MaxFile]
  /\ res \in [Procs -> BOOLEAN]

Init ==
  /\ excl \in BOOLEAN
  /\ temp = [n \in Names |-> 0]
  /\ lock = 0
  /\ made = 0
  /\ pc = [p \in Procs |-> "idle"]
  /\ name = [p \in Procs |-> 0]
  /\ file = [p \in Procs |-> 0]
  /\ res = [p \in Procs |-> FALSE]

Goto(p, step) == pc' = [pc EXCEPT ![p] = step]

Acquire(p) ==
  /\ pc[p] = "idle"
  /\ Goto(p, "create")
  /\ name' = [name EXCEPT ![p] = Pid[p]]
  /\ UNCHANGED <<excl, temp, lock, made, file, res>>

(* Mutant: the previous number is tried.                                   *)
PreviousName(p) ==
  /\ pc[p] = "create" /\ name[p] \in Names
  /\ excl /\ temp[name[p]] # 0
  /\ name' = [name EXCEPT ![p] = @ - 1]
  /\ UNCHANGED <<excl, temp, lock, made, pc, file, res>>

(* unique: the next number is tried when there is a file of this name.     *)
NextName(p) ==
  /\ pc[p] = "create" /\ name[p] \in Names
  /\ excl /\ temp[name[p]] # 0
  /\ name' = [name EXCEPT ![p] = @ + 1]
  /\ UNCHANGED <<excl, temp, lock, made, pc, file, res>>

Create(p) ==
  /\ pc[p] = "create" /\ name[p] \in Names
  /\ \/ /\ temp[name[p]] = 0 /\ made < MaxFile
        /\ made' = made + 1
        /\ temp' = [temp EXCEPT ![name[p]] = made + 1]
        /\ file' = [file EXCEPT ![p] = made + 1]
     \/ /\ temp[name[p]] # 0 /\ ~excl
        /\ file' = [file EXCEPT ![p] = temp[name[p]]]
        /\ UNCHANGED <<temp, made>>
  /\ Goto(p, "link")
  /\ UNCHANGED <<excl, lock, name, res>>

(* Mutant: the lock file is replaced, as by a rename.                      *)
LinkReplaces(p) ==
  /\ pc[p] = "link"
  /\ lock' = temp[name[p]]
  /\ Goto(p, "stat")
  /\ UNCHANGED <<excl, temp, made, name, file, res>>

Link(p) ==
  /\ pc[p] = "link"
  /\ lock' = IF lock = 0 THEN temp[name[p]] ELSE lock
  /\ Goto(p, "stat")
  /\ UNCHANGED <<excl, temp, made, name, file, res>>

(* The temporary file has one link, and another if it is the lock file.    *)
Linked(p) == temp[name[p]] # 0 /\ lock = temp[name[p]]

(* Mutant: any lock file will do.                                          *)
StatLockExists(p) ==
  /\ pc[p] = "stat"
  /\ res' = [res EXCEPT ![p] = lock # 0]
  /\ Goto(p, "unlink")
  /\ UNCHANGED <<excl, temp, lock, made, name, file>>

Stat(p) ==
  /\ pc[p] = "stat"
  /\ \/ res' = [res EXCEPT ![p] = Linked(p)]
     \/ "stat" \in Faults /\ res' = [res EXCEPT ![p] = FALSE]
  /\ Goto(p, "unlink")
  /\ UNCHANGED <<excl, temp, lock, made, name, file>>

Unlink(p) ==
  /\ pc[p] = "unlink"
  /\ temp' = [temp EXCEPT ![name[p]] = 0]
  /\ Goto(p, IF res[p] THEN "held" ELSE "idle")
  /\ UNCHANGED <<excl, lock, made, name, file, res>>

Release(p) ==
  /\ pc[p] = "held"
  /\ lock' = 0
  /\ Goto(p, "idle")
  /\ UNCHANGED <<excl, temp, made, name, file, res>>

(* A killed process leaves its files; its identifier is used again.        *)
Kill(p) ==
  /\ "kill" \in Faults /\ pc[p] # "idle"
  /\ Goto(p, "idle")
  /\ UNCHANGED <<excl, temp, lock, made, name, file, res>>

(* The process whose lock file it is, if it is still at it.                *)
Owns(p) == /\ lock # 0 /\ file[p] = lock
           /\ \/ pc[p] \in {"stat", "held"}
              \/ pc[p] = "unlink" /\ res[p]

(* A user deletes the lock file, when nobody uses it.                      *)
Delete ==
  /\ lock # 0 /\ \A p \in Procs : pc[p] \in {"idle", "create"}
  /\ lock' = 0
  /\ UNCHANGED <<excl, temp, made, pc, name, file, res>>

Next ==
  \/ \E p \in Procs :
       \/ Acquire(p) \/ NextName(p) \/ Create(p) \/ Link(p) \/ Stat(p)
       \/ Unlink(p) \/ Release(p) \/ Kill(p)
  \/ Delete

Spec == Init /\ [][Next]_vars

-----------------------------------------------------------------------------
(* Two processes never hold the lock, and the one that does has the lock   *)
(* file (Lock.acquire, Lock.release): in particular is_locked says so.     *)
OneHolder ==
  \A p \in Procs : pc[p] = "held" =>
    /\ lock # 0 /\ lock = file[p]
    /\ \A q \in Procs : pc[q] = "held" => q = p

(* Acquiring and releasing the lock are single steps for everybody else:   *)
(* the steps LockArchive and UnlockArchive of ArchiveCommit.               *)
Owner == IF lock = 0 THEN Nobody
         ELSE IF \E p \in Procs : Owns(p) THEN CHOOSE p \in Procs : Owns(p)
              ELSE Dead
Service == INSTANCE LockService WITH owner <- Owner
ServiceSpec == Service!Spec
=============================================================================
