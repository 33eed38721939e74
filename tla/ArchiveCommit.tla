--------------------------- MODULE ArchiveCommit ---------------------------
(***************************************************************************)
(* The archive files of a pair of roots (src/update.ml).  Each host keeps  *)
(* a main archive, and during a commit a scratch and a new one; a Unison   *)
(* client drives all hosts through the same phases, one command per host   *)
(* and phase, waiting for all the answers before it starts the next phase  *)
(* (Globals.allRootsIter).  Commands of different hosts interleave, a      *)
(* process can be killed and a connection lost between any two file system *)
(* operations, and several clients may work on the same roots.             *)
(***************************************************************************)
EXTENDS Integers, FiniteSets

CONSTANTS
  Hosts,          \* the hosts of the roots
  Client,         \* the host the user interface runs on
  Sessions,       \* client processes, each with its server processes
  Contents,       \* what an archive can say about a replica
  NoArchive,      \* the empty archive
  Unset,          \* a process that holds no archive in memory
  Nobody,         \* owner of a lock file that does not exist
  Dead,           \* owner of a lock file whose creator was killed
  Persistent,     \* hosts whose process outlives a connection (a socket
                  \* server, or the graphical client), with its caches
  IgnoreAllowed,  \* may a user give the -ignorearchives preference?
  Concurrent,     \* may a client start while another one runs?
  Faults,         \* what can go wrong: processes killed, connections
                  \* dropped, commands failing
  MaxCommit       \* bound: number of commits begun

ASSUME HostsAssumption ==
  /\ IsFiniteSet(Hosts) /\ Client \in Hosts /\ Persistent \subseteq Hosts
ASSUME OwnerAssumption == Nobody \notin Sessions \cup {Dead} /\ Dead \notin Sessions
ASSUME ContentAssumption == NoArchive \notin Contents
ASSUME MemoryAssumption == Unset \notin Contents \cup {NoArchive}
ASSUME OptionAssumption ==
  /\ IgnoreAllowed \in BOOLEAN /\ Concurrent \in BOOLEAN
  /\ Faults \subseteq {"kill", "drop", "fail"} /\ MaxCommit \in Nat

VARIABLES
  \* the archive directory of each host
  main, new, scratch,  \* files, by host
  lock,                \* who created the lock file, by host
  \* the processes, by session
  up,                  \* hosts where a process of the session runs
  conn,                \* are these processes connected?
  mem,                 \* archiveCache, by host
  info,                \* archiveInfoCache: the main archive last seen, by host
  ignore,              \* the preference ignorearchives
  \* the progress of the client
  phase, goal,         \* the command being sent, and on behalf of what
  todo,                \* hosts whose command is not finished
  half,                \* hosts in the middle of their command
  error,               \* why the run failed
  undo,                \* hosts whose lock must still be released
  refused,             \* hosts that answered None (load) or a message (lock)
  got,                 \* answers of the hosts: checksum and magic
  seen,                \* hosts with a main and with a new archive, as answered
  magic,               \* identity of the commit being prepared
  clock                \* the last commit identity given out

disk == <<main, new, scratch, lock>>
caches == <<mem, info>>
proc == <<up, conn, ignore>>
answers == <<refused, got, seen>>
vars == <<disk, caches, proc, phase, goal, todo, half, error, undo, answers,
          magic, clock>>

-----------------------------------------------------------------------------
(* An absent file reads as the empty archive with checksum 0 and magic "", *)
(* which is also the answer for an archive that is already in memory.      *)
Blank == [magic |-> 0, arc |-> NoArchive]
(* A file that was opened for writing and not filled.                      *)
Torn == [magic |-> -1, arc |-> NoArchive]
Files == [magic : -1 .. MaxCommit, arc : Contents \cup {NoArchive}]

Exists(file) == file # Blank

Phases == {"idle", "optimistic", "lock", "exists", "post", "clean", "verify",
           "load", "unlock", "ready", "changed", "prepare", "commit"}
(* The phases in which the client holds the locks of all hosts.            *)
LockedPhases == {"exists", "post", "clean", "verify", "load", "prepare", "commit"}
Errors == {"none", "locked", "missing", "diskdiffer", "newdiffer", "io"}

TypeOK ==
  /\ main \in [Hosts -> Files]
  /\ new \in [Hosts -> Files]
  /\ scratch \in [Hosts -> Files]
  /\ lock \in [Hosts -> Sessions \cup {Nobody, Dead}]
  /\ up \in [Sessions -> SUBSET Hosts]
  /\ conn \in [Sessions -> BOOLEAN]
  /\ ignore \in [Sessions -> BOOLEAN]
  /\ mem \in [Sessions -> [Hosts -> Contents \cup {NoArchive, Unset}]]
  /\ info \in [Sessions -> [Hosts -> Files]]
  /\ phase \in [Sessions -> Phases]
  /\ goal \in [Sessions -> {"load", "commit"}]
  /\ todo \in [Sessions -> SUBSET Hosts]
  /\ half \in [Sessions -> SUBSET Hosts]
  /\ error \in [Sessions -> Errors]
  /\ undo \in [Sessions -> SUBSET Hosts]
  /\ refused \in [Sessions -> SUBSET Hosts]
  /\ got \in [Sessions -> [Hosts -> Files]]
  /\ seen \in [Sessions -> [main : SUBSET Hosts, new : SUBSET Hosts]]
  /\ magic \in [Sessions -> 0 .. MaxCommit]
  /\ clock \in 0 .. MaxCommit

Init ==
  /\ main = [h \in Hosts |-> Blank]
  /\ new = [h \in Hosts |-> Blank]
  /\ scratch = [h \in Hosts |-> Blank]
  /\ lock = [h \in Hosts |-> Nobody]
  /\ up = [s \in Sessions |-> {}]
  /\ conn = [s \in Sessions |-> FALSE]
  /\ ignore = [s \in Sessions |-> FALSE]
  /\ mem = [s \in Sessions |-> [h \in Hosts |-> Unset]]
  /\ info = [s \in Sessions |-> [h \in Hosts |-> Blank]]
  /\ phase = [s \in Sessions |-> "idle"]
  /\ goal = [s \in Sessions |-> "load"]
  /\ todo = [s \in Sessions |-> {}]
  /\ half = [s \in Sessions |-> {}]
  /\ error = [s \in Sessions |-> "none"]
  /\ undo = [s \in Sessions |-> {}]
  /\ refused = [s \in Sessions |-> {}]
  /\ got = [s \in Sessions |-> [h \in Hosts |-> Blank]]
  /\ seen = [s \in Sessions |-> [main |-> {}, new |-> {}]]
  /\ magic = [s \in Sessions |-> 0]
  /\ clock = 0

-----------------------------------------------------------------------------
(* Commands, as a host executes them.                                      *)

Runs(s, h, p) == phase[s] = p /\ h \in todo[s] /\ h \in up[s]

Done(s, h) == /\ todo' = [todo EXCEPT ![s] = @ \ {h}]
              /\ half' = [half EXCEPT ![s] = @ \ {h}]

Halfway(s, h) == /\ half' = [half EXCEPT ![s] = @ \cup {h}]
                 /\ UNCHANGED todo

Answer(s, h, file) == /\ got' = [got EXCEPT ![s][h] = file]
                      /\ UNCHANGED <<refused, seen>>

Refuse(s, h) == /\ refused' = [refused EXCEPT ![s] = @ \cup {h}]
                /\ UNCHANGED <<got, seen>>

Remember(s, h, content, file) == /\ mem' = [mem EXCEPT ![s][h] = content]
                                 /\ info' = [info EXCEPT ![s][h] = file]

client == <<phase, goal, error, undo, magic, clock>>

(* loadArchiveOnRoot with ignorearchives: no look at the disk at all.  All  *)
(* hosts give the same answer then, and the other load is never needed.    *)
ClearArchive(s, h) ==
  /\ Runs(s, h, "optimistic") /\ ignore[s]
  /\ Remember(s, h, NoArchive, Blank)
  /\ Answer(s, h, Blank)
  /\ Done(s, h)
  /\ UNCHANGED <<disk, proc, client>>

(* Mutant: the optimistic load does not look for a new archive.            *)
OptimisticCheckNoNew(s, h) ==
  /\ Runs(s, h, "optimistic") /\ ~ignore[s] /\ h \notin half[s]
  /\ \/ lock[h] # Nobody /\ Refuse(s, h) /\ Done(s, h)
     \/ lock[h] = Nobody /\ Halfway(s, h) /\ UNCHANGED answers
  /\ UNCHANGED <<disk, caches, proc, client>>

(* The optimistic load first looks for a new archive and a lock file...    *)
OptimisticCheck(s, h) ==
  /\ Runs(s, h, "optimistic") /\ ~ignore[s] /\ h \notin half[s]
  /\ \/ /\ Exists(new[h]) \/ lock[h] # Nobody
        /\ Refuse(s, h)
        /\ Done(s, h)
     \/ /\ ~Exists(new[h]) /\ lock[h] = Nobody
        /\ Halfway(s, h)
        /\ UNCHANGED answers
  /\ UNCHANGED <<disk, caches, proc, client>>

(* ... then keeps the archive in memory if the file has not changed, and   *)
(* reads it otherwise.  The file is looked at before and after it is read; *)
(* a change in between is a refusal too, as if it had come first.          *)
OptimisticRead(s, h) ==
  /\ Runs(s, h, "optimistic") /\ h \in half[s]
  /\ main[h] # Torn
  /\ \/ /\ Exists(main[h]) /\ info[s][h] = main[h]
        /\ Answer(s, h, Blank)
        /\ UNCHANGED caches
     \/ /\ Exists(main[h]) /\ info[s][h] # main[h]
        /\ Remember(s, h, main[h].arc, main[h])
        /\ Answer(s, h, main[h])
     \/ /\ ~Exists(main[h])
        /\ Refuse(s, h)
        /\ UNCHANGED caches
  /\ Done(s, h)
  /\ UNCHANGED <<disk, proc, client>>

(* Mutant: creating the lock file succeeds when there is one already.      *)
LockArchiveShared(s, h) ==
  /\ Runs(s, h, "lock")
  /\ lock' = [lock EXCEPT ![h] = s]
  /\ Done(s, h)
  /\ UNCHANGED <<main, new, scratch, caches, proc, client, answers>>

(* Lock.acquire (see LockFile).                                            *)
LockArchive(s, h) ==
  /\ Runs(s, h, "lock")
  /\ \/ /\ lock[h] = Nobody
        /\ lock' = [lock EXCEPT ![h] = s]
        /\ UNCHANGED answers
     \/ /\ lock[h] # Nobody
        /\ Refuse(s, h)
        /\ UNCHANGED lock
  /\ Done(s, h)
  /\ UNCHANGED <<main, new, scratch, caches, proc, client>>

ArchivesExist(s, h) ==
  /\ Runs(s, h, "exists")
  /\ seen' = [seen EXCEPT ![s] =
       [main |-> IF Exists(main[h]) THEN @.main \cup {h} ELSE @.main,
        new  |-> IF Exists(new[h]) THEN @.new \cup {h} ELSE @.new]]
  /\ Done(s, h)
  /\ UNCHANGED <<disk, caches, proc, client, refused, got>>

(* postCommitArchive: the main archive is removed, ...                     *)
PostCommitUnlink(s, h) ==
  /\ Runs(s, h, "post") /\ h \notin half[s]
  /\ main' = [main EXCEPT ![h] = Blank]
  /\ Halfway(s, h)
  /\ UNCHANGED <<new, scratch, lock, caches, proc, answers, client>>

(* ... then linked to the new one or, when that fails, created ...         *)
PostCommitCreate(s, h) ==
  /\ Runs(s, h, "post") /\ h \in half[s]
  /\ main[h] = Blank
  /\ main' = [main EXCEPT ![h] = Torn]
  /\ UNCHANGED <<new, scratch, lock, caches, proc, answers, client, todo, half>>

(* ... and filled; the cache takes this file to be what is in memory.      *)
PostCommitLink(s, h) ==
  /\ Runs(s, h, "post") /\ h \in half[s]
  /\ main' = [main EXCEPT ![h] = new[h]]
  /\ info' = [info EXCEPT ![s][h] = new[h]]
  /\ Done(s, h)
  /\ UNCHANGED <<new, scratch, lock, mem, proc, answers, client>>

RemoveArchive(s, h) ==
  /\ Runs(s, h, "clean")
  /\ new' = [new EXCEPT ![h] = Blank]
  /\ Done(s, h)
  /\ UNCHANGED <<main, scratch, lock, caches, proc, answers, client>>

LoadArchive(s, h) ==
  /\ Runs(s, h, "load")
  /\ main[h] # Torn
  /\ IF Exists(main[h]) THEN Remember(s, h, main[h].arc, main[h])
                        ELSE Remember(s, h, NoArchive, Blank)
  /\ Answer(s, h, main[h])
  /\ Done(s, h)
  /\ UNCHANGED <<disk, proc, client>>

(* Mutant: every host makes its own identity of the commit.                *)
PrepareCommitOwnMagic(s, h) ==
  LET file == [magic |-> clock + 1, arc |-> mem[s][h]]
  IN  /\ Runs(s, h, "prepare") /\ mem[s][h] # Unset
      /\ scratch' = [scratch EXCEPT ![h] = file]
      /\ Answer(s, h, file)
      /\ Done(s, h)
      /\ UNCHANGED <<main, new, lock, caches, proc, client>>

PrepareCommit(s, h) ==
  /\ Runs(s, h, "prepare")
  /\ mem[s][h] # Unset
  /\ scratch' = [scratch EXCEPT ![h] = [magic |-> magic[s], arc |-> mem[s][h]]]
  /\ Answer(s, h, [magic |-> magic[s], arc |-> mem[s][h]])
  /\ Done(s, h)
  /\ UNCHANGED <<main, new, lock, caches, proc, client>>

CommitArchive(s, h) ==
  /\ Runs(s, h, "commit")
  /\ new' = [new EXCEPT ![h] = scratch[h]]
  /\ scratch' = [scratch EXCEPT ![h] = Blank]
  /\ Done(s, h)
  /\ UNCHANGED <<main, lock, caches, proc, answers, client>>

UnlockArchive(s, h) ==
  /\ h \in undo[s] /\ h \notin todo[s] /\ h \in up[s]
  /\ lock' = [lock EXCEPT ![h] = Nobody]
  /\ undo' = [undo EXCEPT ![s] = @ \ {h}]
  /\ UNCHANGED <<main, new, scratch, caches, proc, answers,
                 phase, goal, todo, half, error, magic, clock>>

(* A command fails: always, if it reads a damaged archive or has none to   *)
(* write; sometimes, for reasons of its host (disk full...).  The client   *)
(* releases the locks when it hears of it; only lockArchives does not.     *)
CommandFails(s, h) ==
  /\ h \in todo[s] /\ h \in up[s]
  /\ \/ "fail" \in Faults
     \/ phase[s] \in {"optimistic", "load"} /\ main[h] = Torn
     \/ phase[s] = "prepare" /\ mem[s][h] = Unset
  /\ phase[s] # "exists"
  /\ error' = [error EXCEPT ![s] = IF @ = "none" THEN "io" ELSE @]
  /\ undo' = [undo EXCEPT ![s] =
       IF error[s] = "none" /\ phase[s] \in LockedPhases THEN Hosts ELSE @]
  /\ Done(s, h)
  /\ UNCHANGED <<disk, caches, proc, answers, phase, goal, magic, clock>>

Handler(s, h) ==
  \/ ClearArchive(s, h) \/ OptimisticCheck(s, h) \/ OptimisticRead(s, h)
  \/ LockArchive(s, h) \/ ArchivesExist(s, h)
  \/ PostCommitUnlink(s, h) \/ PostCommitCreate(s, h) \/ PostCommitLink(s, h)
  \/ RemoveArchive(s, h) \/ LoadArchive(s, h)
  \/ PrepareCommit(s, h) \/ CommitArchive(s, h) \/ UnlockArchive(s, h)

-----------------------------------------------------------------------------
(* The client, between two rounds of commands.                             *)

Decides(s, p) == /\ conn[s] /\ phase[s] = p
                 /\ todo[s] = {} /\ error[s] = "none"

Send(s, p) == /\ phase' = [phase EXCEPT ![s] = p]
              /\ todo' = [todo EXCEPT ![s] = Hosts]
              /\ UNCHANGED <<error, undo>>

Settle(s, p) == /\ phase' = [phase EXCEPT ![s] = p]
                /\ UNCHANGED <<todo, error, undo>>

Fail(s, e, locked) == /\ error' = [error EXCEPT ![s] = e]
                      /\ undo' = [undo EXCEPT ![s] = locked]
                      /\ UNCHANGED <<phase, todo>>

Release(s) == /\ phase' = [phase EXCEPT ![s] = "unlock"]
              /\ undo' = [undo EXCEPT ![s] = Hosts]
              /\ UNCHANGED <<todo, error>>

ForgetAnswers(s) ==
  /\ refused' = [refused EXCEPT ![s] = {}]
  /\ got' = [got EXCEPT ![s] = [h \in Hosts |-> Blank]]
  /\ seen' = [seen EXCEPT ![s] = [main |-> {}, new |-> {}]]

(* Mutant: the answers are not compared.                                   *)
IdenticalUnchecked(s) == refused[s] = {}

Identical(s) == /\ refused[s] = {}
                /\ \A h, k \in Hosts : got[s][h] = got[s][k]

outside == <<disk, caches, proc, half>>

(* findUpdates, at the start of every run in the life of a client.         *)
FindUpdates(s) ==
  /\ conn[s] /\ phase[s] \in {"idle", "ready"}
  /\ error[s] = "none" \/ Client \in Persistent
  /\ phase' = [phase EXCEPT ![s] = "optimistic"]
  /\ goal' = [goal EXCEPT ![s] = "load"]
  /\ todo' = [todo EXCEPT ![s] = Hosts]
  /\ error' = [error EXCEPT ![s] = "none"]
  /\ UNCHANGED <<outside, answers, undo, magic, clock>>

(* Mutant: the recovery does not take the locks.                           *)
AfterOptimisticUnlocked(s) ==
  /\ Decides(s, "optimistic")
  /\ ForgetAnswers(s)
  /\ IF Identical(s) THEN Settle(s, "ready") ELSE Send(s, "exists")
  /\ UNCHANGED <<outside, goal, magic, clock>>

AfterOptimistic(s) ==
  /\ Decides(s, "optimistic")
  /\ ForgetAnswers(s)
  /\ IF Identical(s) THEN Settle(s, "ready") ELSE Send(s, "lock")
  /\ UNCHANGED <<outside, goal, magic, clock>>

(* Mutant: when a lock is refused, all locks are released.                 *)
AfterLockReleaseAll(s) ==
  /\ Decides(s, "lock")
  /\ ForgetAnswers(s)
  /\ \/ /\ refused[s] # {} /\ Fail(s, "locked", Hosts)
        /\ UNCHANGED <<magic, clock>>
     \/ /\ refused[s] = {} /\ goal[s] = "load" /\ Send(s, "exists")
        /\ UNCHANGED <<magic, clock>>
     \/ /\ refused[s] = {} /\ goal[s] = "commit" /\ clock < MaxCommit
        /\ Send(s, "prepare")
        /\ clock' = clock + 1 /\ magic' = [magic EXCEPT ![s] = clock + 1]
  /\ UNCHANGED <<outside, goal>>

(* Mutant: the client waits for locks that were refused.                   *)
AfterLockNoGiveUp(s) == refused[s] = {} /\ AfterLockReleaseAll(s)

AfterLock(s) ==
  /\ Decides(s, "lock")
  /\ ForgetAnswers(s)
  /\ \/ /\ refused[s] # {}
        /\ Fail(s, "locked", Hosts \ refused[s])
        /\ UNCHANGED <<magic, clock>>
     \/ /\ refused[s] = {} /\ goal[s] = "load"
        /\ Send(s, "exists")
        /\ UNCHANGED <<magic, clock>>
     \/ /\ refused[s] = {} /\ goal[s] = "commit" /\ clock < MaxCommit
        /\ Send(s, "prepare")
        /\ clock' = clock + 1
        /\ magic' = [magic EXCEPT ![s] = clock + 1]
  /\ UNCHANGED <<outside, goal>>

(* Mutant: one new archive is enough to replace the main archives.         *)
AfterExistsAnyNew(s) ==
  /\ Decides(s, "exists")
  /\ IF seen[s].new # {} THEN Send(s, "post") ELSE Settle(s, "verify")
  /\ UNCHANGED <<outside, goal, answers, magic, clock>>

(* doArchiveCrashRecovery: what to do with the new archives.               *)
AfterExists(s) ==
  /\ Decides(s, "exists")
  /\ \/ seen[s].new = Hosts /\ Send(s, "post")
     \/ seen[s].new # Hosts /\ seen[s].new # {} /\ Send(s, "clean")
     \/ seen[s].new = {} /\ Settle(s, "verify")
  /\ UNCHANGED <<outside, goal, answers, magic, clock>>

AfterPostCommit(s) ==
  /\ Decides(s, "post")
  /\ Send(s, "clean")
  /\ UNCHANGED <<outside, goal, answers, magic, clock>>

AfterClean(s) ==
  /\ Decides(s, "clean")
  /\ IF goal[s] = "load" THEN Settle(s, "verify") ELSE Release(s)
  /\ UNCHANGED <<outside, goal, answers, magic, clock>>

(* The end of the recovery: are there main archives on all hosts, or on    *)
(* none?  The answer used is the one given before the recovery.            *)
VerifyMain(s) ==
  /\ Decides(s, "verify")
  /\ ForgetAnswers(s)
  /\ IF seen[s].main \in {{}, Hosts} THEN Send(s, "load")
                                     ELSE Fail(s, "missing", Hosts)
  /\ UNCHANGED <<outside, goal, magic, clock>>

AfterLoad(s) ==
  /\ Decides(s, "load")
  /\ ForgetAnswers(s)
  /\ IF Identical(s) THEN Release(s) ELSE Fail(s, "diskdiffer", Hosts)
  /\ UNCHANGED <<outside, goal, magic, clock>>

(* The archives in memory follow what the run does to the replicas: an     *)
(* item that fails halfway, or whose second acknowledgement is lost,       *)
(* leaves a change in the archives of some hosts only.  A commit follows.  *)
Propagate(s) ==
  /\ Decides(s, "ready")
  /\ \E c \in Contents, changed \in (SUBSET Hosts) \ {{}} :
       mem' = [mem EXCEPT ![s] =
                 [h \in Hosts |-> IF h \in changed THEN c ELSE @[h]]]
  /\ Settle(s, "changed")
  /\ UNCHANGED <<disk, info, proc, half, answers, goal, magic, clock>>

CommitUpdates(s) ==
  /\ Decides(s, "ready") \/ Decides(s, "changed")
  /\ clock < MaxCommit
  /\ goal' = [goal EXCEPT ![s] = "commit"]
  /\ Send(s, "lock")
  /\ UNCHANGED <<outside, answers, magic, clock>>

AfterPrepare(s) ==
  /\ Decides(s, "prepare")
  /\ ForgetAnswers(s)
  /\ magic' = [magic EXCEPT ![s] = 0]
  /\ IF Identical(s) THEN Send(s, "commit") ELSE Fail(s, "newdiffer", Hosts)
  /\ UNCHANGED <<outside, goal, clock>>

(* Mutant: the new archives are removed before they are copied.            *)
AfterCommitCleanFirst(s) ==
  /\ Decides(s, "commit")
  /\ Send(s, "clean")
  /\ UNCHANGED <<outside, goal, answers, magic, clock>>

AfterCommit(s) ==
  /\ Decides(s, "commit")
  /\ Send(s, "post")
  /\ UNCHANGED <<outside, goal, answers, magic, clock>>

AfterUnlock(s) ==
  /\ Decides(s, "unlock") /\ undo[s] = {}
  /\ ForgetAnswers(s)
  /\ Settle(s, "ready")
  /\ UNCHANGED <<outside, goal, magic, clock>>

(* The exception leaves findUpdates or commitUpdates.                      *)
GiveUp(s) ==
  /\ conn[s] /\ phase[s] # "idle"
  /\ error[s] # "none" /\ todo[s] = {} /\ undo[s] = {}
  /\ phase' = [phase EXCEPT ![s] = "idle"]
  /\ magic' = [magic EXCEPT ![s] = 0]
  /\ ForgetAnswers(s)
  /\ UNCHANGED <<outside, goal, todo, error, undo, clock>>

ClientStep(s) ==
  \/ AfterOptimistic(s) \/ AfterLock(s) \/ AfterExists(s) \/ AfterPostCommit(s)
  \/ AfterClean(s) \/ VerifyMain(s) \/ AfterLoad(s) \/ AfterPrepare(s)
  \/ AfterCommit(s) \/ AfterUnlock(s) \/ GiveUp(s)

-----------------------------------------------------------------------------
(* Users, and what can go wrong.                                           *)

(* A client starts, with a server on every other host.                     *)
Start(s) ==
  /\ up[s] = {}
  /\ Concurrent \/ \A t \in Sessions : Client \notin up[t]
  /\ up' = [up EXCEPT ![s] = Hosts]
  /\ conn' = [conn EXCEPT ![s] = TRUE]
  /\ \E choice \in IF IgnoreAllowed THEN BOOLEAN ELSE {FALSE} :
       ignore' = [ignore EXCEPT ![s] = choice]
  /\ phase' = [phase EXCEPT ![s] = "idle"]
  /\ todo' = [todo EXCEPT ![s] = {}]
  /\ error' = [error EXCEPT ![s] = "none"]
  /\ undo' = [undo EXCEPT ![s] = {}]
  /\ goal' = [goal EXCEPT ![s] = "load"]
  /\ magic' = [magic EXCEPT ![s] = 0]
  /\ ForgetAnswers(s)
  /\ UNCHANGED <<disk, caches, half, clock>>

(* The connection is lost, or the client exits, which it does between runs *)
(* or after a fatal error.                                                 *)
Disconnect(s) ==
  /\ conn[s]
  /\ "drop" \in Faults \/ phase[s] \in {"idle", "ready"}
  /\ conn' = [conn EXCEPT ![s] = FALSE]
  /\ UNCHANGED <<disk, caches, up, ignore, client, todo, half, answers>>

(* A process sees the end of its connection: handlers of at_conn_close and *)
(* at_exit release the locks it acquired; only some processes stay.        *)
Leave(s, h) ==
  /\ ~conn[s] /\ h \in up[s] /\ h \notin half[s]
  /\ up' = [up EXCEPT ![s] = @ \ {h}]
  /\ lock' = [lock EXCEPT ![h] = IF @ = s THEN Nobody ELSE @]
  /\ IF h \in Persistent THEN UNCHANGED caches ELSE Remember(s, h, Unset, Blank)
  /\ UNCHANGED <<main, new, scratch, conn, ignore, client, todo, half, answers>>

(* A process is killed, or its host stops.                                 *)
Kill(s, h) ==
  /\ "kill" \in Faults
  /\ h \in up[s]
  /\ up' = [up EXCEPT ![s] = @ \ {h}]
  /\ conn' = [conn EXCEPT ![s] = FALSE]
  /\ lock' = [lock EXCEPT ![h] = IF @ = s THEN Dead ELSE @]
  /\ half' = [half EXCEPT ![s] = @ \ {h}]
  /\ Remember(s, h, Unset, Blank)
  /\ UNCHANGED <<main, new, scratch, ignore, client, todo, answers>>

(* A user deletes a lock file, as told to, when its creator runs no more.  *)
RemoveStaleLock(h) ==
  /\ lock[h] = Dead
  /\ lock' = [lock EXCEPT ![h] = Nobody]
  /\ UNCHANGED <<main, new, scratch, caches, proc, client, todo, half, answers>>

Next ==
  \/ \E s \in Sessions, h \in Hosts :
       Handler(s, h) \/ CommandFails(s, h) \/ Leave(s, h) \/ Kill(s, h)
  \/ \E s \in Sessions :
       ClientStep(s) \/ FindUpdates(s) \/ Propagate(s) \/ CommitUpdates(s)
         \/ Start(s) \/ Disconnect(s)
  \/ \E h \in Hosts : RemoveStaleLock(h)

Spec == Init /\ [][Next]_vars

(* A process that is alive executes what it was sent, and a client that    *)
(* has all its answers goes on: neither waits for anything but the other.  *)
Fairness ==
  \A s \in Sessions :
    /\ WF_vars(ClientStep(s))
    /\ \A h \in Hosts : WF_vars(Handler(s, h)) /\ WF_vars(Leave(s, h))

FairSpec == Spec /\ Fairness

-----------------------------------------------------------------------------
(* Properties.                                                             *)

AllNew == \A h \in Hosts : Exists(new[h])

(* The invariant of the joint commit protocol, as the source states it: if *)
(* all hosts have a new archive then these are coherent, and if not all    *)
(* hosts have one then the main archives are coherent (update.ml, "CRASH   *)
(* RECOVERY").  Coherent archives come from one commit and are equal.      *)
Coherent ==
  IF AllNew THEN \A h, k \in Hosts : new[h] = new[k]
            ELSE \A h, k \in Hosts : main[h] = main[k]

(* The state the next run starts from, after recovery if need be.          *)
Stored == IF AllNew THEN new[Client] ELSE main[Client]

(* Taken together, the files are one stored state that changes in a single *)
(* step, whatever crashes: commitUpdates and doArchiveCrashRecovery.       *)
Store == INSTANCE ArchiveStore WITH stored <- Stored
StoreSpec == Store!Spec

(* A run never starts from archives of different commits, nor from a       *)
(* process that has none: loadArchives and findUpdatesOnPaths.             *)
LoadsCoherent ==
  [][\A s \in Sessions :
       phase[s] # "ready" /\ phase'[s] = "ready" /\ goal[s] = "load" =>
         \A h, k \in Hosts : mem'[s][h] = mem'[s][k] /\ mem'[s][h] # Unset]_vars

(* A run that does not ignore the archives starts from the stored state.   *)
LoadsStored ==
  [][\A s \in Sessions :
       phase[s] # "ready" /\ phase'[s] = "ready" /\ goal[s] = "load"
         /\ ~ignore[s] => \A h \in Hosts : mem'[s][h] = Stored.arc]_vars

(* Two runs never work on the archive files of one host at the same time,  *)
(* and the one that does still owns the lock: lockArchives, commitUpdates  *)
(* and the recovery of findUpdatesOnPaths.                                 *)
Works(s, h) == /\ h \in todo[s] /\ h \in up[s]
               /\ phase[s] \in LockedPhases
OneWriter ==
  \A s \in Sessions, h \in Hosts : Works(s, h) => lock[h] = s

(* Why it is the owner: the locks a client has still to release are those  *)
(* of its own processes, and from the answers to lockArchives to the first *)
(* release it holds all of them (commitUpdates, findUpdatesOnPaths).       *)
LocksHeld ==
  \A s \in Sessions : \A h \in up[s] :
    /\ h \in undo[s] => lock[h] = s
    /\ phase[s] = "lock" /\ error[s] = "none" /\ h \notin todo[s] \cup refused[s]
         => lock[h] = s
    /\ phase[s] \in LockedPhases /\ (error[s] = "none" \/ h \in todo[s])
         => lock[h] = s

(* What the protocol says is about sessions that can still act: the client *)
(* runs, or servers of a dead one have a command to finish.                *)
Busy(s) == \E h \in Hosts : Works(s, h)
Live(s) == Client \in up[s] \/ Busy(s)

(* A new archive that the protocol left behind is gone before the client   *)
(* has loaded the archives, and stays away until it commits: a commit      *)
(* never meets an older new archive on another host.  This needs the       *)
(* recovery in findUpdates, since commitUpdates does not look.             *)
NoLeftover ==
  \A s \in Sessions :
    /\ Live(s)
    /\ \/ phase[s] \in {"ready", "changed", "prepare", "verify", "load", "unlock"}
       \/ phase[s] = "lock" /\ goal[s] = "commit"
    => \A h \in Hosts : ~Exists(new[h])

(* What the client knows of the disk in each phase: the answers it waits   *)
(* for stay true until it has acted upon them.                             *)
Knowledge ==
  \A s \in Sessions : Live(s) => \A h \in Hosts :
    /\ phase[s] = "optimistic" /\ error[s] = "none"
         /\ (h \in half[s] \/ h \notin todo[s] \cup refused[s]) => ~Exists(new[h])
    /\ phase[s] = "exists" /\ h \notin todo[s] =>
         (h \in seen[s].new <=> Exists(new[h]))
    /\ phase[s] = "post" => Exists(new[h])
    /\ phase[s] = "post" /\ error[s] = "none" /\ h \notin todo[s] =>
         main[h] = new[h]
    /\ phase[s] = "clean" /\ error[s] = "none" /\ h \notin todo[s] =>
         ~Exists(new[h])
    /\ phase[s] = "prepare" /\ error[s] = "none" =>
         magic[s] = clock /\ main[h].magic < clock
    /\ phase[s] = "prepare" /\ error[s] = "none" /\ h \notin todo[s] =>
         scratch[h] = got[s][h] /\ scratch[h].magic = clock

(* What the client does in the two phases that change what is stored.      *)
Switching ==
  \A s \in Sessions : Live(s) => \A h, k \in Hosts :
    /\ phase[s] = "commit" =>
         /\ main[h] = main[k] /\ main[h].magic < clock
         /\ h \in todo[s] => /\ ~Exists(new[h]) /\ scratch[h].magic = clock
                             /\ k \in todo[s] => scratch[h] = scratch[k]
                             /\ Exists(new[k]) => scratch[h] = new[k]
         /\ Exists(new[h]) => new[h].magic = clock
         /\ Exists(new[h]) /\ Exists(new[k]) => new[h] = new[k]
         /\ error[s] = "none" /\ h \notin todo[s] => Exists(new[h])
    /\ phase[s] = "clean" =>
         /\ main[h] = main[k]
         /\ AllNew => new[h] = main[h]

(* No file is newer than the last commit, and only a main archive that can *)
(* be made again from the new ones is ever left unfinished.                *)
Ordered ==
  \A h \in Hosts :
    /\ main[h].magic <= clock /\ new[h].magic <= clock
    /\ new[h] # Torn /\ scratch[h] # Torn
    /\ main[h] = Torn => AllNew

(* What the client tracks about its own commands.                          *)
Bookkeeping ==
  \A s \in Sessions :
    /\ ~ignore[s]
    /\ half[s] \subseteq todo[s] \cap up[s]
    /\ phase[s] \in {"idle", "ready", "changed", "verify", "unlock"} => todo[s] = {}
    /\ phase[s] \in {"prepare", "commit"} => clock > 0
    /\ phase[s] = "exists" => seen[s].new \cap todo[s] = {}
    /\ phase[s] = "optimistic" => goal[s] = "load"

(* Servers of a killed client may finish what they were sent while the     *)
(* next client starts; but from the time it trusts what it has read, or    *)
(* writes, none of them does.                                              *)
Engaged(s) ==
  \/ Busy(s)
  \/ /\ Client \in up[s] /\ phase[s] \notin {"idle", "optimistic"}
     /\ phase[s] = "lock" => goal[s] = "commit"

Alone ==
  /\ \A s \in Sessions : conn[s] => up[s] = Hosts
  /\ \A s, t \in Sessions : s # t =>
       /\ Client \in up[s] => Client \notin up[t]
       /\ Engaged(s) => ~Busy(t)
       /\ Client \in up[s] /\ phase[s] = "optimistic" /\ error[s] = "none" =>
            \A h \in Hosts :
              h \in half[s] \/ h \notin todo[s] \cup refused[s] => ~Works(t, h)

(* The joint commit protocol, with one client at a time: what makes        *)
(* Coherent hold between any two file operations of update.ml (inductive). *)
Protocol ==
  NoLeftover /\ Knowledge /\ Switching /\ Ordered /\ Bookkeeping /\ Alone

(* Every run comes to an end, in one way or another: findUpdates and       *)
(* commitUpdates never wait for an answer that cannot come.                *)
RunsEnd ==
  \A s \in Sessions :
    phase[s] \notin {"idle", "ready", "changed"} ~>
      phase[s] \in {"idle", "ready"} \/ up[s] = {}
=============================================================================
