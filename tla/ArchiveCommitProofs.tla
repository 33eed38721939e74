------------------------ MODULE ArchiveCommitProofs ------------------------
(***************************************************************************)
(* Theorems about ArchiveCommit, for every number of hosts, clients and    *)
(* commits and every combination of faults: typing, mutual exclusion of    *)
(* the clients, and, for one client at a time, the joint commit protocol   *)
(* and its refinement of ArchiveStore.                                     *)
(***************************************************************************)
EXTENDS ArchiveCommit, TLAPS

-----------------------------------------------------------------------------
(* Typing.                                                                 *)

LEMMA FileTypes ==
  /\ Blank \in Files /\ Torn \in Files
  /\ \A m \in 0 .. MaxCommit, c \in Contents \cup {NoArchive} :
       [magic |-> m, arc |-> c] \in Files
  /\ \A file \in Files : file.arc \in Contents \cup {NoArchive}
  BY OptionAssumption DEF Files, Blank, Torn

LEMMA InitTypeOK == Init => TypeOK
  BY HostsAssumption, OptionAssumption, FileTypes DEF Init, TypeOK, Phases, Errors

Memory == Contents \cup {NoArchive, Unset}

(* The helpers of the handlers, one variable group each.                   *)
LEMMA RememberType ==
  ASSUME TypeOK, NEW s \in Sessions, NEW h \in Hosts,
         NEW content \in Memory, NEW file \in Files, Remember(s, h, content, file)
  PROVE  /\ mem' \in [Sessions -> [Hosts -> Memory]]
         /\ info' \in [Sessions -> [Hosts -> Files]]
  BY DEF TypeOK, Remember, Memory

LEMMA AnswerType ==
  ASSUME TypeOK, NEW s \in Sessions, NEW h \in Hosts, NEW file \in Files,
         Answer(s, h, file)
  PROVE  /\ refused' = refused /\ seen' = seen
         /\ got' \in [Sessions -> [Hosts -> Files]]
<1>1. [got[s] EXCEPT ![h] = file] \in [Hosts -> Files]  BY DEF TypeOK
<1> QED BY <1>1 DEF TypeOK, Answer

LEMMA ProgressType ==
  ASSUME TypeOK, NEW s \in Sessions, NEW h \in Hosts,
         \/ Done(s, h) \/ Halfway(s, h)
  PROVE  /\ todo' \in [Sessions -> SUBSET Hosts]
         /\ half' \in [Sessions -> SUBSET Hosts]
<1>1. todo[s] \in SUBSET Hosts /\ half[s] \in SUBSET Hosts  BY DEF TypeOK
<1>2. CASE Done(s, h)     BY <1>1, <1>2 DEF TypeOK, Done
<1>3. CASE Halfway(s, h)  BY <1>1, <1>3 DEF TypeOK, Halfway
<1> QED BY <1>2, <1>3

AnswersTyped == /\ refused \in [Sessions -> SUBSET Hosts]
                /\ got \in [Sessions -> [Hosts -> Files]]
                /\ seen \in [Sessions -> [main : SUBSET Hosts, new : SUBSET Hosts]]

LEMMA RefuseType ==
  ASSUME TypeOK, NEW s \in Sessions, NEW h \in Hosts, Refuse(s, h)
  PROVE  AnswersTyped'
  BY DEF TypeOK, Refuse, AnswersTyped

(* What a host does keeps the types.                                       *)
LEMMA HandlerTypeOK ==
  ASSUME TypeOK, NEW s \in Sessions, NEW h \in Hosts, Handler(s, h)
  PROVE  TypeOK'
<1> USE DEF disk, caches, proc, answers, client
<1>1. CASE ClearArchive(s, h)
  BY <1>1, FileTypes, RememberType, AnswerType, ProgressType
     DEF ClearArchive, TypeOK, Memory
<1>2. CASE OptimisticCheck(s, h)
  <2>1. AnswersTyped'
    BY <1>2, RefuseType DEF OptimisticCheck, TypeOK, AnswersTyped
  <2> QED BY <1>2, <2>1, ProgressType DEF OptimisticCheck, TypeOK, AnswersTyped
<1>3. CASE OptimisticRead(s, h)
  <2>1. main[h] \in Files  BY DEF TypeOK
  <2>2. main[h].arc \in Memory  BY <2>1, FileTypes DEF Memory
  <2>3. AnswersTyped'
    BY <1>3, <2>1, FileTypes, RefuseType, AnswerType
       DEF OptimisticRead, TypeOK, AnswersTyped
  <2>4. /\ mem' \in [Sessions -> [Hosts -> Memory]]
        /\ info' \in [Sessions -> [Hosts -> Files]]
    BY <1>3, <2>1, <2>2, RememberType DEF OptimisticRead, TypeOK, Memory
  <2> QED BY <1>3, <2>3, <2>4, ProgressType
             DEF OptimisticRead, TypeOK, AnswersTyped, Memory
<1>4. CASE LockArchive(s, h)
  <2>1. AnswersTyped'
    BY <1>4, RefuseType DEF LockArchive, TypeOK, AnswersTyped
  <2>2. lock' \in [Hosts -> Sessions \cup {Nobody, Dead}]
    BY <1>4 DEF LockArchive, TypeOK
  <2> QED BY <1>4, <2>1, <2>2, ProgressType DEF LockArchive, TypeOK, AnswersTyped
<1>5. CASE ArchivesExist(s, h)
  <2>1. seen' \in [Sessions -> [main : SUBSET Hosts, new : SUBSET Hosts]]
    BY <1>5 DEF ArchivesExist, TypeOK
  <2> QED BY <1>5, <2>1, ProgressType DEF ArchivesExist, TypeOK
<1>6. CASE PostCommitUnlink(s, h)
  BY <1>6, FileTypes, ProgressType DEF PostCommitUnlink, TypeOK
<1>7. CASE PostCommitCreate(s, h)
  BY <1>7, FileTypes DEF PostCommitCreate, TypeOK
<1>8. CASE PostCommitLink(s, h)
  BY <1>8, ProgressType DEF PostCommitLink, TypeOK
<1>9. CASE RemoveArchive(s, h)
  BY <1>9, FileTypes, ProgressType DEF RemoveArchive, TypeOK
<1>10. CASE LoadArchive(s, h)
  <2>1. main[h] \in Files  BY DEF TypeOK
  <2>2. main[h].arc \in Memory /\ NoArchive \in Memory  BY <2>1, FileTypes DEF Memory
  <2>3. /\ mem' \in [Sessions -> [Hosts -> Memory]]
        /\ info' \in [Sessions -> [Hosts -> Files]]
    BY <1>10, <2>1, <2>2, FileTypes, RememberType DEF LoadArchive
  <2> QED BY <1>10, <2>1, <2>3, AnswerType, ProgressType
             DEF LoadArchive, TypeOK, Memory
<1>11. CASE PrepareCommit(s, h)
  <2> DEFINE file == [magic |-> magic[s], arc |-> mem[s][h]]
  <2>1. file \in Files
    BY <1>11, FileTypes DEF PrepareCommit, TypeOK
  <2> QED BY <1>11, <2>1, AnswerType, ProgressType DEF PrepareCommit, TypeOK
<1>12. CASE CommitArchive(s, h)
  BY <1>12, FileTypes, ProgressType DEF CommitArchive, TypeOK
<1>13. CASE UnlockArchive(s, h)
  BY <1>13 DEF UnlockArchive, TypeOK
<1> QED BY <1>1, <1>2, <1>3, <1>4, <1>5, <1>6, <1>7, <1>8, <1>9, <1>10, <1>11,
           <1>12, <1>13 DEF Handler

(* The helpers of the client.                                              *)
ProgressTyped == /\ phase \in [Sessions -> Phases]
                 /\ todo \in [Sessions -> SUBSET Hosts]
                 /\ error \in [Sessions -> Errors]
                 /\ undo \in [Sessions -> SUBSET Hosts]

LEMMA ForgetType ==
  ASSUME TypeOK, NEW s \in Sessions, ForgetAnswers(s)
  PROVE  AnswersTyped'
<1>1. [h \in Hosts |-> Blank] \in [Hosts -> Files]  BY FileTypes
<1> QED BY <1>1 DEF TypeOK, ForgetAnswers, AnswersTyped

LEMMA SettleType ==
  ASSUME TypeOK, NEW s \in Sessions, NEW p \in Phases,
         Send(s, p) \/ Settle(s, p)
  PROVE  ProgressTyped'
<1>1. CASE Send(s, p)    BY <1>1 DEF TypeOK, Send, ProgressTyped
<1>2. CASE Settle(s, p)  BY <1>2 DEF TypeOK, Settle, ProgressTyped
<1> QED BY <1>1, <1>2

LEMMA FailType ==
  ASSUME TypeOK, NEW s \in Sessions,
         \/ Release(s)
         \/ \E e \in Errors, locked \in SUBSET Hosts : Fail(s, e, locked)
  PROVE  ProgressTyped'
<1>1. CASE Release(s)  BY <1>1 DEF TypeOK, Release, ProgressTyped, Phases
<1>2. ASSUME NEW e \in Errors, NEW locked \in SUBSET Hosts, Fail(s, e, locked)
      PROVE  ProgressTyped'
  BY <1>2 DEF TypeOK, Fail, ProgressTyped
<1> QED BY <1>1, <1>2

LEMMA ClientTypeOK ==
  ASSUME TypeOK, NEW s \in Sessions,
         ClientStep(s) \/ FindUpdates(s) \/ Propagate(s) \/ CommitUpdates(s)
           \/ Start(s) \/ Disconnect(s)
  PROVE  TypeOK'
<1> USE DEF disk, caches, proc, answers, client, outside
<1>a. {"idle", "optimistic", "lock", "exists", "post", "clean", "verify",
       "load", "unlock", "ready", "changed", "prepare", "commit"} \subseteq Phases
  BY DEF Phases
<1>e. {"none", "locked", "missing", "diskdiffer", "newdiffer", "io"} \subseteq Errors
  BY DEF Errors
<1>1. CASE AfterOptimistic(s)
  BY <1>1, <1>a, ForgetType, SettleType
     DEF AfterOptimistic, TypeOK, AnswersTyped, ProgressTyped
<1>2. CASE AfterLock(s)
  <2>1. AnswersTyped'  BY <1>2, ForgetType DEF AfterLock
  <2>2. ProgressTyped'
    BY <1>2, <1>a, <1>e, SettleType, FailType DEF AfterLock
  <2>3. clock' \in 0 .. MaxCommit
    BY <1>2, OptionAssumption DEF AfterLock, TypeOK
  <2>4. CASE UNCHANGED magic
    BY <1>2, <2>1, <2>2, <2>3, <2>4
       DEF AfterLock, TypeOK, AnswersTyped, ProgressTyped
  <2>5. CASE magic' = [magic EXCEPT ![s] = clock'] /\ UNCHANGED goal
    <3>1. magic' \in [Sessions -> 0 .. MaxCommit]  BY <2>3, <2>5 DEF TypeOK
    <3> QED BY <1>2, <2>1, <2>2, <2>3, <3>1
               DEF AfterLock, TypeOK, AnswersTyped, ProgressTyped
  <2> QED BY <1>2, <2>4, <2>5 DEF AfterLock
<1>3. CASE AfterExists(s)
  <2>1. ProgressTyped'  BY <1>3, <1>a, SettleType DEF AfterExists
  <2> QED BY <1>3, <2>1 DEF AfterExists, TypeOK, ProgressTyped
<1>4. CASE AfterPostCommit(s)
  BY <1>4, <1>a, SettleType DEF AfterPostCommit, TypeOK, ProgressTyped
<1>5. CASE AfterClean(s)
  <2>1. ProgressTyped'  BY <1>5, <1>a, SettleType, FailType DEF AfterClean
  <2> QED BY <1>5, <2>1 DEF AfterClean, TypeOK, ProgressTyped
<1>6. CASE VerifyMain(s)
  <2>1. AnswersTyped'  BY <1>6, ForgetType DEF VerifyMain
  <2>2. ProgressTyped'  BY <1>6, <1>a, <1>e, SettleType, FailType DEF VerifyMain
  <2> QED BY <1>6, <2>1, <2>2 DEF VerifyMain, TypeOK, AnswersTyped, ProgressTyped
<1>7. CASE AfterLoad(s)
  <2>1. AnswersTyped'  BY <1>7, ForgetType DEF AfterLoad
  <2>2. ProgressTyped'  BY <1>7, <1>a, <1>e, FailType DEF AfterLoad
  <2> QED BY <1>7, <2>1, <2>2 DEF AfterLoad, TypeOK, AnswersTyped, ProgressTyped
<1>8. CASE AfterPrepare(s)
  <2>1. AnswersTyped'  BY <1>8, ForgetType DEF AfterPrepare
  <2>2. ProgressTyped'  BY <1>8, <1>a, <1>e, SettleType, FailType DEF AfterPrepare
  <2>3. magic' \in [Sessions -> 0 .. MaxCommit]
    BY <1>8, OptionAssumption DEF AfterPrepare, TypeOK
  <2> QED BY <1>8, <2>1, <2>2, <2>3 DEF AfterPrepare, TypeOK, AnswersTyped, ProgressTyped
<1>9. CASE AfterCommit(s)
  BY <1>9, <1>a, SettleType DEF AfterCommit, TypeOK, ProgressTyped
<1>10. CASE AfterUnlock(s)
  BY <1>10, <1>a, ForgetType, SettleType
     DEF AfterUnlock, TypeOK, AnswersTyped, ProgressTyped
<1>11. CASE GiveUp(s)
  <2>1. AnswersTyped'  BY <1>11, ForgetType DEF GiveUp
  <2>2. magic' \in [Sessions -> 0 .. MaxCommit]
    BY <1>11, OptionAssumption DEF GiveUp, TypeOK
  <2> QED BY <1>11, <1>a, <2>1, <2>2 DEF GiveUp, TypeOK, AnswersTyped
<1>12. CASE FindUpdates(s)
  BY <1>12, <1>a, <1>e DEF FindUpdates, TypeOK
<1>13. CASE Propagate(s)
  <2>1. mem' \in [Sessions -> [Hosts -> Memory]]
    BY <1>13 DEF Propagate, TypeOK, Memory
  <2>2. ProgressTyped'  BY <1>13, <1>a, SettleType DEF Propagate
  <2> QED BY <1>13, <2>1, <2>2 DEF Propagate, TypeOK, ProgressTyped, Memory
<1>14. CASE CommitUpdates(s)
  <2>1. ProgressTyped'  BY <1>14, <1>a, SettleType DEF CommitUpdates
  <2> QED BY <1>14, <2>1 DEF CommitUpdates, TypeOK, ProgressTyped
<1>15. CASE Start(s)
  <2>1. AnswersTyped'  BY <1>15, ForgetType DEF Start
  <2>2. /\ phase' \in [Sessions -> Phases] /\ error' \in [Sessions -> Errors]
        /\ ignore' \in [Sessions -> BOOLEAN] /\ conn' \in [Sessions -> BOOLEAN]
        /\ goal' \in [Sessions -> {"load", "commit"}]
    BY <1>15, <1>a, <1>e DEF Start, TypeOK
  <2>3. /\ up' \in [Sessions -> SUBSET Hosts] /\ todo' \in [Sessions -> SUBSET Hosts]
        /\ undo' \in [Sessions -> SUBSET Hosts]
        /\ magic' \in [Sessions -> 0 .. MaxCommit]
    BY <1>15, OptionAssumption DEF Start, TypeOK
  <2> QED BY <1>15, <2>1, <2>2, <2>3 DEF Start, TypeOK, AnswersTyped
<1>16. CASE Disconnect(s)
  BY <1>16 DEF Disconnect, TypeOK
<1> QED BY <1>1, <1>2, <1>3, <1>4, <1>5, <1>6, <1>7, <1>8, <1>9, <1>10, <1>11,
           <1>12, <1>13, <1>14, <1>15, <1>16 DEF ClientStep

LEMMA FaultTypeOK ==
  ASSUME TypeOK, NEW s \in Sessions, NEW h \in Hosts,
         CommandFails(s, h) \/ Leave(s, h) \/ Kill(s, h)
  PROVE  TypeOK'
<1> USE DEF disk, caches, proc, answers, client
<1>1. CASE CommandFails(s, h)
  <2>1. error' \in [Sessions -> Errors] /\ undo' \in [Sessions -> SUBSET Hosts]
    BY <1>1 DEF CommandFails, TypeOK, Errors
  <2> QED BY <1>1, <2>1, ProgressType DEF CommandFails, TypeOK
<1>2. Remember(s, h, Unset, Blank) =>
        /\ mem' \in [Sessions -> [Hosts -> Memory]]
        /\ info' \in [Sessions -> [Hosts -> Files]]
  BY RememberType, FileTypes DEF Memory
<1>3. CASE Leave(s, h)
  <2>1. /\ mem' \in [Sessions -> [Hosts -> Memory]]
        /\ info' \in [Sessions -> [Hosts -> Files]]
    BY <1>2, <1>3 DEF Leave, TypeOK, Memory
  <2>2. /\ lock' \in [Hosts -> Sessions \cup {Nobody, Dead}]
        /\ up' \in [Sessions -> SUBSET Hosts]
    BY <1>3 DEF Leave, TypeOK
  <2> QED BY <1>3, <2>1, <2>2 DEF Leave, TypeOK, Memory
<1>4. CASE Kill(s, h)
  <2>1. /\ lock' \in [Hosts -> Sessions \cup {Nobody, Dead}]
        /\ up' \in [Sessions -> SUBSET Hosts] /\ conn' \in [Sessions -> BOOLEAN]
        /\ half' \in [Sessions -> SUBSET Hosts]
    BY <1>4 DEF Kill, TypeOK
  <2> QED BY <1>2, <1>4, <2>1 DEF Kill, TypeOK, Memory
<1> QED BY <1>1, <1>3, <1>4

LEMMA NextTypeOK ==
  ASSUME TypeOK, [Next]_vars
  PROVE  TypeOK'
<1>1. CASE UNCHANGED vars
  BY <1>1 DEF vars, disk, caches, proc, answers, TypeOK
<1>2. ASSUME NEW h \in Hosts, RemoveStaleLock(h) PROVE TypeOK'
  BY <1>2 DEF RemoveStaleLock, TypeOK, disk, caches, proc, answers, client
<1>3. ASSUME NEW s \in Sessions, NEW h \in Hosts,
             Handler(s, h) \/ CommandFails(s, h) \/ Leave(s, h) \/ Kill(s, h)
      PROVE  TypeOK'
  BY <1>3, HandlerTypeOK, FaultTypeOK
<1>4. ASSUME NEW s \in Sessions,
             ClientStep(s) \/ FindUpdates(s) \/ Propagate(s) \/ CommitUpdates(s)
               \/ Start(s) \/ Disconnect(s)
      PROVE  TypeOK'
  BY <1>4, ClientTypeOK
<1> QED BY <1>1, <1>2, <1>3, <1>4 DEF Next

(* Every variable keeps its type, for all parameters: in particular a file *)
(* always holds a commit that was begun (TypeOK).                          *)
THEOREM TypeCorrect == Spec => []TypeOK
<1>1. TypeOK /\ [Next]_vars => TypeOK'  BY NextTypeOK
<1> QED BY <1>1, InitTypeOK, PTL DEF Spec

-----------------------------------------------------------------------------
(* Mutual exclusion.  LocksHeld is inductive once it is known when a       *)
(* client has locks to release: never while it goes on working.            *)

Releasing ==
  \A s \in Sessions :
    undo[s] # {} => \/ phase[s] = "unlock"
                    \/ error[s] # "none" /\ phase[s] \notin {"idle", "ready"}

LockInv == TypeOK /\ Releasing /\ LocksHeld

LEMMA RefuseGrows ==
  ASSUME TypeOK, NEW s \in Sessions, NEW h \in Hosts, Refuse(s, h)
  PROVE  \A t \in Sessions : refused[t] \subseteq refused'[t]
<1> SUFFICES ASSUME NEW t \in Sessions PROVE refused[t] \subseteq refused'[t]
  OBVIOUS
<1>1. refused'[t] = IF t = s THEN refused[t] \cup {h} ELSE refused[t]
  BY DEF TypeOK, Refuse
<1> QED BY <1>1

(* A command at one host: the locks the others rely on stay.               *)
LEMMA HandlerLocks ==
  ASSUME LockInv, NEW s \in Sessions, NEW h \in Hosts, Handler(s, h)
  PROVE  (Releasing /\ LocksHeld)'
<1> USE DEF LockInv, disk, caches, proc, answers, client
<1>1. CASE /\ UNCHANGED <<lock, up, client>> /\ Done(s, h)
           /\ \A t \in Sessions : refused[t] \subseteq refused'[t]
           /\ phase[s] # "lock"
  BY <1>1 DEF TypeOK, Releasing, LocksHeld, Done
<1>2. CASE UNCHANGED <<lock, up, client, refused, todo>>
  BY <1>2 DEF TypeOK, Releasing, LocksHeld
<1>3. CASE ClearArchive(s, h)
  BY <1>1, <1>3 DEF ClearArchive, Answer, Runs
<1>4. CASE OptimisticCheck(s, h)
  <2>1. \A t \in Sessions : refused[t] \subseteq refused'[t]
    BY <1>4, RefuseGrows DEF OptimisticCheck
  <2> QED BY <1>1, <1>2, <1>4, <2>1 DEF OptimisticCheck, Halfway, Runs
<1>5. CASE OptimisticRead(s, h)
  <2>1. \A t \in Sessions : refused[t] \subseteq refused'[t]
    BY <1>5, RefuseGrows DEF OptimisticRead, Answer
  <2> QED BY <1>1, <1>5, <2>1 DEF OptimisticRead, Runs
<1>6. CASE LockArchive(s, h)
  BY <1>6, OwnerAssumption
     DEF LockArchive, Runs, Refuse, Done, TypeOK, Releasing, LocksHeld, LockedPhases
<1>7. CASE ArchivesExist(s, h)
  BY <1>1, <1>7 DEF ArchivesExist, Runs
<1>8. CASE PostCommitUnlink(s, h)
  BY <1>2, <1>8 DEF PostCommitUnlink, Halfway
<1>9. CASE PostCommitCreate(s, h)
  BY <1>2, <1>9 DEF PostCommitCreate
<1>10. CASE PostCommitLink(s, h)
  BY <1>1, <1>10 DEF PostCommitLink, Runs
<1>11. CASE RemoveArchive(s, h)
  BY <1>1, <1>11 DEF RemoveArchive, Runs
<1>12. CASE LoadArchive(s, h)
  BY <1>1, <1>12 DEF LoadArchive, Answer, Runs
<1>13. CASE PrepareCommit(s, h)
  BY <1>1, <1>13 DEF PrepareCommit, Answer, Runs
<1>14. CASE CommitArchive(s, h)
  BY <1>1, <1>14 DEF CommitArchive, Runs
<1>15. CASE UnlockArchive(s, h)
  <2>1. lock[h] = s /\ undo[s] # {}
    BY <1>15 DEF UnlockArchive, LocksHeld
  <2>2. phase[s] \in LockedPhases \cup {"lock"} => error[s] # "none"
    BY <2>1 DEF Releasing, LockedPhases
  <2>3. \A t \in Sessions : undo'[t] = IF t = s THEN undo[t] \ {h} ELSE undo[t]
    BY <1>15 DEF UnlockArchive, TypeOK
  <2>4. Releasing'
    BY <1>15, <2>3 DEF UnlockArchive, Releasing
  <2>5. ASSUME NEW t \in Sessions, NEW k \in up[t]
        PROVE  /\ k \in undo'[t] => lock'[k] = t
               /\ phase[t] = "lock" /\ error[t] = "none"
                    /\ k \notin todo[t] \cup refused[t] => lock'[k] = t
               /\ phase[t] \in LockedPhases
                    /\ (error[t] = "none" \/ k \in todo[t]) => lock'[k] = t
    <3>1. lock'[k] = IF k = h THEN Nobody ELSE lock[k]
      BY <1>15, <2>5 DEF UnlockArchive, TypeOK
    <3>2. CASE t = s /\ k = h
      BY <1>15, <2>2, <2>3, <2>5, <3>2 DEF UnlockArchive
    <3>3. CASE t # s /\ k = h
      BY <2>1, <2>3, <2>5, <3>3 DEF LocksHeld
    <3>4. CASE k # h
      BY <2>3, <2>5, <3>1, <3>4 DEF LocksHeld
    <3> QED BY <3>2, <3>3, <3>4
  <2>6. LocksHeld'
    BY <1>15, <2>5 DEF UnlockArchive, LocksHeld
  <2> QED BY <2>4, <2>6
<1> QED BY <1>3, <1>4, <1>5, <1>6, <1>7, <1>8, <1>9, <1>10, <1>11, <1>12,
           <1>13, <1>14, <1>15 DEF Handler

(* The progress of client s after a step of its own, or of one of its      *)
(* hosts, and that of the other clients.                                   *)
Moved(s, p, hosts, e, locked) ==
  /\ phase'[s] = p /\ todo'[s] = hosts /\ error'[s] = e /\ undo'[s] = locked
  /\ \A t \in Sessions \ {s} :
       /\ phase'[t] = phase[t] /\ todo'[t] = todo[t]
       /\ error'[t] = error[t] /\ undo'[t] = undo[t]

LEMMA SendMoves ==
  ASSUME TypeOK, NEW s \in Sessions, NEW p, Send(s, p)
  PROVE  Moved(s, p, Hosts, error[s], undo[s])
  BY DEF TypeOK, Send, Moved

LEMMA SettleMoves ==
  ASSUME TypeOK, NEW s \in Sessions, NEW p, Settle(s, p)
  PROVE  Moved(s, p, todo[s], error[s], undo[s])
  BY DEF TypeOK, Settle, Moved

LEMMA FailMoves ==
  ASSUME TypeOK, NEW s \in Sessions, NEW e, NEW locked, Fail(s, e, locked)
  PROVE  Moved(s, phase[s], todo[s], e, locked)
  BY DEF TypeOK, Fail, Moved

LEMMA ReleaseMoves ==
  ASSUME TypeOK, NEW s \in Sessions, Release(s)
  PROVE  Moved(s, "unlock", todo[s], error[s], Hosts)
  BY DEF TypeOK, Release, Moved

Forgotten(s) ==
  /\ refused'[s] = {} /\ seen'[s] = [main |-> {}, new |-> {}]
  /\ \A h \in Hosts : got'[s][h] = Blank
  /\ \A t \in Sessions \ {s} :
       refused'[t] = refused[t] /\ got'[t] = got[t] /\ seen'[t] = seen[t]

LEMMA ForgetForgets ==
  ASSUME TypeOK, NEW s \in Sessions, ForgetAnswers(s)
  PROVE  Forgotten(s)
  BY DEF TypeOK, ForgetAnswers, Forgotten

(* What LocksHeld and Releasing say of one client and one host.            *)
Claim(s, h) ==
  /\ h \in undo[s] => lock[h] = s
  /\ phase[s] = "lock" /\ error[s] = "none" /\ h \notin todo[s] \cup refused[s]
       => lock[h] = s
  /\ phase[s] \in LockedPhases /\ (error[s] = "none" \/ h \in todo[s])
       => lock[h] = s

ReleasingOne(s) ==
  undo[s] # {} => \/ phase[s] = "unlock"
                  \/ error[s] # "none" /\ phase[s] \notin {"idle", "ready"}

(* A step of client s that leaves the locks alone is safe for the others.  *)
LEMMA OwnStep ==
  ASSUME LockInv, NEW s \in Sessions, UNCHANGED lock, TypeOK',
         \A t \in Sessions \ {s} : up'[t] = up[t] /\ refused'[t] = refused[t],
         NEW p, NEW hosts, NEW e, NEW locked, Moved(s, p, hosts, e, locked),
         ReleasingOne(s)', \A h \in up'[s] : Claim(s, h)'
  PROVE  (Releasing /\ LocksHeld)'
<1>1. Releasing'
  BY DEF LockInv, Releasing, ReleasingOne, Moved
<1>2. ASSUME NEW t \in Sessions, NEW h \in up'[t] PROVE Claim(t, h)'
  <2>1. CASE t = s  BY <2>1, <1>2
  <2>2. CASE t # s
    <3>1. h \in up[t] /\ t \in Sessions \ {s}  BY <1>2, <2>2
    <3>2. Claim(t, h)  BY <3>1 DEF LockInv, LocksHeld, Claim
    <3> QED BY <3>1, <3>2 DEF Claim, Moved
  <2> QED BY <2>1, <2>2
<1>3. LocksHeld'
  BY <1>2 DEF LocksHeld, Claim
<1> QED BY <1>1, <1>3

(* A step of a client: it only claims locks it has been given.             *)
LEMMA ClientLocks ==
  ASSUME LockInv, NEW s \in Sessions, TypeOK',
         ClientStep(s) \/ FindUpdates(s) \/ Propagate(s) \/ CommitUpdates(s)
           \/ Start(s) \/ Disconnect(s)
  PROVE  (Releasing /\ LocksHeld)'
<1> USE DEF disk, caches, proc, answers, client, outside
<1>t. TypeOK /\ ReleasingOne(s) /\ \A h \in up[s] : Claim(s, h)
  BY DEF LockInv, Releasing, ReleasingOne, LocksHeld, Claim
<1>u. up[s] \subseteq Hosts  BY <1>t DEF TypeOK
<1>1. CASE AfterOptimistic(s)
  <2>1. Forgotten(s)  BY <1>1, <1>t, ForgetForgets DEF AfterOptimistic
  <2>2. CASE Settle(s, "ready")
    <3>1. Moved(s, "ready", todo[s], error[s], undo[s])  BY <1>t, <2>2, SettleMoves
    <3>2. ReleasingOne(s)' /\ \A h \in up'[s] : Claim(s, h)'
      BY <1>1, <1>t, <3>1
         DEF AfterOptimistic, Decides, Moved, ReleasingOne, Claim, LockedPhases
    <3> QED BY <1>1, <2>1, <3>1, <3>2, OwnStep DEF AfterOptimistic, Forgotten
  <2>3. CASE Send(s, "lock")
    <3>1. Moved(s, "lock", Hosts, error[s], undo[s])  BY <1>t, <2>3, SendMoves
    <3>2. ReleasingOne(s)' /\ \A h \in up'[s] : Claim(s, h)'
      BY <1>1, <1>t, <1>u, <3>1
         DEF AfterOptimistic, Decides, Moved, ReleasingOne, Claim, LockedPhases
    <3> QED BY <1>1, <2>1, <3>1, <3>2, OwnStep DEF AfterOptimistic, Forgotten
  <2> QED BY <1>1, <2>2, <2>3 DEF AfterOptimistic
<1>2. CASE AfterLock(s)
  <2>1. Forgotten(s)  BY <1>2, <1>t, ForgetForgets DEF AfterLock
  <2>2. \A h \in up[s] \ refused[s] : lock[h] = s
    BY <1>2, <1>t DEF AfterLock, Decides, Claim
  <2>3. CASE Fail(s, "locked", Hosts \ refused[s])
    <3>1. Moved(s, phase[s], todo[s], "locked", Hosts \ refused[s])
      BY <1>t, <2>3, FailMoves
    <3>2. ReleasingOne(s)' /\ \A h \in up'[s] : Claim(s, h)'
      BY <1>2, <2>2, <3>1
         DEF AfterLock, Decides, Moved, ReleasingOne, Claim, LockedPhases
    <3> QED BY <1>2, <2>1, <3>1, <3>2, OwnStep DEF AfterLock, Forgotten
  <2>4. ASSUME NEW p \in {"exists", "prepare"}, Send(s, p), refused[s] = {}
        PROVE  (Releasing /\ LocksHeld)'
    <3>1. Moved(s, p, Hosts, error[s], undo[s])  BY <1>t, <2>4, SendMoves
    <3>2. ReleasingOne(s)' /\ \A h \in up'[s] : Claim(s, h)'
      BY <1>2, <1>t, <2>2, <2>4, <3>1
         DEF AfterLock, Decides, Moved, ReleasingOne, Claim, LockedPhases
    <3> QED BY <1>2, <2>1, <3>1, <3>2, OwnStep DEF AfterLock, Forgotten
  <2> QED BY <1>2, <2>3, <2>4 DEF AfterLock
(* In the other steps the client held all the locks, or claims none.       *)
<1>3. ASSUME Decides(s, "exists") \/ Decides(s, "post") \/ Decides(s, "clean")
               \/ Decides(s, "verify") \/ Decides(s, "load")
               \/ Decides(s, "prepare") \/ Decides(s, "commit"),
             UNCHANGED <<lock, up>>,
             \A t \in Sessions \ {s} : refused'[t] = refused[t],
             \/ \E p \in LockedPhases : Send(s, p) \/ Settle(s, p)
             \/ \E e \in Errors \ {"none"} : Fail(s, e, Hosts)
             \/ Release(s)
      PROVE  (Releasing /\ LocksHeld)'
  <2>1. /\ \A h \in up[s] : lock[h] = s
        /\ undo[s] = {} /\ error[s] = "none" /\ phase[s] \in LockedPhases
    BY <1>3, <1>t DEF Decides, Claim, ReleasingOne, LockedPhases
  <2>2. ASSUME NEW p \in LockedPhases, Send(s, p) \/ Settle(s, p)
        PROVE  (Releasing /\ LocksHeld)'
    <3>1. PICK hosts : Moved(s, p, hosts, error[s], undo[s])
      BY <1>t, <2>2, SendMoves, SettleMoves
    <3>2. ReleasingOne(s)' /\ \A h \in up'[s] : Claim(s, h)'
      BY <1>3, <2>1, <3>1 DEF Moved, ReleasingOne, Claim
    <3> QED BY <1>3, <3>1, <3>2, OwnStep
  <2>3. ASSUME NEW e \in Errors \ {"none"}, Fail(s, e, Hosts)
        PROVE  (Releasing /\ LocksHeld)'
    <3>1. Moved(s, phase[s], todo[s], e, Hosts)  BY <1>t, <2>3, FailMoves
    <3>2. ReleasingOne(s)' /\ \A h \in up'[s] : Claim(s, h)'
      BY <1>3, <2>1, <2>3, <3>1 DEF Moved, ReleasingOne, Claim, LockedPhases
    <3> QED BY <1>3, <3>1, <3>2, OwnStep
  <2>4. CASE Release(s)
    <3>1. Moved(s, "unlock", todo[s], error[s], Hosts)  BY <1>t, <2>4, ReleaseMoves
    <3>2. ReleasingOne(s)' /\ \A h \in up'[s] : Claim(s, h)'
      BY <1>3, <2>1, <3>1 DEF Moved, ReleasingOne, Claim, LockedPhases
    <3> QED BY <1>3, <3>1, <3>2, OwnStep
  <2> QED BY <1>3, <2>2, <2>3, <2>4
<1>p. /\ {"exists", "post", "clean", "verify", "load", "prepare", "commit"}
           \subseteq LockedPhases
      /\ {"missing", "diskdiffer", "newdiffer"} \subseteq Errors \ {"none"}
  BY DEF LockedPhases, Errors
<1>4. CASE AfterExists(s)      BY <1>3, <1>4, <1>p DEF AfterExists
<1>5. CASE AfterPostCommit(s)  BY <1>3, <1>5, <1>p DEF AfterPostCommit
<1>6. CASE AfterClean(s)       BY <1>3, <1>6, <1>p DEF AfterClean
<1>7. CASE VerifyMain(s)
  <2>1. Forgotten(s)  BY <1>7, <1>t, ForgetForgets DEF VerifyMain
  <2> QED BY <1>3, <1>7, <1>p, <2>1 DEF VerifyMain, Forgotten
<1>8. CASE AfterLoad(s)
  <2>1. Forgotten(s)  BY <1>8, <1>t, ForgetForgets DEF AfterLoad
  <2> QED BY <1>3, <1>8, <1>p, <2>1 DEF AfterLoad, Forgotten
<1>9. CASE AfterPrepare(s)
  <2>1. Forgotten(s)  BY <1>9, <1>t, ForgetForgets DEF AfterPrepare
  <2> QED BY <1>3, <1>9, <1>p, <2>1 DEF AfterPrepare, Forgotten
<1>10. CASE AfterCommit(s)     BY <1>3, <1>10, <1>p DEF AfterCommit
<1>11. ASSUME NEW p, NEW hosts, NEW e, Moved(s, p, hosts, e, {}), UNCHANGED lock,
              \A t \in Sessions \ {s} : up'[t] = up[t] /\ refused'[t] = refused[t],
              up'[s] \subseteq Hosts,
              p \notin LockedPhases, p = "lock" => hosts = Hosts
       PROVE  (Releasing /\ LocksHeld)'
  <2>1. ReleasingOne(s)' /\ \A h \in up'[s] : Claim(s, h)'
    BY <1>11 DEF Moved, ReleasingOne, Claim
  <2> QED BY <1>11, <2>1, OwnStep
<1>q. /\ "idle" \notin LockedPhases /\ "ready" \notin LockedPhases
      /\ "changed" \notin LockedPhases /\ "optimistic" \notin LockedPhases
      /\ "lock" \notin LockedPhases
  BY DEF LockedPhases
<1>12. CASE AfterUnlock(s)
  <2>1. Forgotten(s)  BY <1>12, <1>t, ForgetForgets DEF AfterUnlock
  <2>2. Moved(s, "ready", todo[s], error[s], {})
    BY <1>12, <1>t, SettleMoves DEF AfterUnlock
  <2> QED BY <1>11, <1>12, <1>q, <1>u, <2>1, <2>2 DEF AfterUnlock, Forgotten
<1>13. CASE GiveUp(s)
  <2>1. Forgotten(s)  BY <1>13, <1>t, ForgetForgets DEF GiveUp
  <2>2. Moved(s, "idle", todo[s], error[s], {})
    BY <1>13, <1>t DEF GiveUp, Moved, TypeOK
  <2> QED BY <1>11, <1>13, <1>q, <1>u, <2>1, <2>2 DEF GiveUp, Forgotten
<1>14. CASE FindUpdates(s)
  <2>1. undo[s] = {}  BY <1>14, <1>t DEF FindUpdates, ReleasingOne
  <2>2. Moved(s, "optimistic", Hosts, "none", {})
    BY <1>14, <1>t, <2>1 DEF FindUpdates, Moved, TypeOK
  <2> QED BY <1>11, <1>14, <1>q, <1>u, <2>2 DEF FindUpdates
<1>15. CASE Propagate(s)
  <2>1. undo[s] = {}  BY <1>15, <1>t DEF Propagate, Decides, ReleasingOne
  <2>2. Moved(s, "changed", todo[s], error[s], {})
    BY <1>15, <1>t, <2>1, SettleMoves DEF Propagate
  <2> QED BY <1>11, <1>15, <1>q, <1>u, <2>2 DEF Propagate
<1>16. CASE CommitUpdates(s)
  <2>1. undo[s] = {}  BY <1>16, <1>t DEF CommitUpdates, Decides, ReleasingOne
  <2>2. Moved(s, "lock", Hosts, error[s], {})
    BY <1>16, <1>t, <2>1, SendMoves DEF CommitUpdates
  <2> QED BY <1>11, <1>16, <1>q, <1>u, <2>2 DEF CommitUpdates
<1>17. CASE Start(s)
  <2>1. Forgotten(s)  BY <1>17, <1>t, ForgetForgets DEF Start
  <2>2. Moved(s, "idle", {}, "none", {})
    BY <1>17, <1>t DEF Start, Moved, TypeOK
  <2>3. up'[s] \subseteq Hosts /\ \A t \in Sessions \ {s} : up'[t] = up[t]
    BY <1>17, <1>t DEF Start, TypeOK
  <2> QED BY <1>11, <1>17, <1>q, <2>1, <2>2, <2>3 DEF Start, Forgotten
<1>18. CASE Disconnect(s)
  BY <1>18 DEF Disconnect, LockInv, Releasing, LocksHeld
<1> QED BY <1>1, <1>2, <1>4, <1>5, <1>6, <1>7, <1>8, <1>9, <1>10,
           <1>12, <1>13, <1>14, <1>15, <1>16, <1>17, <1>18 DEF ClientStep

LEMMA FaultLocks ==
  ASSUME LockInv, NEW s \in Sessions, NEW h \in Hosts,
         CommandFails(s, h) \/ Leave(s, h) \/ Kill(s, h)
  PROVE  (Releasing /\ LocksHeld)'
<1> USE DEF LockInv, disk, caches, proc, answers, client,
            TypeOK, Releasing, LocksHeld, LockedPhases
<1>1. CASE CommandFails(s, h)
  BY <1>1 DEF CommandFails, Done
<1>2. CASE Leave(s, h)
  BY <1>2 DEF Leave
<1>3. CASE Kill(s, h)
  BY <1>3 DEF Kill
<1> QED BY <1>1, <1>2, <1>3

LEMMA InitLockInv == Init => LockInv
  BY InitTypeOK DEF Init, LockInv, Releasing, LocksHeld

LEMMA NextLocks ==
  ASSUME LockInv, [Next]_vars
  PROVE  LockInv'
<1>t. TypeOK'  BY NextTypeOK DEF LockInv
<1>1. CASE UNCHANGED vars
  BY <1>t, <1>1 DEF vars, disk, proc, answers, LockInv, Releasing, LocksHeld
<1>2. ASSUME NEW h \in Hosts, RemoveStaleLock(h) PROVE (Releasing /\ LocksHeld)'
  BY <1>2, OwnerAssumption
     DEF RemoveStaleLock, disk, caches, proc, answers, client,
         LockInv, TypeOK, Releasing, LocksHeld
<1> QED BY <1>t, <1>1, <1>2, HandlerLocks, FaultLocks, ClientLocks DEF Next, LockInv

LEMMA LockInvariant == Spec => []LockInv
<1>1. LockInv /\ [Next]_vars => LockInv'  BY NextLocks
<1> QED BY <1>1, InitLockInv, PTL DEF Spec

(* A client that works on the archive files of a host, and is going to     *)
(* release its lock, owns that lock, whatever the other clients and the    *)
(* faults do (LocksHeld: lockArchives, commitUpdates, findUpdates).        *)
THEOREM LocksAreHeld == Spec => []LocksHeld
  BY LockInvariant, PTL DEF LockInv

(* Hence two clients never work on the archive files of one host at the    *)
(* same time (OneWriter).                                                  *)
THEOREM MutualExclusion == Spec => []OneWriter
<1>1. LocksHeld => OneWriter
  BY DEF LocksHeld, OneWriter, Works
<1> QED BY <1>1, LocksAreHeld, PTL
=============================================================================
