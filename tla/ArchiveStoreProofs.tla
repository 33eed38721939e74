------------------------- MODULE ArchiveStoreProofs -------------------------
(***************************************************************************)
(* One client at a time, without -ignorearchives: the joint commit         *)
(* protocol keeps the archive files coherent, and the files of all hosts   *)
(* together implement one atomically replaced state (ArchiveStore), for    *)
(* any number of hosts, clients and commits and whatever is killed,        *)
(* disconnected or fails, also while servers of dead clients still finish  *)
(* what they were sent.  At the end: what a text client loads is that      *)
(* state, whichever of its caches it used.                                 *)
(***************************************************************************)
EXTENDS ArchiveCommitProofs

CommitInv == LockInv /\ Coherent /\ Protocol

-----------------------------------------------------------------------------
(* What Protocol says of one session.                                      *)

NoLeftoverOne(s) ==
  \/ phase[s] \in {"ready", "changed", "prepare", "verify", "load", "unlock"}
  \/ phase[s] = "lock" /\ goal[s] = "commit"
  => \A h \in Hosts : ~Exists(new[h])

KnowledgeOne(s) ==
  \A h \in Hosts :
    /\ phase[s] = "optimistic" /\ error[s] = "none"
         /\ (h \in half[s] \/ h \notin todo[s] \cup refused[s]) => ~Exists(new[h])
    /\ phase[s] = "exists" /\ h \notin todo[s] =>
         (h \in seen[s].new <=> Exists(new[h]))
    /\ phase[s] = "post" => Exists(new[h])
    /\ phase[s] = "post" /\ error[s] = "none" /\ h \notin todo[s] =>
         main[h] = new[h]
    /\ phase[s] = "clean" /\ error[s] = "none" /\ h \notin todo[s] =>
         ~Exists(new[h])
    /\ phase[s] = "prepare" /\ error[s] = "none" =>
         magic[s] = clock /\ main[h].magic < clock
    /\ phase[s] = "prepare" /\ error[s] = "none" /\ h \notin todo[s] =>
         scratch[h] = got[s][h] /\ scratch[h].magic = clock

SwitchingOne(s) ==
  \A h, k \in Hosts :
    /\ phase[s] = "commit" =>
         /\ main[h] = main[k] /\ main[h].magic < clock
         /\ h \in todo[s] => /\ ~Exists(new[h]) /\ scratch[h].magic = clock
                             /\ k \in todo[s] => scratch[h] = scratch[k]
                             /\ Exists(new[k]) => scratch[h] = new[k]
         /\ Exists(new[h]) => new[h].magic = clock
         /\ Exists(new[h]) /\ Exists(new[k]) => new[h] = new[k]
         /\ error[s] = "none" /\ h \notin todo[s] => Exists(new[h])
    /\ phase[s] = "clean" =>
         /\ main[h] = main[k]
         /\ AllNew => new[h] = main[h]

BooksOne(s) ==
  /\ ~ignore[s]
  /\ half[s] \subseteq todo[s] \cap up[s]
  /\ phase[s] \in {"idle", "ready", "changed", "verify", "unlock"} => todo[s] = {}
  /\ phase[s] \in {"prepare", "commit"} => clock > 0
  /\ phase[s] = "exists" => seen[s].new \cap todo[s] = {}
  /\ phase[s] = "optimistic" => goal[s] = "load"

(* The invariant with the client fixed.                                    *)
InvOf(s) == /\ TypeOK /\ Coherent /\ Ordered
            /\ NoLeftoverOne(s) /\ KnowledgeOne(s) /\ SwitchingOne(s) /\ BooksOne(s)

(* What must hold after a step.                                            *)
Kept(s) == /\ Coherent' /\ Ordered'
           /\ NoLeftoverOne(s)' /\ KnowledgeOne(s)' /\ SwitchingOne(s)' /\ BooksOne(s)'

(* The invariant gives the session that moves what it needs, if it is      *)
(* live, and what it keeps for all sessions is the invariant.              *)
Claims(s) == NoLeftoverOne(s) /\ KnowledgeOne(s) /\ SwitchingOne(s)

LEMMA LiveHas ==
  ASSUME CommitInv, NEW s \in Sessions
  PROVE  TypeOK /\ BooksOne(s) /\ (Live(s) => InvOf(s))
<1>1. BooksOne(s)  BY DEF CommitInv, Protocol, Bookkeeping, BooksOne
<1>2. ASSUME Live(s) PROVE NoLeftoverOne(s)
  BY <1>2 DEF CommitInv, Protocol, NoLeftover, NoLeftoverOne
<1>3. ASSUME Live(s) PROVE KnowledgeOne(s)
  BY <1>3 DEF CommitInv, Protocol, Knowledge, KnowledgeOne
<1>4. ASSUME Live(s) PROVE SwitchingOne(s)
  BY <1>4 DEF CommitInv, Protocol, Switching, SwitchingOne
<1> QED BY <1>1, <1>2, <1>3, <1>4 DEF CommitInv, LockInv, Protocol, InvOf

LEMMA AllHave ==
  ASSUME LockInv', Coherent', Ordered', Alone',
         \A t \in Sessions : BooksOne(t)' /\ (Live(t)' => Claims(t)')
  PROVE  CommitInv'
<1>1. Bookkeeping'  BY DEF Bookkeeping, BooksOne
<1>2. NoLeftover'   BY DEF NoLeftover, NoLeftoverOne, Claims
<1>3. Knowledge'    BY DEF Knowledge, KnowledgeOne, Claims
<1>4. Switching'    BY DEF Switching, SwitchingOne, Claims
<1> QED BY <1>1, <1>2, <1>3, <1>4 DEF CommitInv, Protocol

-----------------------------------------------------------------------------
(* Steps of a host that leave the archive files as they are.               *)

LEMMA DoneDoes ==
  ASSUME TypeOK, NEW s \in Sessions, NEW h \in Hosts, Done(s, h)
  PROVE  todo'[s] = todo[s] \ {h} /\ half'[s] = half[s] \ {h}
  BY DEF TypeOK, Done

LEMMA OtherFilesKept ==
  ASSUME UNCHANGED <<main, new, scratch>>, Coherent, Ordered, clock' = clock
  PROVE  Coherent' /\ Ordered'
  BY DEF Coherent, Ordered, AllNew, Exists

(* A command of a phase about which nothing is recorded.                   *)
LEMMA QuietStep ==
  ASSUME NEW s \in Sessions, InvOf(s), UNCHANGED <<main, new, scratch, clock>>,
         phase'[s] \in {"idle", "lock", "load", "unlock", "ready", "changed", "verify"},
         /\ phase'[s] # "idle" /\ (phase'[s] = "lock" => goal'[s] = "commit")
              => \A h \in Hosts : ~Exists(new[h]),
         BooksOne(s)'
  PROVE  Kept(s)
<1>1. Coherent' /\ Ordered'  BY OtherFilesKept DEF InvOf
<1>2. NoLeftoverOne(s)'  BY DEF NoLeftoverOne, Exists
<1>3. KnowledgeOne(s)' /\ SwitchingOne(s)'  BY DEF KnowledgeOne, SwitchingOne
<1> QED BY <1>1, <1>2, <1>3 DEF Kept

(* An answer that is not about the files, in any phase.                    *)
LEMMA AnswerStep ==
  ASSUME NEW s \in Sessions, NEW h \in Hosts, InvOf(s), Runs(s, h, phase[s]),
         UNCHANGED <<main, new, scratch, clock, ignore, up, phase, goal, error, magic>>,
         phase[s] \in {"lock", "load"}, Done(s, h)
  PROVE  Kept(s)
<1>1. todo'[s] = todo[s] \ {h} /\ half'[s] = half[s] \ {h}
  BY DoneDoes DEF InvOf
<1>2. BooksOne(s)'  BY <1>1 DEF InvOf, BooksOne
<1> QED BY <1>2, QuietStep DEF InvOf, NoLeftoverOne

LEMMA HandlerKept ==
  ASSUME NEW s \in Sessions, NEW h \in Hosts, InvOf(s), TypeOK', Handler(s, h)
  PROVE  Kept(s)
<1> USE DEF disk, caches, proc, answers, client
<1>t. TypeOK  BY DEF InvOf
<1>f. /\ \A k \in Hosts : main[k] \in Files /\ new[k] \in Files /\ scratch[k] \in Files
      /\ clock \in Nat
      /\ \A file \in Files : file.magic \in Int
  BY <1>t, OptionAssumption DEF TypeOK, Files
<1>1. CASE ClearArchive(s, h)
  BY <1>1 DEF ClearArchive, InvOf, BooksOne
<1>2. CASE OptimisticCheck(s, h)
  <2>1. Coherent' /\ Ordered'  BY <1>2, OtherFilesKept DEF OptimisticCheck, InvOf
  <2>2. CASE Refuse(s, h) /\ Done(s, h)
    <3>1. todo'[s] = todo[s] \ {h} /\ half'[s] = half[s] \ {h}
      BY <1>t, <2>2, DoneDoes
    <3>2. refused'[s] = refused[s] \cup {h}
      BY <1>t, <2>2 DEF Refuse, TypeOK
    <3>3. KnowledgeOne(s)'
      BY <1>2, <3>1, <3>2 DEF OptimisticCheck, Runs, InvOf, KnowledgeOne, Exists
    <3> QED BY <1>2, <2>1, <3>1, <3>3
            DEF OptimisticCheck, Runs, InvOf, Kept, NoLeftoverOne, SwitchingOne, BooksOne
  <2>3. CASE ~Exists(new[h]) /\ Halfway(s, h) /\ UNCHANGED answers
    <3>1. todo'[s] = todo[s] /\ half'[s] = half[s] \cup {h}
      BY <1>t, <2>3 DEF Halfway, TypeOK
    <3>3. KnowledgeOne(s)'
      BY <1>2, <2>3, <3>1 DEF OptimisticCheck, Runs, InvOf, KnowledgeOne, Exists
    <3> QED BY <1>2, <2>1, <3>1, <3>3
            DEF OptimisticCheck, Runs, InvOf, Kept, NoLeftoverOne, SwitchingOne, BooksOne
  <2> QED BY <1>2, <2>2, <2>3 DEF OptimisticCheck
<1>3. CASE OptimisticRead(s, h)
  <2>1. Coherent' /\ Ordered'  BY <1>3, OtherFilesKept DEF OptimisticRead, InvOf
  <2>2. todo'[s] = todo[s] \ {h} /\ half'[s] = half[s] \ {h}
    BY <1>3, <1>t, DoneDoes DEF OptimisticRead
  <2>3. refused[s] \subseteq refused'[s]
    BY <1>3, <1>t, RefuseGrows DEF OptimisticRead, Answer
  <2>4. KnowledgeOne(s)'
    BY <1>3, <2>2, <2>3 DEF OptimisticRead, Runs, InvOf, KnowledgeOne, Exists
  <2> QED BY <1>3, <2>1, <2>2, <2>4
          DEF OptimisticRead, Runs, InvOf, Kept, NoLeftoverOne, SwitchingOne, BooksOne
<1>4. CASE LockArchive(s, h)
  BY <1>4, AnswerStep DEF LockArchive, Runs
<1>5. CASE ArchivesExist(s, h)
  <2>1. Coherent' /\ Ordered'  BY <1>5, OtherFilesKept DEF ArchivesExist, InvOf
  <2>2. todo'[s] = todo[s] \ {h} /\ half'[s] = half[s] \ {h}
    BY <1>5, <1>t, DoneDoes DEF ArchivesExist
  <2>3. seen'[s].new = IF Exists(new[h]) THEN seen[s].new \cup {h} ELSE seen[s].new
    BY <1>5, <1>t DEF ArchivesExist, TypeOK
  <2>4. KnowledgeOne(s)'
    BY <1>5, <2>2, <2>3 DEF ArchivesExist, Runs, InvOf, KnowledgeOne, BooksOne, Exists
  <2> QED BY <1>5, <2>1, <2>2, <2>3, <2>4
          DEF ArchivesExist, Runs, InvOf, Kept, NoLeftoverOne, SwitchingOne, BooksOne
<1>6. CASE PostCommitUnlink(s, h)
  <2>1. AllNew  BY <1>6 DEF PostCommitUnlink, Runs, InvOf, KnowledgeOne, AllNew
  <2>2. AllNew' /\ Coherent'  BY <1>6, <2>1 DEF PostCommitUnlink, InvOf, Coherent, AllNew, Exists
  <2>3. \A k \in Hosts : main'[k] = IF k = h THEN Blank ELSE main[k]
    BY <1>6, <1>t DEF PostCommitUnlink, TypeOK
  <2>4. todo'[s] = todo[s] /\ half'[s] = half[s] \cup {h}
    BY <1>6, <1>t DEF PostCommitUnlink, Halfway, TypeOK
  <2>5. Ordered'
    BY <1>6, <1>f, <2>2, <2>3 DEF PostCommitUnlink, InvOf, Ordered, Blank
  <2>6. KnowledgeOne(s)'
    BY <1>6, <2>3, <2>4 DEF PostCommitUnlink, Runs, InvOf, KnowledgeOne, Exists
  <2> QED BY <1>6, <2>2, <2>4, <2>5, <2>6
          DEF PostCommitUnlink, Runs, InvOf, Kept, NoLeftoverOne, SwitchingOne, BooksOne
<1>7. CASE PostCommitCreate(s, h)
  <2>1. AllNew  BY <1>7 DEF PostCommitCreate, Runs, InvOf, KnowledgeOne, AllNew
  <2>2. AllNew' /\ Coherent'  BY <1>7, <2>1 DEF PostCommitCreate, InvOf, Coherent, AllNew, Exists
  <2>3. \A k \in Hosts : main'[k] = IF k = h THEN Torn ELSE main[k]
    BY <1>7, <1>t DEF PostCommitCreate, TypeOK
  <2>5. Ordered'
    BY <1>7, <1>f, <2>2, <2>3 DEF PostCommitCreate, InvOf, Ordered, Torn
  <2>6. KnowledgeOne(s)'
    BY <1>7, <2>3 DEF PostCommitCreate, Runs, InvOf, KnowledgeOne, Exists
  <2> QED BY <1>7, <2>2, <2>5, <2>6
          DEF PostCommitCreate, Runs, InvOf, Kept, NoLeftoverOne, SwitchingOne, BooksOne
<1>8. CASE PostCommitLink(s, h)
  <2>1. AllNew  BY <1>8 DEF PostCommitLink, Runs, InvOf, KnowledgeOne, AllNew
  <2>2. AllNew' /\ Coherent'  BY <1>8, <2>1 DEF PostCommitLink, InvOf, Coherent, AllNew, Exists
  <2>3. \A k \in Hosts : main'[k] = IF k = h THEN new[h] ELSE main[k]
    BY <1>8, <1>t DEF PostCommitLink, TypeOK
  <2>4. todo'[s] = todo[s] \ {h} /\ half'[s] = half[s] \ {h}
    BY <1>8, <1>t, DoneDoes DEF PostCommitLink
  <2>5. Ordered'
    BY <1>8, <1>f, <2>2, <2>3 DEF PostCommitLink, InvOf, Ordered
  <2>6. KnowledgeOne(s)'
    BY <1>8, <2>3, <2>4 DEF PostCommitLink, Runs, InvOf, KnowledgeOne, Exists
  <2> QED BY <1>8, <2>2, <2>4, <2>5, <2>6
          DEF PostCommitLink, Runs, InvOf, Kept, NoLeftoverOne, SwitchingOne, BooksOne
<1>9. CASE RemoveArchive(s, h)
  <2>1. phase[s] = "clean"  BY <1>9 DEF RemoveArchive, Runs
  <2>2. \A j, k \in Hosts : main[j] = main[k]  BY <2>1 DEF InvOf, SwitchingOne
  <2>3. \A k \in Hosts : new'[k] = IF k = h THEN Blank ELSE new[k]
    BY <1>9, <1>t DEF RemoveArchive, TypeOK
  <2>4. ~AllNew' /\ Coherent'
    BY <1>9, <2>2, <2>3 DEF RemoveArchive, AllNew, Coherent, Exists
  <2>5. todo'[s] = todo[s] \ {h} /\ half'[s] = half[s] \ {h}
    BY <1>9, <1>t, DoneDoes DEF RemoveArchive
  <2>6. \A k \in Hosts : main[k] # Torn
    BY <2>1 DEF InvOf, SwitchingOne, Ordered
  <2>7. Ordered'
    BY <1>9, <1>f, <2>3, <2>6 DEF RemoveArchive, InvOf, Ordered, Blank, Torn
  <2>8. KnowledgeOne(s)'
    BY <1>9, <2>1, <2>3, <2>5 DEF RemoveArchive, InvOf, KnowledgeOne, Exists
  <2>9. SwitchingOne(s)'
    BY <1>9, <2>1, <2>2, <2>4 DEF RemoveArchive, SwitchingOne
  <2> QED BY <1>9, <2>1, <2>4, <2>5, <2>7, <2>8, <2>9
          DEF RemoveArchive, InvOf, Kept, NoLeftoverOne, BooksOne
<1>10. CASE LoadArchive(s, h)
  BY <1>10, AnswerStep DEF LoadArchive, Runs
<1>11. CASE PrepareCommit(s, h)
  <2>1. phase[s] = "prepare"  BY <1>11 DEF PrepareCommit, Runs
  <2>2. \A k \in Hosts : ~Exists(new[k])  BY <2>1 DEF InvOf, NoLeftoverOne
  <2>3. todo'[s] = todo[s] \ {h} /\ half'[s] = half[s] \ {h}
    BY <1>11, <1>t, DoneDoes DEF PrepareCommit
  <2>4. \A k \in Hosts : k # h => scratch'[k] = scratch[k] /\ got'[s][k] = got[s][k]
    BY <1>11, <1>t DEF PrepareCommit, Answer, TypeOK
  <2>5. scratch'[h] = got'[s][h] /\ scratch'[h].magic = magic[s]
    BY <1>11, <1>t DEF PrepareCommit, Answer, TypeOK
  <2>6. magic[s] \in Nat /\ scratch'[h] # Torn
    BY <1>t, <2>5, OptionAssumption DEF TypeOK, Torn
  <2>7. Coherent'  BY <1>11 DEF PrepareCommit, InvOf, Coherent, AllNew, Exists
  <2>8. Ordered'
    BY <1>11, <2>4, <2>6 DEF PrepareCommit, InvOf, Ordered, AllNew, Exists
  <2>9. KnowledgeOne(s)'
    BY <1>11, <2>1, <2>3, <2>4, <2>5 DEF PrepareCommit, InvOf, KnowledgeOne
  <2>10. NoLeftoverOne(s)' /\ SwitchingOne(s)' /\ BooksOne(s)'
    BY <1>11, <2>1, <2>2, <2>3
       DEF PrepareCommit, InvOf, NoLeftoverOne, SwitchingOne, BooksOne, Exists
  <2> QED BY <2>7, <2>8, <2>9, <2>10 DEF Kept
<1>12. CASE CommitArchive(s, h)
  <2>1. phase[s] = "commit" /\ h \in todo[s]  BY <1>12 DEF CommitArchive, Runs
  <2>2. \A k \in Hosts : new'[k] = IF k = h THEN scratch[h] ELSE new[k]
    BY <1>12, <1>t DEF CommitArchive, TypeOK
  <2>3. \A k \in Hosts : scratch'[k] = IF k = h THEN Blank ELSE scratch[k]
    BY <1>12, <1>t DEF CommitArchive, TypeOK
  <2>4. todo'[s] = todo[s] \ {h} /\ half'[s] = half[s] \ {h}
    BY <1>12, <1>t, DoneDoes DEF CommitArchive
  <2>5. clock > 0 /\ scratch[h].magic = clock /\ ~Exists(new[h])
    BY <2>1 DEF InvOf, BooksOne, SwitchingOne
  <2>6. Exists(scratch[h]) /\ scratch[h] # Torn
    BY <1>f, <2>5 DEF Exists, Blank, Torn
  <2>7. \A j, k \in Hosts : main'[j] = main'[k]
    BY <1>12, <2>1 DEF CommitArchive, InvOf, SwitchingOne
  <2>8. SwitchingOne(s)'
    <3> SUFFICES ASSUME NEW j \in Hosts, NEW k \in Hosts
                 PROVE  /\ main'[j] = main'[k] /\ main'[j].magic < clock'
                        /\ j \in todo'[s] =>
                             /\ ~Exists(new'[j]) /\ scratch'[j].magic = clock'
                             /\ k \in todo'[s] => scratch'[j] = scratch'[k]
                             /\ Exists(new'[k]) => scratch'[j] = new'[k]
                        /\ Exists(new'[j]) => new'[j].magic = clock'
                        /\ Exists(new'[j]) /\ Exists(new'[k]) => new'[j] = new'[k]
                        /\ error'[s] = "none" /\ j \notin todo'[s] => Exists(new'[j])
      BY <1>12, <2>1 DEF CommitArchive, SwitchingOne, Exists
    <3> QED BY <1>12, <2>1, <2>2, <2>3, <2>4, <2>5, <2>6, <2>7
            DEF CommitArchive, InvOf, SwitchingOne
  <2>9. Coherent'
    BY <2>7, <2>8, <1>12, <2>1 DEF CommitArchive, Coherent, SwitchingOne, AllNew
  <2>10. \A k \in Hosts : main[k] # Torn
    BY <2>5 DEF InvOf, Ordered, AllNew
  <2>11. Ordered'
    BY <1>12, <1>f, <2>2, <2>3, <2>5, <2>6, <2>10
       DEF CommitArchive, InvOf, Ordered, Blank, Torn
  <2> QED BY <1>12, <2>1, <2>4, <2>8, <2>9, <2>11
          DEF CommitArchive, InvOf, Kept, NoLeftoverOne, KnowledgeOne, BooksOne
<1>13. CASE UnlockArchive(s, h)
  <2>1. Coherent' /\ Ordered'  BY <1>13, OtherFilesKept DEF UnlockArchive, InvOf
  <2> QED BY <1>13, <2>1 DEF UnlockArchive, InvOf, Kept, NoLeftoverOne, KnowledgeOne,
                             SwitchingOne, BooksOne, AllNew, Exists
<1> QED BY <1>1, <1>2, <1>3, <1>4, <1>5, <1>6, <1>7, <1>8, <1>9, <1>10, <1>11,
           <1>12, <1>13 DEF Handler

-----------------------------------------------------------------------------
(* Faults.                                                                 *)

LEMMA FaultKept ==
  ASSUME NEW s \in Sessions, NEW h \in Hosts, InvOf(s),
         CommandFails(s, h) \/ Leave(s, h) \/ Kill(s, h)
  PROVE  Kept(s)
<1> USE DEF disk, caches, proc, answers, client
<1>t. TypeOK  BY DEF InvOf
<1>c. Coherent' /\ Ordered'
  BY OtherFilesKept DEF CommandFails, Leave, Kill, InvOf
<1>1. CASE CommandFails(s, h)
  <2>1. todo'[s] = todo[s] \ {h} /\ half'[s] = half[s] \ {h}
    BY <1>1, <1>t, DoneDoes DEF CommandFails
  <2>2. error'[s] # "none"
    BY <1>1, <1>t DEF CommandFails, TypeOK
  <2>3. phase[s] # "exists"
    BY <1>1 DEF CommandFails
  <2>4. KnowledgeOne(s)'
    BY <1>1, <2>1, <2>2, <2>3 DEF CommandFails, InvOf, KnowledgeOne, Exists
  <2>5. SwitchingOne(s)'
    BY <1>1, <2>1, <2>2 DEF CommandFails, InvOf, SwitchingOne, AllNew, Exists
  <2> QED BY <1>1, <1>c, <2>1, <2>4, <2>5
          DEF CommandFails, InvOf, Kept, NoLeftoverOne, BooksOne, Exists
<1>2. CASE Leave(s, h)
  <2>1. up'[s] = up[s] \ {h} /\ h \notin half[s]
    BY <1>2, <1>t DEF Leave, TypeOK
  <2> QED BY <1>2, <1>c, <2>1
          DEF Leave, InvOf, Kept, NoLeftoverOne, KnowledgeOne, SwitchingOne, BooksOne,
              AllNew, Exists
<1>3. CASE Kill(s, h)
  <2>1. up'[s] = up[s] \ {h} /\ half'[s] = half[s] \ {h}
    BY <1>3, <1>t DEF Kill, TypeOK
  <2> QED BY <1>3, <1>c, <2>1
          DEF Kill, InvOf, Kept, NoLeftoverOne, KnowledgeOne, SwitchingOne, BooksOne,
              AllNew, Exists
<1> QED BY <1>1, <1>2, <1>3

-----------------------------------------------------------------------------
(* Steps of the client.  None of them touches a file; what is to show is   *)
(* that the client knows enough to enter its next phase.                   *)

LEMMA ClientKept ==
  ASSUME NEW s \in Sessions, InvOf(s), TypeOK', ~IgnoreAllowed,
         ClientStep(s) \/ FindUpdates(s) \/ Propagate(s) \/ CommitUpdates(s)
           \/ Start(s) \/ Disconnect(s)
  PROVE  Kept(s)
<1> USE DEF disk, caches, proc, answers, client, outside
<1>t. TypeOK /\ up[s] \subseteq Hosts /\ half[s] \subseteq Hosts /\ todo[s] \subseteq Hosts
  BY DEF InvOf, TypeOK
<1>u. undo[s] \in SUBSET Hosts /\ error[s] \in Errors
  BY <1>t DEF TypeOK
<1>n. /\ clock \in Nat
      /\ \A k \in Hosts : main[k].magic \in Int /\ main[k].magic <= clock
  BY <1>t, OptionAssumption DEF TypeOK, Files, InvOf, Ordered
<1>b. BooksOne(s)  BY DEF InvOf
<1>1. CASE AfterOptimistic(s)
  <2>1. \A k \in Hosts : Identical(s) => ~Exists(new[k])
    BY <1>1 DEF AfterOptimistic, Decides, Identical, InvOf, KnowledgeOne
  <2>2. CASE Identical(s)
    <3>1. Moved(s, "ready", todo[s], error[s], undo[s])
      BY <1>1, <1>t, <2>2, SettleMoves DEF AfterOptimistic
    <3>2. BooksOne(s)'
      BY <1>1, <1>b, <3>1 DEF AfterOptimistic, Decides, Moved, BooksOne
    <3> QED BY <1>1, <2>1, <2>2, <3>1, <3>2, QuietStep DEF AfterOptimistic, Moved
  <2>3. CASE ~Identical(s)
    <3>1. Moved(s, "lock", Hosts, error[s], undo[s])
      BY <1>1, <1>t, <2>3, SendMoves DEF AfterOptimistic
    <3>2. BooksOne(s)'
      BY <1>1, <1>b, <1>t, <3>1 DEF AfterOptimistic, Decides, Moved, BooksOne
    <3>3. goal'[s] = "load"
      BY <1>1, <1>b DEF AfterOptimistic, Decides, BooksOne
    <3> QED BY <1>1, <3>1, <3>2, <3>3, QuietStep DEF AfterOptimistic, Moved
  <2> QED BY <2>2, <2>3
<1>2. CASE AfterLock(s)
  <2>1. Forgotten(s)  BY <1>2, <1>t, ForgetForgets DEF AfterLock
  <2>2. CASE Fail(s, "locked", Hosts \ refused[s]) /\ UNCHANGED <<magic, clock>>
    <3>1. Moved(s, "lock", todo[s], "locked", Hosts \ refused[s])
      <4>1. phase[s] = "lock"  BY <1>2 DEF AfterLock, Decides
      <4>2. Fail(s, "locked", Hosts \ refused[s])  BY <2>2
      <4> QED BY ONLY <1>t, <4>1, <4>2, FailMoves, s \in Sessions
    <3>2. BooksOne(s)'
      BY <1>2, <1>b, <3>1 DEF AfterLock, Decides, Moved, BooksOne
    <3>3. goal[s] = "commit" => \A k \in Hosts : ~Exists(new[k])
      BY <1>2 DEF AfterLock, Decides, InvOf, NoLeftoverOne
    <3> QED BY <1>2, <2>2, <3>1, <3>2, <3>3, QuietStep DEF AfterLock, Moved
  <2>3. CASE Send(s, "exists") /\ UNCHANGED <<magic, clock>>
    <3>1. Moved(s, "exists", Hosts, error[s], undo[s])
      BY <1>t, <2>3, SendMoves
    <3>2. BooksOne(s)'
      BY <1>2, <1>b, <1>t, <2>1, <3>1
         DEF AfterLock, Decides, Moved, Forgotten, BooksOne
    <3>3. Coherent' /\ Ordered'
      BY <1>2, <2>3, OtherFilesKept DEF AfterLock, InvOf
    <3> QED BY <3>1, <3>2, <3>3
            DEF Moved, Kept, NoLeftoverOne, KnowledgeOne, SwitchingOne
  <2>4. CASE /\ goal[s] = "commit" /\ Send(s, "prepare")
             /\ clock' = clock + 1 /\ magic' = [magic EXCEPT ![s] = clock + 1]
    <3>1. Moved(s, "prepare", Hosts, error[s], undo[s])
      BY <1>t, <2>4, SendMoves
    <3>2. BooksOne(s)'
      BY <1>2, <1>b, <1>t, <1>n, <2>4, <3>1
         DEF AfterLock, Decides, Moved, BooksOne
    <3>3. \A k \in Hosts : ~Exists(new'[k])
      BY <1>2, <2>4 DEF AfterLock, Decides, InvOf, NoLeftoverOne
    <3>4. magic'[s] = clock'
      BY <1>t, <2>4 DEF TypeOK
    <3>5. Coherent' /\ Ordered'
      BY <1>2, <1>t, <1>n, <2>4
         DEF AfterLock, InvOf, Coherent, Ordered, AllNew, Exists, TypeOK, Files
    <3>6. KnowledgeOne(s)'
      BY <1>2, <1>n, <2>4, <3>1, <3>4 DEF AfterLock, Moved, KnowledgeOne
    <3> QED BY <3>1, <3>2, <3>3, <3>5, <3>6 DEF Moved, Kept, NoLeftoverOne, SwitchingOne
  <2> QED BY <1>2, <2>2, <2>3, <2>4 DEF AfterLock
<1>3. CASE AfterExists(s)
  <2>1. \A k \in Hosts : k \in seen[s].new <=> Exists(new[k])
    BY <1>3 DEF AfterExists, Decides, InvOf, KnowledgeOne
  <2>2. seen[s].new \subseteq Hosts  BY <1>t DEF TypeOK
  <2>3. Coherent' /\ Ordered'
    BY <1>3, OtherFilesKept DEF AfterExists, InvOf
  <2>4. CASE seen[s].new = Hosts /\ Send(s, "post")
    <3>1. Moved(s, "post", Hosts, error[s], undo[s])  BY <1>t, <2>4, SendMoves
    <3> QED BY <1>3, <1>b, <1>t, <2>1, <2>3, <2>4, <3>1
            DEF AfterExists, Decides, Moved, Kept, NoLeftoverOne, KnowledgeOne,
                SwitchingOne, BooksOne
  <2>5. CASE seen[s].new # Hosts /\ Send(s, "clean")
    <3>1. Moved(s, "clean", Hosts, error[s], undo[s])  BY <1>t, <2>5, SendMoves
    <3>2. ~AllNew /\ ~AllNew'
      BY <1>3, <2>1, <2>2, <2>5 DEF AfterExists, AllNew
    <3>3. SwitchingOne(s)'
      BY <1>3, <3>1, <3>2 DEF AfterExists, Moved, InvOf, Coherent, SwitchingOne
    <3> QED BY <1>3, <1>b, <1>t, <2>3, <3>1, <3>3
            DEF AfterExists, Decides, Moved, Kept, NoLeftoverOne, KnowledgeOne, BooksOne
  <2>6. CASE seen[s].new = {} /\ Settle(s, "verify")
    <3>1. Moved(s, "verify", todo[s], error[s], undo[s])  BY <1>t, <2>6, SettleMoves
    <3>2. BooksOne(s)'  BY <1>3, <1>b, <3>1 DEF AfterExists, Decides, Moved, BooksOne
    <3> QED BY <1>3, <2>1, <2>6, <3>1, <3>2, QuietStep DEF AfterExists, Moved
  <2> QED BY <1>3, <2>4, <2>5, <2>6 DEF AfterExists
<1>4. CASE AfterPostCommit(s)
  <2>1. Moved(s, "clean", Hosts, error[s], undo[s])
    BY <1>4, <1>t, SendMoves DEF AfterPostCommit
  <2>2. \A k \in Hosts : Exists(new[k]) /\ main[k] = new[k]
    BY <1>4 DEF AfterPostCommit, Decides, InvOf, KnowledgeOne
  <2>3. \A j, k \in Hosts : main[j] = main[k]
    BY <2>2 DEF InvOf, Coherent, AllNew
  <2>4. Coherent' /\ Ordered'
    BY <1>4, OtherFilesKept DEF AfterPostCommit, InvOf
  <2>5. SwitchingOne(s)'
    BY <1>4, <2>1, <2>2, <2>3 DEF AfterPostCommit, Moved, SwitchingOne
  <2> QED BY <1>4, <1>b, <1>t, <2>1, <2>4, <2>5
          DEF AfterPostCommit, Decides, Moved, Kept, NoLeftoverOne, KnowledgeOne, BooksOne
<1>5. CASE AfterClean(s)
  <2>1. \A k \in Hosts : ~Exists(new[k])
    BY <1>5 DEF AfterClean, Decides, InvOf, KnowledgeOne
  <2>2. PICK p \in {"verify", "unlock"}, locked \in SUBSET Hosts : Moved(s, p, todo[s], error[s], locked)
    BY <1>5, <1>t, <1>u, SettleMoves, ReleaseMoves DEF AfterClean
  <2>3. BooksOne(s)'
    BY <1>5, <1>b, <2>2 DEF AfterClean, Decides, Moved, BooksOne
  <2> QED BY <1>5, <2>1, <2>2, <2>3, QuietStep DEF AfterClean, Moved
<1>6. CASE VerifyMain(s)
  <2>1. \A k \in Hosts : ~Exists(new[k])
    BY <1>6 DEF VerifyMain, Decides, InvOf, NoLeftoverOne
  <2>2. PICK p \in {"load", "verify"}, hosts \in {todo[s], Hosts}, e \in Errors, locked \in SUBSET Hosts :
          Moved(s, p, hosts, e, locked) /\ (p = "verify" => hosts = todo[s])
    <3>1. CASE Send(s, "load")
      <4>1. Moved(s, "load", Hosts, error[s], undo[s])  BY <1>t, <3>1, SendMoves
      <4> QED BY <1>u, <4>1
    <3>2. CASE Fail(s, "missing", Hosts)
      <4>1. phase[s] = "verify" /\ "missing" \in Errors  BY <1>6 DEF VerifyMain, Decides, Errors
      <4>2. Moved(s, "verify", todo[s], "missing", Hosts)  BY <1>t, <3>2, <4>1, FailMoves
      <4> QED BY <4>1, <4>2
    <3> QED BY <1>6, <3>1, <3>2 DEF VerifyMain
  <2>3. BooksOne(s)'
    BY <1>6, <1>b, <1>t, <2>2 DEF VerifyMain, Decides, Moved, BooksOne
  <2> QED BY <1>6, <2>1, <2>2, <2>3, QuietStep DEF VerifyMain, Moved
<1>7. CASE AfterLoad(s)
  <2>1. \A k \in Hosts : ~Exists(new[k])
    BY <1>7 DEF AfterLoad, Decides, InvOf, NoLeftoverOne
  <2>2. PICK p \in {"load", "unlock"}, e \in Errors, locked \in SUBSET Hosts : Moved(s, p, todo[s], e, locked)
    BY <1>7, <1>t, <1>u, ReleaseMoves, FailMoves DEF AfterLoad, Decides, Errors
  <2>3. BooksOne(s)'
    BY <1>7, <1>b, <2>2 DEF AfterLoad, Decides, Moved, BooksOne
  <2> QED BY <1>7, <2>1, <2>2, <2>3, QuietStep DEF AfterLoad, Moved
<1>8. CASE AfterPrepare(s)
  <2>1. \A k \in Hosts : ~Exists(new[k])
    BY <1>8 DEF AfterPrepare, Decides, InvOf, NoLeftoverOne
  <2>2. \A k \in Hosts : /\ scratch[k] = got[s][k] /\ scratch[k].magic = clock
                         /\ main[k].magic < clock
    BY <1>8 DEF AfterPrepare, Decides, InvOf, KnowledgeOne
  <2>3. \A j, k \in Hosts : main[j] = main[k]
    BY <2>1, HostsAssumption DEF InvOf, Coherent, AllNew
  <2>4. Coherent' /\ Ordered'
    BY <1>8, OtherFilesKept DEF AfterPrepare, InvOf
  <2>5. CASE Identical(s) /\ Send(s, "commit")
    <3>1. Moved(s, "commit", Hosts, error[s], undo[s])  BY <1>t, <2>5, SendMoves
    <3>2. \A j, k \in Hosts : scratch[j] = scratch[k]
      BY <2>2, <2>5 DEF Identical
    <3>3. SwitchingOne(s)'
      BY <1>8, <2>1, <2>2, <2>3, <3>1, <3>2
         DEF AfterPrepare, Moved, SwitchingOne, Exists
    <3> QED BY <1>8, <1>b, <1>t, <2>4, <3>1, <3>3
            DEF AfterPrepare, Decides, Moved, Kept, NoLeftoverOne, KnowledgeOne, BooksOne
  <2>6. CASE Fail(s, "newdiffer", Hosts)
    <3>1. Moved(s, "prepare", todo[s], "newdiffer", Hosts)
      BY <1>8, <1>t, <2>6, FailMoves DEF AfterPrepare, Decides
    <3> QED BY <1>8, <1>b, <2>1, <2>4, <3>1
            DEF AfterPrepare, Decides, Moved, Kept, NoLeftoverOne, KnowledgeOne,
                SwitchingOne, BooksOne, Exists
  <2> QED BY <1>8, <2>5, <2>6 DEF AfterPrepare
<1>9. CASE AfterCommit(s)
  <2>1. Moved(s, "post", Hosts, error[s], undo[s])
    BY <1>9, <1>t, SendMoves DEF AfterCommit
  <2>2. \A k \in Hosts : Exists(new[k])
    BY <1>9 DEF AfterCommit, Decides, InvOf, SwitchingOne
  <2>3. Coherent' /\ Ordered'
    BY <1>9, OtherFilesKept DEF AfterCommit, InvOf
  <2> QED BY <1>9, <1>b, <1>t, <2>1, <2>2, <2>3
          DEF AfterCommit, Decides, Moved, Kept, NoLeftoverOne, KnowledgeOne,
              SwitchingOne, BooksOne, Exists
<1>10. CASE AfterUnlock(s)
  <2>1. \A k \in Hosts : ~Exists(new[k])
    BY <1>10 DEF AfterUnlock, Decides, InvOf, NoLeftoverOne
  <2>2. Moved(s, "ready", todo[s], error[s], undo[s])
    BY <1>10, <1>t, SettleMoves DEF AfterUnlock
  <2>3. BooksOne(s)'
    BY <1>10, <1>b, <2>2 DEF AfterUnlock, Decides, Moved, BooksOne
  <2> QED BY <1>10, <2>1, <2>2, <2>3, QuietStep DEF AfterUnlock, Moved
<1>11. CASE GiveUp(s)
  <2>1. phase'[s] = "idle"  BY <1>11, <1>t DEF GiveUp, TypeOK
  <2>2. BooksOne(s)'  BY <1>11, <1>b, <2>1 DEF GiveUp, BooksOne
  <2> QED BY <1>11, <2>1, <2>2, QuietStep DEF GiveUp
<1>12. CASE FindUpdates(s)
  <2>1. /\ phase'[s] = "optimistic" /\ todo'[s] = Hosts /\ goal'[s] = "load"
        /\ half'[s] = half[s] /\ half[s] = {}
    BY <1>12, <1>b, <1>t DEF FindUpdates, TypeOK, BooksOne
  <2>2. Coherent' /\ Ordered'
    BY <1>12, OtherFilesKept DEF FindUpdates, InvOf
  <2> QED BY <1>12, <1>b, <2>1, <2>2
          DEF FindUpdates, Kept, NoLeftoverOne, KnowledgeOne, SwitchingOne, BooksOne
<1>13. CASE Propagate(s)
  <2>1. \A k \in Hosts : ~Exists(new[k])
    BY <1>13 DEF Propagate, Decides, InvOf, NoLeftoverOne
  <2>2. Moved(s, "changed", todo[s], error[s], undo[s])
    BY <1>13, <1>t, SettleMoves DEF Propagate
  <2>3. BooksOne(s)'
    BY <1>13, <1>b, <2>2 DEF Propagate, Decides, Moved, BooksOne
  <2> QED BY <1>13, <2>1, <2>2, <2>3, QuietStep DEF Propagate, Moved
<1>14. CASE CommitUpdates(s)
  <2>1. \A k \in Hosts : ~Exists(new[k])
    BY <1>14 DEF CommitUpdates, Decides, InvOf, NoLeftoverOne
  <2>2. Moved(s, "lock", Hosts, error[s], undo[s])
    BY <1>14, <1>t, SendMoves DEF CommitUpdates
  <2>3. BooksOne(s)'
    BY <1>14, <1>b, <1>t, <2>2 DEF CommitUpdates, Decides, Moved, BooksOne
  <2> QED BY <1>14, <2>1, <2>2, <2>3, QuietStep DEF CommitUpdates, Moved
<1>15. CASE Start(s)
  <2>1. /\ phase'[s] = "idle" /\ todo'[s] = {} /\ ~ignore'[s]
        /\ up[s] = {} /\ half'[s] = half[s]
    BY <1>15, <1>t DEF Start, TypeOK
  <2>2. BooksOne(s)'  BY <1>b, <2>1 DEF BooksOne
  <2> QED BY <1>15, <2>1, <2>2, QuietStep DEF Start
<1>16. CASE Disconnect(s)
  <2>1. Coherent' /\ Ordered'
    BY <1>16, OtherFilesKept DEF Disconnect, InvOf
  <2> QED BY <1>16, <2>1
          DEF Disconnect, InvOf, Kept, NoLeftoverOne, KnowledgeOne, SwitchingOne,
              BooksOne, AllNew, Exists
<1> QED BY <1>1, <1>2, <1>3, <1>4, <1>5, <1>6, <1>7, <1>8, <1>9, <1>10, <1>11,
           <1>12, <1>13, <1>14, <1>15, <1>16 DEF ClientStep

-----------------------------------------------------------------------------
(* Sessions side by side: the servers of a dead client that still have a   *)
(* command to finish, and the client that runs.                            *)

HostStep(s, h) == Handler(s, h) \/ CommandFails(s, h) \/ Leave(s, h) \/ Kill(s, h)
UserStep(s) == \/ ClientStep(s) \/ FindUpdates(s) \/ Propagate(s) \/ CommitUpdates(s)
               \/ Start(s) \/ Disconnect(s)

(* What a step of another session leaves alone.                            *)
Same(t) ==
  /\ phase'[t] = phase[t] /\ goal'[t] = goal[t] /\ error'[t] = error[t]
  /\ todo'[t] = todo[t] /\ half'[t] = half[t] /\ magic'[t] = magic[t]
  /\ refused'[t] = refused[t] /\ got'[t] = got[t] /\ seen'[t] = seen[t]
  /\ up'[t] = up[t] /\ conn'[t] = conn[t] /\ ignore'[t] = ignore[t]
  /\ mem'[t] = mem[t] /\ info'[t] = info[t]

LEMMA OthersSame ==
  ASSUME TypeOK, NEW s \in Sessions,
         UserStep(s) \/ \E h \in Hosts : HostStep(s, h)
  PROVE  \A t \in Sessions \ {s} : Same(t)
<1> SUFFICES ASSUME NEW t \in Sessions \ {s} PROVE Same(t)
  OBVIOUS
<1> USE DEF disk, caches, proc, answers, client, outside, Same, TypeOK
<1>1. CASE UserStep(s)
  <2>1. CASE AfterOptimistic(s) \/ AfterLock(s) \/ AfterExists(s) \/ AfterPostCommit(s)
    BY <2>1 DEF AfterOptimistic, AfterLock, AfterExists, AfterPostCommit, Send, Settle,
                Fail, ForgetAnswers
  <2>2. CASE AfterClean(s) \/ VerifyMain(s) \/ AfterLoad(s) \/ AfterPrepare(s)
    BY <2>2 DEF AfterClean, VerifyMain, AfterLoad, AfterPrepare, Send, Settle, Fail, Release,
                ForgetAnswers
  <2>3. CASE AfterCommit(s) \/ AfterUnlock(s) \/ GiveUp(s) \/ FindUpdates(s)
    BY <2>3 DEF AfterCommit, AfterUnlock, GiveUp, FindUpdates, Send, Settle, ForgetAnswers
  <2>4. CASE Propagate(s)
    BY <2>4 DEF Propagate, Settle
  <2>5. CASE CommitUpdates(s) \/ Disconnect(s)
    BY <2>5 DEF CommitUpdates, Disconnect, Send
  <2>6. CASE Start(s)
    BY <2>6 DEF Start, ForgetAnswers
  <2> QED BY <1>1, <2>1, <2>2, <2>3, <2>4, <2>5, <2>6 DEF UserStep, ClientStep
<1>2. ASSUME NEW h \in Hosts, HostStep(s, h) PROVE Same(t)
  <2> USE DEF Done, Halfway, Remember, Answer, Refuse
  <2>1. CASE ClearArchive(s, h) \/ OptimisticCheck(s, h) \/ OptimisticRead(s, h)
    BY <2>1 DEF ClearArchive, OptimisticCheck, OptimisticRead
  <2>2. CASE LockArchive(s, h) \/ ArchivesExist(s, h) \/ PostCommitUnlink(s, h)
    BY <2>2 DEF LockArchive, ArchivesExist, PostCommitUnlink
  <2>3. CASE PostCommitCreate(s, h) \/ PostCommitLink(s, h) \/ RemoveArchive(s, h)
    BY <2>3 DEF PostCommitCreate, PostCommitLink, RemoveArchive
  <2>4. CASE LoadArchive(s, h) \/ PrepareCommit(s, h)
    BY <2>4 DEF LoadArchive, PrepareCommit
  <2>5. CASE CommitArchive(s, h) \/ UnlockArchive(s, h)
    BY <2>5 DEF CommitArchive, UnlockArchive
  <2>6. CASE CommandFails(s, h) \/ Leave(s, h) \/ Kill(s, h)
    BY <2>6 DEF CommandFails, Leave, Kill
  <2> QED BY <1>2, <2>1, <2>2, <2>3, <2>4, <2>5, <2>6 DEF HostStep, Handler
<1> QED BY <1>1, <1>2

(* A command of an optimistic load that has found no lock on its host.     *)
Checked(s, h) == h \in half[s] \/ h \notin todo[s] \cup refused[s]

(* What a host may do, whatever its command: it writes only for a session  *)
(* that works there, and takes up no command.                              *)
LEMMA HostDoes ==
  ASSUME TypeOK, NEW s \in Sessions, NEW h \in Hosts, HostStep(s, h)
  PROVE  /\ phase' = phase /\ goal' = goal /\ clock' = clock /\ ignore' = ignore
         /\ todo'[s] \subseteq todo[s] /\ up'[s] \subseteq up[s]
         /\ conn'[s] => conn[s] /\ up'[s] = up[s]
         /\ error'[s] = "none" => error[s] = "none"
         /\ Works(s, h) \/ UNCHANGED <<main, new, scratch>>
         /\ \A k \in Hosts \ {h} :
              main'[k] = main[k] /\ new'[k] = new[k] /\ scratch'[k] = scratch[k]
<1> USE DEF disk, caches, proc, answers, client, TypeOK, Done, Halfway
<1>1. CASE \/ ClearArchive(s, h) \/ OptimisticCheck(s, h) \/ OptimisticRead(s, h)
           \/ LockArchive(s, h) \/ ArchivesExist(s, h) \/ LoadArchive(s, h)
           \/ UnlockArchive(s, h)
  BY <1>1 DEF ClearArchive, OptimisticCheck, OptimisticRead, LockArchive, ArchivesExist,
              LoadArchive, UnlockArchive
<1>2. CASE \/ PostCommitUnlink(s, h) \/ PostCommitCreate(s, h) \/ PostCommitLink(s, h)
           \/ RemoveArchive(s, h) \/ PrepareCommit(s, h) \/ CommitArchive(s, h)
  <2>1. Works(s, h)
    BY <1>2 DEF PostCommitUnlink, PostCommitCreate, PostCommitLink, RemoveArchive,
                PrepareCommit, CommitArchive, Runs, Works, LockedPhases
  <2> QED BY <1>2, <2>1 DEF PostCommitUnlink, PostCommitCreate, PostCommitLink,
                            RemoveArchive, PrepareCommit, CommitArchive
<1>3. CASE CommandFails(s, h) \/ Leave(s, h) \/ Kill(s, h)
  BY <1>3 DEF CommandFails, Leave, Kill
<1> QED BY <1>1, <1>2, <1>3 DEF HostStep, Handler

(* No file is written by a step of the client.                             *)
LEMMA UserFiles ==
  ASSUME NEW s \in Sessions, UserStep(s)
  PROVE  UNCHANGED <<main, new, scratch>>
  BY DEF UserStep, ClientStep, FindUpdates, Propagate, CommitUpdates, Start, Disconnect,
         AfterOptimistic, AfterLock, AfterExists, AfterPostCommit, AfterClean, VerifyMain,
         AfterLoad, AfterPrepare, AfterCommit, AfterUnlock, GiveUp, disk, outside

LEMMA HostChecks ==
  ASSUME TypeOK, NEW s \in Sessions, NEW h \in Hosts, HostStep(s, h),
         phase[s] = "optimistic", error'[s] = "none", ~ignore[s],
         NEW k \in Hosts, Checked(s, k)'
  PROVE  Checked(s, k) \/ lock[k] = Nobody
<1> USE DEF disk, caches, proc, answers, client, TypeOK, Done, Halfway, Refuse, Checked
<1>1. CASE OptimisticCheck(s, h)
  BY <1>1 DEF OptimisticCheck
<1>2. CASE OptimisticRead(s, h)
  BY <1>2 DEF OptimisticRead, Answer
<1>3. CASE UnlockArchive(s, h) \/ Leave(s, h)
  BY <1>3 DEF UnlockArchive, Leave
<1>4. CASE Kill(s, h)
  BY <1>4 DEF Kill
<1>5. ~CommandFails(s, h)
  BY DEF CommandFails
<1> QED BY <1>1, <1>2, <1>3, <1>4, <1>5
        DEF HostStep, Handler, ClearArchive, LockArchive, ArchivesExist, PostCommitUnlink,
            PostCommitCreate, PostCommitLink, RemoveArchive, LoadArchive, PrepareCommit,
            CommitArchive, Runs

LEMMA HostBooks ==
  ASSUME TypeOK, NEW s \in Sessions, NEW h \in Hosts, HostStep(s, h), BooksOne(s)
  PROVE  BooksOne(s)'
<1>1. half'[s] \subseteq todo'[s] \cap up'[s]
  <2> USE DEF disk, caches, proc, answers, client, TypeOK, Done, Halfway, BooksOne
  <2>1. CASE \/ ClearArchive(s, h) \/ OptimisticCheck(s, h) \/ OptimisticRead(s, h)
             \/ LockArchive(s, h) \/ ArchivesExist(s, h) \/ LoadArchive(s, h)
    BY <2>1 DEF ClearArchive, OptimisticCheck, OptimisticRead, LockArchive, ArchivesExist,
                LoadArchive, Runs
  <2>2. CASE \/ PostCommitUnlink(s, h) \/ PostCommitCreate(s, h) \/ PostCommitLink(s, h)
             \/ RemoveArchive(s, h) \/ PrepareCommit(s, h) \/ CommitArchive(s, h)
    BY <2>2 DEF PostCommitUnlink, PostCommitCreate, PostCommitLink, RemoveArchive,
                PrepareCommit, CommitArchive, Runs
  <2>3. CASE UnlockArchive(s, h) \/ CommandFails(s, h) \/ Leave(s, h) \/ Kill(s, h)
    BY <2>3 DEF UnlockArchive, CommandFails, Leave, Kill
  <2> QED BY <2>1, <2>2, <2>3 DEF HostStep, Handler
<1>2. phase[s] = "exists" => seen'[s].new \cap todo'[s] = {}
  <2> USE DEF disk, caches, proc, answers, client, TypeOK, Done, Halfway, BooksOne
  <2>1. CASE ArchivesExist(s, h)
    BY <2>1 DEF ArchivesExist
  <2>2. CASE UnlockArchive(s, h) \/ CommandFails(s, h) \/ Leave(s, h) \/ Kill(s, h)
    BY <2>2 DEF UnlockArchive, CommandFails, Leave, Kill
  <2> QED BY <2>1, <2>2 DEF HostStep, Handler, ClearArchive, OptimisticCheck, OptimisticRead,
             LockArchive, PostCommitUnlink, PostCommitCreate, PostCommitLink, RemoveArchive,
             LoadArchive, PrepareCommit, CommitArchive, Runs
<1> QED BY <1>1, <1>2, HostDoes DEF BooksOne

(* The lock of a host where somebody works is not free.                    *)
LEMMA WorkLocks ==
  ASSUME LockInv, NEW s \in Sessions, NEW h \in Hosts, Works(s, h)
  PROVE  lock[h] = s /\ lock[h] # Nobody
  BY OwnerAssumption DEF LockInv, LocksHeld, Works

-----------------------------------------------------------------------------
(* While a session may write, no other does.                               *)

LEMMA HostAlone ==
  ASSUME CommitInv, NEW s \in Sessions, NEW h \in Hosts, HostStep(s, h)
  PROVE  Alone'
<1>t. TypeOK /\ LockInv /\ ~ignore[s]
  BY LiveHas DEF CommitInv, BooksOne
<1>a. Alone  BY DEF CommitInv, Protocol
<1>1. \A t \in Sessions \ {s} : Same(t)  BY <1>t, OthersSame
<1>2. phase' = phase /\ goal' = goal  BY <1>t, HostDoes
<1>3. \A t \in Sessions : todo'[t] \subseteq todo[t] /\ up'[t] \subseteq up[t]
  BY <1>t, <1>1, HostDoes DEF Same
<1>4. \A t \in Sessions, k \in Hosts : Works(t, k)' => Works(t, k)
  BY <1>2, <1>3 DEF Works
<1>5. \A t \in Sessions : (Busy(t)' => Busy(t)) /\ (Engaged(t)' => Engaged(t))
  BY <1>2, <1>3, <1>4 DEF Busy, Engaged
<1>6. \A t \in Sessions : conn'[t] => up'[t] = Hosts
  BY <1>t, <1>a, <1>1, HostDoes DEF Alone, Same
<1>7. ASSUME NEW a \in Sessions, NEW b \in Sessions, a # b,
             Client \in up'[a], phase'[a] = "optimistic", error'[a] = "none",
             NEW k \in Hosts, Checked(a, k)'
      PROVE  ~Works(b, k)'
  <2>1. Client \in up[a] /\ phase[a] = "optimistic"  BY <1>2, <1>3, <1>7
  <2>2. error[a] = "none"  BY <1>t, <1>1, <1>7, HostDoes DEF Same
  <2>3. Checked(a, k) \/ lock[k] = Nobody
    <3>1. CASE a = s
      BY <1>t, <1>7, <2>1, <3>1, HostChecks
    <3>2. CASE a # s
      BY <1>1, <1>7, <3>2 DEF Same, Checked
    <3> QED BY <3>1, <3>2
  <2>4. ~Works(b, k)
    <3>1. CASE Checked(a, k)
      BY <1>a, <1>7, <2>1, <2>2, <3>1 DEF Alone, Checked
    <3>2. CASE lock[k] = Nobody
      BY <1>t, <3>2, WorkLocks
    <3> QED BY <2>3, <3>1, <3>2
  <2> QED BY <1>4, <2>4
<1>8. ASSUME NEW a \in Sessions, NEW b \in Sessions, a # b
      PROVE  /\ Client \in up'[a] => Client \notin up'[b]
             /\ Engaged(a)' => ~Busy(b)'
  BY <1>a, <1>3, <1>5, <1>8 DEF Alone
<1> QED BY <1>6, <1>7, <1>8 DEF Alone, Checked

(* A step of a connected client s: nobody else has a client, so all that   *)
(* is to show is that others are idle if it is engaged afterwards.         *)
LEMMA ClientAlone ==
  ASSUME CommitInv, NEW s \in Sessions, conn[s], UNCHANGED up,
         \A t \in Sessions \ {s} : Same(t), conn'[s] \in BOOLEAN,
         Engaged(s)' => Engaged(s) \/ \A t \in Sessions \ {s} : ~Busy(t),
         phase'[s] = "optimistic" /\ error'[s] = "none" =>
           \A k \in Hosts : Checked(s, k)' =>
             /\ Checked(s, k) /\ phase[s] = "optimistic" /\ error[s] = "none"
  PROVE  Alone'
<1>a. Alone  BY DEF CommitInv, Protocol
<1>1. up[s] = Hosts /\ Client \in up[s] /\ \A t \in Sessions \ {s} : Client \notin up[t]
  BY <1>a, HostsAssumption DEF Alone
<1>2. \A t \in Sessions : conn'[t] => up'[t] = Hosts
  BY <1>a, <1>1 DEF Alone, Same
<1>3. \A t \in Sessions \ {s} : (Busy(t)' <=> Busy(t)) /\ (Engaged(t)' <=> Engaged(t))
  BY DEF Busy, Engaged, Works, Same
<1>4. Engaged(s)' => \A t \in Sessions \ {s} : ~Busy(t)
  BY <1>a DEF Alone
<1>5. Busy(s)' => Engaged(s)'  BY DEF Engaged
<1>6. \A t \in Sessions \ {s} : Engaged(t) => Busy(t)
  BY <1>1 DEF Engaged
<1>7. \A a, b \in Sessions : a # b /\ Engaged(a)' => ~Busy(b)'
  <2> SUFFICES ASSUME NEW a \in Sessions, NEW b \in Sessions, a # b, Engaged(a)'
               PROVE  ~Busy(b)'
    OBVIOUS
  <2>1. CASE a = s  BY <1>3, <1>4, <2>1
  <2>2. CASE b = s  BY <1>3, <1>4, <1>5, <1>6, <2>2
  <2>3. CASE a # s /\ b # s  BY <1>a, <1>3, <2>3 DEF Alone
  <2> QED BY <2>1, <2>2, <2>3
<1>8. \A a, b \in Sessions : a # b => (Client \in up'[a] => Client \notin up'[b])
  BY <1>a DEF Alone
<1>9. ASSUME NEW b \in Sessions, b # s, phase'[s] = "optimistic", error'[s] = "none",
             NEW k \in Hosts, Checked(s, k)'
      PROVE  ~Works(b, k)'
  <2>1. ~Works(b, k)  BY <1>a, <1>1, <1>9 DEF Alone, Checked
  <2> QED BY <1>9, <2>1 DEF Works, Same
<1>10. \A a \in Sessions : Client \in up'[a] => a = s
  BY <1>1
<1> QED BY <1>2, <1>7, <1>8, <1>9, <1>10 DEF Alone, Checked

LEMMA UserAlone ==
  ASSUME CommitInv, TypeOK', ~Concurrent, NEW s \in Sessions, UserStep(s)
  PROVE  Alone'
<1>t. TypeOK /\ LockInv /\ BooksOne(s)
  BY LiveHas DEF CommitInv
<1>a. Alone  BY DEF CommitInv, Protocol
<1>o. \A t \in Sessions \ {s} : Same(t)  BY <1>t, OthersSame
<1>c. conn'[s] \in BOOLEAN  BY DEF TypeOK
<1> USE DEF disk, caches, proc, answers, client, outside
<1>1. CASE Start(s)
  <2>1. /\ up'[s] = Hosts /\ phase'[s] = "idle" /\ todo'[s] = {}
        /\ \A t \in Sessions : Client \notin up[t]
    BY <1>1, <1>t DEF Start, TypeOK
  <2>2. ~Busy(s)' /\ ~Engaged(s)'  BY <2>1 DEF Busy, Engaged, Works
  <2>3. \A t \in Sessions \ {s} : (Busy(t)' <=> Busy(t)) /\ (Engaged(t)' <=> Engaged(t))
    BY <1>o DEF Busy, Engaged, Works, Same
  <2>4. \A a, b \in Sessions : a # b /\ Engaged(a)' => ~Busy(b)'
    BY <1>a, <2>2, <2>3 DEF Alone
  <2>5. \A t \in Sessions \ {s} : up'[t] = up[t] /\ conn'[t] = conn[t]
    BY <1>o DEF Same
  <2>6. \A a \in Sessions : Client \in up'[a] => a = s
    BY <2>1, <2>5
  <2>7. \A t \in Sessions : conn'[t] => up'[t] = Hosts
    BY <1>a, <2>1, <2>5 DEF Alone
  <2> QED BY <2>1, <2>4, <2>6, <2>7 DEF Alone
<1>2. CASE ~Start(s)
  <2>1. conn[s] /\ UNCHANGED up
    BY <1>2 DEF UserStep, ClientStep, FindUpdates, Propagate, CommitUpdates, Disconnect,
                AfterOptimistic, AfterLock, AfterExists, AfterPostCommit, AfterClean,
                VerifyMain, AfterLoad, AfterPrepare, AfterCommit, AfterUnlock, GiveUp, Decides
  <2>2. up[s] = Hosts /\ Client \in up[s]
    BY <1>a, <2>1, HostsAssumption DEF Alone
  <2> DEFINE Settled == Engaged(s)' => Engaged(s) \/ \A t \in Sessions \ {s} : ~Busy(t)
             Fresh == phase'[s] = "optimistic" /\ error'[s] = "none" =>
                        \A k \in Hosts : Checked(s, k)' =>
                          /\ Checked(s, k) /\ phase[s] = "optimistic" /\ error[s] = "none"
  <2> HIDE DEF Settled, Fresh
  <2>3. ASSUME AfterOptimistic(s) PROVE Settled /\ Fresh
    <3>1. CASE Identical(s) /\ Settle(s, "ready")
      <4>1. phase'[s] = "ready"  BY <1>t, <3>1 DEF Settle, TypeOK
      <4>2. \A t \in Sessions \ {s}, k \in Hosts : ~Works(t, k)
        BY <1>a, <2>2, <2>3, <3>1 DEF Alone, AfterOptimistic, Decides, Identical
      <4> QED BY <4>1, <4>2 DEF Settled, Fresh, Busy
    <3>2. CASE Send(s, "lock")
      <4>1. phase'[s] = "lock" /\ goal'[s] = "load"
        BY <1>t, <2>3, <3>2 DEF AfterOptimistic, Decides, Send, TypeOK, BooksOne
      <4>2. ~Engaged(s)'  BY <4>1 DEF Engaged, Busy, Works, LockedPhases
      <4> QED BY <4>1, <4>2 DEF Settled, Fresh
    <3> QED BY <2>3, <3>1, <3>2 DEF AfterOptimistic
  <2>4. ASSUME AfterLock(s) PROVE Settled /\ Fresh
    <3>1. CASE refused[s] = {}
      <4>1. \A k \in Hosts : lock[k] = s
        BY <1>t, <2>2, <2>4, <3>1 DEF AfterLock, Decides, LockInv, LocksHeld
      <4>2. \A t \in Sessions \ {s}, k \in Hosts : ~Works(t, k)
        BY <1>t, <4>1, WorkLocks
      <4>3. phase'[s] # "optimistic"
        BY <1>t, <2>4, <3>1 DEF AfterLock, Send, TypeOK
      <4> QED BY <4>2, <4>3 DEF Settled, Fresh, Busy
    <3>2. CASE refused[s] # {}
      <4>1. phase' = phase /\ phase[s] = "lock" /\ goal' = goal
        BY <2>4, <3>2 DEF AfterLock, Decides, Fail
      <4>2. Engaged(s)' => Engaged(s)
        BY <2>1, <4>1 DEF Engaged, Busy, Works, LockedPhases
      <4> QED BY <4>1, <4>2 DEF Settled, Fresh
    <3> QED BY <3>1, <3>2
  <2>5. ASSUME FindUpdates(s) PROVE Settled /\ Fresh
    <3>1. phase'[s] = "optimistic" /\ todo'[s] = Hosts /\ half'[s] = {}
      BY <1>t, <2>5 DEF FindUpdates, TypeOK, BooksOne
    <3>2. ~Engaged(s)'  BY <3>1 DEF Engaged, Busy, Works, LockedPhases
    <3> QED BY <3>1, <3>2 DEF Settled, Fresh, Checked
  <2>6. ASSUME GiveUp(s) PROVE Settled /\ Fresh
    <3>1. phase'[s] = "idle"  BY <1>t, <2>6 DEF GiveUp, TypeOK
    <3>2. ~Engaged(s)'  BY <3>1 DEF Engaged, Busy, Works, LockedPhases
    <3> QED BY <3>1, <3>2 DEF Settled, Fresh
  <2>7. ASSUME Disconnect(s) PROVE Settled /\ Fresh
    BY <2>7 DEF Disconnect, Settled, Fresh, Engaged, Busy, Works, Checked
  <2>8. ASSUME \/ AfterExists(s) \/ AfterPostCommit(s) \/ AfterClean(s) \/ VerifyMain(s)
               \/ AfterLoad(s) \/ AfterPrepare(s) \/ AfterCommit(s) \/ AfterUnlock(s)
               \/ Propagate(s) \/ CommitUpdates(s)
        PROVE  Settled /\ Fresh
    <3>1. phase[s] \notin {"idle", "optimistic", "lock"}
      BY <2>8 DEF AfterExists, AfterPostCommit, AfterClean, VerifyMain, AfterLoad,
                  AfterPrepare, AfterCommit, AfterUnlock, Propagate, CommitUpdates, Decides
    <3>2. phase'[s] # "optimistic"
      BY <1>t, <2>8, <3>1
         DEF AfterExists, AfterPostCommit, AfterClean, VerifyMain, AfterLoad, AfterPrepare,
             AfterCommit, AfterUnlock, Propagate, CommitUpdates, Send, Settle, Fail, Release,
             TypeOK
    <3> QED BY <2>2, <3>1, <3>2 DEF Settled, Fresh, Engaged
  <2>9. Settled /\ Fresh
    BY <1>2, <2>3, <2>4, <2>5, <2>6, <2>7, <2>8 DEF UserStep, ClientStep
  <2> QED BY <1>c, <1>o, <2>1, <2>9, ClientAlone DEF Settled, Fresh
<1> QED BY <1>1, <1>2

-----------------------------------------------------------------------------
(* What the others rely on survives a step.  When a host writes for one    *)
(* session, the other is still before its first answer from that host.     *)

LEMMA OthersBehind ==
  ASSUME CommitInv, NEW s \in Sessions, NEW h \in Hosts, Works(s, h),
         NEW t \in Sessions, t # s, Live(t)
  PROVE  /\ phase[t] \notin {"idle", "optimistic"} => phase[t] = "lock" /\ goal[t] # "commit"
         /\ phase[t] = "optimistic" /\ error[t] = "none" => ~Checked(t, h)
<1>a. Alone  BY DEF CommitInv, Protocol
<1>1. Busy(s) /\ Engaged(s)  BY DEF Busy, Engaged
<1>2. ~Busy(t) /\ ~Engaged(t)  BY <1>a, <1>1 DEF Alone
<1>3. Client \in up[t]  BY <1>2 DEF Live
<1> QED BY <1>a, <1>2, <1>3 DEF Alone, Engaged, Checked

LEMMA OthersKept ==
  ASSUME CommitInv, NEW s \in Sessions, NEW t \in Sessions, t # s, Same(t),
         NEW h \in Hosts, Works(s, h) \/ UNCHANGED <<main, new, scratch>>,
         \A k \in Hosts \ {h} :
           main'[k] = main[k] /\ new'[k] = new[k] /\ scratch'[k] = scratch[k],
         clock' = clock \/ (Client \in up[s] /\ Engaged(s)),
         clock > 0 => clock' > 0
  PROVE  BooksOne(t)' /\ (Live(t)' => Claims(t)')
<1>a. Alone  BY DEF CommitInv, Protocol
<1>l. Live(t)' <=> Live(t)  BY DEF Live, Busy, Works, Same
<1>b. BooksOne(t) /\ (Live(t) => InvOf(t))  BY LiveHas
<1>1. CASE Client \in up[s] /\ Engaged(s)
  <2>1. ~Live(t)  BY <1>a, <1>1 DEF Alone, Live
  <2> QED BY <1>b, <1>l, <2>1 DEF BooksOne, Same
<1>2. CASE clock' = clock
  <2>1. BooksOne(t)'  BY <1>b, <1>2 DEF BooksOne, Same
  <2>2. CASE UNCHANGED <<main, new, scratch>>
    <3>1. ASSUME Live(t) PROVE NoLeftoverOne(t)'
      BY <1>b, <2>2, <3>1 DEF InvOf, NoLeftoverOne, Same, Exists
    <3>2. ASSUME Live(t) PROVE KnowledgeOne(t)'
      BY <1>b, <1>2, <2>2, <3>2 DEF InvOf, KnowledgeOne, Same, Exists
    <3>3. ASSUME Live(t) PROVE SwitchingOne(t)'
      BY <1>b, <1>2, <2>2, <3>3 DEF InvOf, SwitchingOne, Same, Exists, AllNew
    <3> QED BY <1>l, <2>1, <3>1, <3>2, <3>3 DEF Claims
  <2>3. CASE Works(s, h)
    <3>1. ASSUME Live(t) PROVE Claims(t)'
      <4>1. /\ phase'[t] \notin {"idle", "optimistic"} => phase'[t] = "lock" /\ goal'[t] # "commit"
            /\ phase[t] = "optimistic" /\ error[t] = "none" => ~Checked(t, h)
        BY <2>3, <3>1, OthersBehind DEF Same
      <4>2. NoLeftoverOne(t)'  BY <4>1 DEF NoLeftoverOne
      <4>3. SwitchingOne(t)'   BY <4>1 DEF SwitchingOne
      <4>4. ASSUME phase'[t] = "optimistic", error'[t] = "none", NEW k \in Hosts, Checked(t, k)'
            PROVE  ~Exists(new'[k])
        <5>1. phase[t] = "optimistic" /\ error[t] = "none" /\ Checked(t, k)
          BY <4>4 DEF Same, Checked
        <5>2. k # h  BY <4>1, <5>1
        <5>3. ~Exists(new[k])
          BY <1>b, <3>1, <5>1 DEF InvOf, KnowledgeOne, Checked
        <5> QED BY <5>2, <5>3
      <4>5. KnowledgeOne(t)'  BY <4>1, <4>4 DEF KnowledgeOne, Checked, Exists
      <4> QED BY <4>2, <4>3, <4>5 DEF Claims
    <3> QED BY <1>l, <2>1, <3>1
  <2> QED BY <2>2, <2>3
<1> QED BY <1>1, <1>2

-----------------------------------------------------------------------------
(* The invariant, and the refinement.                                      *)

LEMMA InitCommitInv == Init => CommitInv
<1> SUFFICES ASSUME Init PROVE CommitInv
  OBVIOUS
<1>1. LockInv  BY InitLockInv
<1>2. \A h \in Hosts : ~Exists(new[h]) /\ main[h] = Blank /\ scratch[h] = Blank
  BY DEF Init, Exists
<1>3. \A s \in Sessions : /\ phase[s] = "idle" /\ todo[s] = {} /\ half[s] = {}
                          /\ ~ignore[s] /\ up[s] = {} /\ ~conn[s]
  BY DEF Init
<1>4. Coherent  BY <1>2, HostsAssumption DEF Coherent, AllNew
<1>5. Ordered   BY <1>2 DEF Init, Ordered, Exists, Blank, Torn
<1>6. NoLeftover /\ Knowledge /\ Switching /\ Bookkeeping
  BY <1>3 DEF NoLeftover, Knowledge, Switching, Bookkeeping
<1>7. Alone  BY <1>3 DEF Alone, Engaged, Busy, Works
<1> QED BY <1>1, <1>4, <1>5, <1>6, <1>7 DEF CommitInv, Protocol

LEMMA HostStepKept ==
  ASSUME CommitInv, LockInv', NEW s \in Sessions, NEW h \in Hosts, HostStep(s, h)
  PROVE  CommitInv' /\ (Live(s) => Kept(s))
<1>t. TypeOK /\ TypeOK' /\ BooksOne(s)
  BY LiveHas DEF LockInv
<1>1. Alone'  BY HostAlone
<1>2. \A t \in Sessions \ {s} : Same(t)  BY <1>t, OthersSame
<1>3. \A t \in Sessions \ {s} : BooksOne(t)' /\ (Live(t)' => Claims(t)')
  BY <1>t, <1>2, HostDoes, OthersKept
<1>4. CASE Live(s)
  <2>1. Kept(s)  BY <1>t, <1>4, LiveHas, HandlerKept, FaultKept DEF HostStep
  <2> QED BY <1>1, <1>3, <2>1, AllHave DEF Kept, Claims
<1>5. CASE ~Live(s)
  <2>1. UNCHANGED <<main, new, scratch>> /\ clock' = clock
    BY <1>t, <1>5, HostDoes DEF Live, Busy
  <2>2. Coherent' /\ Ordered'
    BY <2>1, OtherFilesKept DEF CommitInv, Protocol
  <2>3. BooksOne(s)'  BY <1>t, HostBooks
  <2>4. ~Live(s)'
    BY <1>t, <1>5, HostDoes DEF Live, Busy, Works
  <2> QED BY <1>1, <1>3, <1>5, <2>2, <2>3, <2>4, AllHave
<1> QED BY <1>4, <1>5

LEMMA UserStepKept ==
  ASSUME ~Concurrent, ~IgnoreAllowed, CommitInv, LockInv', NEW s \in Sessions, UserStep(s)
  PROVE  CommitInv'
<1>t. TypeOK /\ TypeOK' /\ BooksOne(s) /\ Client \in Hosts
  BY LiveHas, HostsAssumption DEF LockInv
<1>a. Alone  BY DEF CommitInv, Protocol
<1>1. Alone'  BY <1>t, UserAlone
<1>2. \A t \in Sessions \ {s} : Same(t)  BY <1>t, OthersSame
<1> USE DEF disk, caches, proc, answers, client, outside
<1>3. UNCHANGED <<main, new, scratch>>  BY UserFiles
<1>4. CASE Start(s)
  <2>1. /\ phase'[s] = "idle" /\ todo'[s] = {} /\ ~ignore'[s] /\ clock' = clock
        /\ up[s] = {} /\ half'[s] = half[s]
    BY <1>4, <1>t DEF Start, TypeOK
  <2>2. Coherent' /\ Ordered'
    BY <1>3, <2>1, OtherFilesKept DEF CommitInv, Protocol
  <2>3. BooksOne(s)' /\ Claims(s)'
    BY <1>t, <2>1 DEF BooksOne, Claims, NoLeftoverOne, KnowledgeOne, SwitchingOne
  <2>4. \A t \in Sessions \ {s} : BooksOne(t)' /\ (Live(t)' => Claims(t)')
    BY <1>t, <1>2, <1>3, <2>1, OthersKept
  <2> QED BY <1>1, <2>2, <2>3, <2>4, AllHave
<1>5. CASE ~Start(s)
  <2>1. conn[s]
    BY <1>5 DEF UserStep, ClientStep, FindUpdates, Propagate, CommitUpdates, Disconnect,
                AfterOptimistic, AfterLock, AfterExists, AfterPostCommit, AfterClean,
                VerifyMain, AfterLoad, AfterPrepare, AfterCommit, AfterUnlock, GiveUp, Decides
  <2>2. Client \in up[s] /\ Live(s)
    BY <1>a, <1>t, <2>1 DEF Alone, Live
  <2>3. Kept(s)  BY <1>t, <2>2, LiveHas, ClientKept DEF UserStep
  <2>4. /\ clock' = clock \/ (Client \in up[s] /\ Engaged(s))
        /\ clock > 0 => clock' > 0
    <3>1. CASE AfterLock(s)
      BY <1>t, <2>2, <3>1 DEF AfterLock, Decides, Engaged, TypeOK
    <3>2. CASE ~AfterLock(s)
      BY <1>5, <3>2 DEF UserStep, ClientStep, FindUpdates, Propagate, CommitUpdates,
         Disconnect, AfterOptimistic, AfterExists, AfterPostCommit, AfterClean, VerifyMain,
         AfterLoad, AfterPrepare, AfterCommit, AfterUnlock, GiveUp
    <3> QED BY <3>1, <3>2
  <2>5. \A t \in Sessions \ {s} : BooksOne(t)' /\ (Live(t)' => Claims(t)')
    BY <1>t, <1>2, <1>3, <2>4, OthersKept
  <2> QED BY <1>1, <2>3, <2>5, AllHave DEF Kept, Claims
<1> QED BY <1>4, <1>5

LEMMA NextKept ==
  ASSUME ~Concurrent, ~IgnoreAllowed, CommitInv, [Next]_vars
  PROVE  CommitInv'
<1>t. LockInv'  BY NextLocks DEF CommitInv
<1>1. ASSUME UNCHANGED <<main, new, scratch, caches, proc, client, todo, half, answers>>
      PROVE  CommitInv'
  <2> USE DEF caches, proc, client, answers
  <2>1. Coherent' /\ Ordered'
    BY <1>1, OtherFilesKept DEF CommitInv, Protocol
  <2>2. NoLeftover' /\ Knowledge'
    BY <1>1 DEF CommitInv, Protocol, NoLeftover, Knowledge, Live, Busy, Works, Exists
  <2>3. Switching' /\ Bookkeeping'
    BY <1>1 DEF CommitInv, Protocol, Switching, Bookkeeping, Live, Busy, Works, AllNew, Exists
  <2>4. Alone'
    BY <1>1 DEF CommitInv, Protocol, Alone, Engaged, Busy, Works
  <2> QED BY <1>t, <2>1, <2>2, <2>3, <2>4 DEF CommitInv, Protocol
<1>2. CASE UNCHANGED vars
  BY <1>1, <1>2 DEF vars, disk, client
<1>3. ASSUME NEW h \in Hosts, RemoveStaleLock(h) PROVE CommitInv'
  BY <1>1, <1>3 DEF RemoveStaleLock
<1>4. ASSUME NEW s \in Sessions, NEW h \in Hosts, HostStep(s, h) PROVE CommitInv'
  BY <1>t, <1>4, HostStepKept
<1>5. ASSUME NEW s \in Sessions, UserStep(s) PROVE CommitInv'
  BY <1>t, <1>5, UserStepKept
<1> QED BY <1>2, <1>3, <1>4, <1>5 DEF Next, HostStep, UserStep

(* With one client at a time, also when servers of earlier ones are still  *)
(* at work, recovery always finds the archive files in order: if all hosts *)
(* have a new archive then these come from one commit, and if not, then    *)
(* the main archives do (Coherent; commitUpdates, doArchiveCrashRecovery). *)
THEOREM CrashRecovery ==
  ASSUME ~Concurrent, ~IgnoreAllowed
  PROVE  Spec => []Coherent
<1>1. CommitInv /\ [Next]_vars => CommitInv'  BY NextKept
<1>2. CommitInv => Coherent  BY DEF CommitInv
<1> QED BY <1>1, <1>2, InitCommitInv, PTL DEF Spec

(* With one client at a time the joint commit protocol is followed: the    *)
(* new archives are out of the way before a run, what the client learned   *)
(* from the hosts is still true when it acts upon it, and nobody else      *)
(* works on the archive files meanwhile (Protocol; findUpdates,            *)
(* commitUpdates and doArchiveCrashRecovery of update.ml).                 *)
THEOREM JointCommit ==
  ASSUME ~Concurrent, ~IgnoreAllowed
  PROVE  Spec => []Protocol
<1>1. CommitInv /\ [Next]_vars => CommitInv'  BY NextKept
<1>2. CommitInv => Protocol  BY DEF CommitInv
<1> QED BY <1>1, <1>2, InitCommitInv, PTL DEF Spec

(* What a step of a host does to the stored state: only the last of the    *)
(* renamings in commitArchive changes it, to a newer one.                  *)
LEMMA HandlerStore ==
  ASSUME NEW s \in Sessions, NEW h \in Hosts, InvOf(s), Kept(s), TypeOK',
         Handler(s, h)
  PROVE  [Store!Commit]_Stored
<1> USE DEF disk, caches, proc, answers, client
<1>t. TypeOK /\ Client \in Hosts  BY HostsAssumption DEF InvOf
<1>1. ASSUME UNCHANGED <<main, new>> PROVE Stored' = Stored
  BY <1>1 DEF Stored, AllNew, Exists
<1>2. CASE \/ PostCommitUnlink(s, h) \/ PostCommitCreate(s, h)
           \/ PostCommitLink(s, h)
  <2>1. AllNew /\ new' = new
    BY <1>2 DEF PostCommitUnlink, PostCommitCreate, PostCommitLink, Runs, InvOf,
                KnowledgeOne, AllNew
  <2>2. Stored' = Stored
    BY <2>1 DEF Stored, AllNew, Exists
  <2> QED BY <2>2
<1>3. CASE RemoveArchive(s, h)
  <2>1. phase[s] = "clean" /\ main' = main  BY <1>3 DEF RemoveArchive, Runs
  <2>2. AllNew => new[Client] = main[Client]
    BY <1>t, <2>1 DEF InvOf, SwitchingOne
  <2>3. ~AllNew'
    BY <1>3, <1>t DEF RemoveArchive, TypeOK, AllNew, Exists
  <2>4. Stored' = Stored
    BY <2>1, <2>2, <2>3 DEF Stored
  <2> QED BY <2>4
<1>4. CASE CommitArchive(s, h)
  <2>1. phase[s] = "commit" /\ phase'[s] = "commit" /\ h \in todo[s]
        /\ clock' = clock /\ main' = main
    BY <1>4 DEF CommitArchive, Runs
  <2>2. ~AllNew /\ main[Client].magic < clock
    BY <1>t, <2>1 DEF InvOf, SwitchingOne, AllNew
  <2>3. CASE ~AllNew'
    BY <2>1, <2>2, <2>3 DEF Stored
  <2>4. CASE AllNew'
    <3>1. new'[Client].magic = clock
      BY <1>t, <2>1, <2>4 DEF Kept, SwitchingOne, AllNew
    <3>2. clock \in Nat /\ new'[Client] \in Files
      BY <1>t, OptionAssumption DEF TypeOK
    <3>3. new'[Client] \in [magic : Nat, arc : Contents \cup {NoArchive}]
      BY <3>1, <3>2 DEF Files
    <3> QED BY <2>2, <2>4, <3>1, <3>3 DEF Stored, Store!Commit
  <2> QED BY <2>3, <2>4
<1>5. CASE \/ ClearArchive(s, h) \/ OptimisticCheck(s, h) \/ OptimisticRead(s, h)
           \/ LockArchive(s, h) \/ ArchivesExist(s, h) \/ LoadArchive(s, h)
           \/ PrepareCommit(s, h) \/ UnlockArchive(s, h)
  BY <1>1, <1>5 DEF ClearArchive, OptimisticCheck, OptimisticRead, LockArchive,
                    ArchivesExist, LoadArchive, PrepareCommit, UnlockArchive
<1> QED BY <1>2, <1>3, <1>4, <1>5 DEF Handler

LEMMA NextStore ==
  ASSUME ~Concurrent, ~IgnoreAllowed, CommitInv, [Next]_vars
  PROVE  [Store!Commit]_Stored
<1>t. TypeOK'  BY NextTypeOK, LiveHas DEF CommitInv, LockInv
<1>1. ASSUME UNCHANGED <<main, new>> PROVE Stored' = Stored
  BY <1>1 DEF Stored, AllNew, Exists
<1> USE DEF disk, caches, proc, answers, client, outside
<1>2. CASE UNCHANGED vars
  BY <1>1, <1>2 DEF vars
<1>3. ASSUME NEW h \in Hosts, RemoveStaleLock(h) PROVE UNCHANGED <<main, new>>
  BY <1>3 DEF RemoveStaleLock
<1>4. ASSUME NEW s \in Sessions, NEW h \in Hosts, Handler(s, h)
      PROVE  [Store!Commit]_Stored
  <2>1. CASE Live(s)
    <3>1. InvOf(s)  BY <2>1, LiveHas
    <3>2. Kept(s)   BY <1>t, <1>4, <3>1, HandlerKept
    <3> QED BY <1>t, <1>4, <3>1, <3>2, HandlerStore
  <2>2. CASE ~Live(s)
    <3>1. UNCHANGED <<main, new>>
      BY <1>4, <2>2, LiveHas, HostDoes DEF HostStep, Live, Busy
    <3> QED BY <1>1, <3>1
  <2> QED BY <2>1, <2>2
<1>5. ASSUME NEW s \in Sessions, NEW h \in Hosts,
             CommandFails(s, h) \/ Leave(s, h) \/ Kill(s, h)
      PROVE  UNCHANGED <<main, new>>
  BY <1>5 DEF CommandFails, Leave, Kill
<1>6. ASSUME NEW s \in Sessions,
             ClientStep(s) \/ FindUpdates(s) \/ Propagate(s) \/ CommitUpdates(s)
               \/ Start(s) \/ Disconnect(s)
      PROVE  UNCHANGED <<main, new>>
  BY <1>6 DEF ClientStep, FindUpdates, Propagate, CommitUpdates, Start, Disconnect,
       AfterOptimistic, AfterLock, AfterExists, AfterPostCommit, AfterClean, VerifyMain,
       AfterLoad, AfterPrepare, AfterCommit, AfterUnlock, GiveUp
<1> QED BY <1>1, <1>2, <1>3, <1>4, <1>5, <1>6 DEF Next

(* With one client at a time the archive files of all hosts together are   *)
(* one stored state that every commit replaces in a single step: the       *)
(* manual's guarantee about Unison's private state (StoreSpec).            *)
THEOREM AtomicStore ==
  ASSUME ~Concurrent, ~IgnoreAllowed
  PROVE  Spec => StoreSpec
<1>1. Init => Store!Init
  BY HostsAssumption
     DEF Init, Store!Init, Store!Empty, Stored, AllNew, Exists, Blank
<1>2. CommitInv /\ [Next]_vars => CommitInv'  BY NextKept
<1>3. CommitInv /\ [Next]_vars => [Store!Commit]_Stored  BY NextStore
<1> QED BY <1>1, <1>2, <1>3, InitCommitInv, PTL DEF Spec, StoreSpec, Store!Spec
-----------------------------------------------------------------------------
(* What is in memory.  Fits: the archive of the host is the one in its main*)
(* file, and the cache says so.  Sound: if the cache says that an archive  *)
(* is in memory, then it is.                                               *)

Fits(s, h) == info[s][h] = main[h] /\ mem[s][h] = main[h].arc
Sound(s, h) == info[s][h] = Blank \/ mem[s][h] = info[s][h].arc

(* An optimistic load: whether a server that outlived its client has a     *)
(* cache that is not sound does not matter, since the new client has no    *)
(* cache and answers with the identity of its file.                        *)
AnswersFit(s) ==
  /\ \A h \in Hosts \ (todo[s] \cup refused[s]) :
       /\ Exists(main[h]) /\ info[s][h] = main[h] /\ got[s][h] \in {Blank, main[h]}
       /\ got[s][h] = main[h] => mem[s][h] = main[h].arc
  /\ \/ Client \in todo[s] /\ info[s][Client] # Blank
     \/ Client \notin todo[s] \cup refused[s] /\ got[s][Client] = Blank
     => \A h \in Hosts : Sound(s, h)

(* A commit: what is in memory is what is written.                         *)
WritesFit(s) ==
  \A h \in Hosts :
    /\ phase[s] = "prepare" /\ h \notin todo[s] => scratch[h].arc = mem[s][h]
    /\ phase[s] = "commit" =>
         mem[s][h] = IF h \in todo[s] THEN scratch[h].arc ELSE new[h].arc
    /\ phase[s] = "post" /\ goal[s] = "commit" =>
         IF h \in todo[s] THEN mem[s][h] = new[h].arc ELSE Fits(s, h)
    /\ phase[s] = "clean" /\ goal[s] = "commit" => Fits(s, h)

(* Without a connection or after an error nothing is said of memory: the   *)
(* text client ends then, and the next one starts without a cache.         *)
Connected(s) == conn[s] = TRUE /\ error[s] = "none"

MemoryFits(s) ==
  /\ Client \notin up[s] => info[s][Client] = Blank
  /\ phase[s] = "exists" => goal[s] = "load"
  /\ Connected(s) =>
     /\ phase[s] = "idle" => info[s][Client] = Blank
     /\ phase[s] = "optimistic" => AnswersFit(s)
     /\ phase[s] = "load" =>
          \A h \in Hosts \ todo[s] : got[s][h] = main[h] /\ Fits(s, h)
     /\ phase[s] \in {"unlock", "ready"} => \A h \in Hosts : Fits(s, h)
     /\ WritesFit(s)

LoadInv == CommitInv /\ \A s \in Sessions : MemoryFits(s)

LEMMA RememberDoes ==
  ASSUME TypeOK, NEW s \in Sessions, NEW h \in Hosts, NEW content, NEW file,
         Remember(s, h, content, file)
  PROVE  \A k \in Hosts : /\ mem'[s][k] = IF k = h THEN content ELSE mem[s][k]
                          /\ info'[s][k] = IF k = h THEN file ELSE info[s][k]
  BY DEF TypeOK, Remember

LEMMA AnswerDoes ==
  ASSUME TypeOK, NEW s \in Sessions, NEW h \in Hosts, NEW file, Answer(s, h, file)
  PROVE  /\ refused' = refused
         /\ \A k \in Hosts : got'[s][k] = IF k = h THEN file ELSE got[s][k]
  BY DEF TypeOK, Answer

(* A step that changes none of what MemoryFits speaks of, or leads to a    *)
(* phase of which it says nothing.                                         *)
LEMMA MemoryKept ==
  ASSUME NEW s \in Sessions, MemoryFits(s),
         UNCHANGED <<mem, info, up>>,
         phase'[s] = "exists" => goal'[s] = "load",
         Connected(s)' => phase'[s] \in {"changed", "lock", "exists", "verify"}
  PROVE  MemoryFits(s)'
  BY DEF MemoryFits, WritesFit

LEMMA HandlerMemory ==
  ASSUME TypeOK, NEW s \in Sessions, NEW h \in Hosts, ~ignore[s], MemoryFits(s), Handler(s, h)
  PROVE  MemoryFits(s)'
<1> USE DEF disk, caches, proc, answers, client
<1>t. TypeOK /\ Client \in Hosts /\ todo[s] \subseteq Hosts
  BY HostsAssumption DEF TypeOK
<1>1. CASE ClearArchive(s, h)
  BY <1>1 DEF ClearArchive
<1>2. CASE OptimisticCheck(s, h)
  <2>1. CASE Refuse(s, h) /\ Done(s, h)
    <3>1. todo'[s] = todo[s] \ {h} /\ h \in todo[s]
      BY <1>2, <1>t, <2>1, DoneDoes DEF OptimisticCheck, Runs
    <3>2. refused'[s] = refused[s] \cup {h} /\ got' = got
      BY <1>t, <2>1 DEF Refuse, TypeOK
    <3>3. AnswersFit(s) => AnswersFit(s)'
      BY <1>2, <3>1, <3>2 DEF OptimisticCheck, AnswersFit, Sound, Exists
    <3> QED BY <1>2, <3>3 DEF OptimisticCheck, Runs, MemoryFits, WritesFit, Connected
  <2>2. CASE UNCHANGED <<todo, answers>>
    BY <1>2, <2>2 DEF OptimisticCheck, Runs, MemoryFits, WritesFit, Connected, AnswersFit,
                      Sound, Exists
  <2> QED BY <1>2, <2>1, <2>2 DEF OptimisticCheck, Halfway
<1>3. CASE OptimisticRead(s, h)
  <2>1. todo'[s] = todo[s] \ {h} /\ h \in todo[s] /\ h \in up[s] /\ phase[s] = "optimistic"
    BY <1>3, <1>t, DoneDoes DEF OptimisticRead, Runs
  <2>2. CASE Exists(main[h]) /\ info[s][h] = main[h] /\ Answer(s, h, Blank) /\ UNCHANGED caches
    <3>1. refused' = refused /\ \A k \in Hosts : got'[s][k] = IF k = h THEN Blank ELSE got[s][k]
      BY <1>t, <2>2, AnswerDoes
    <3>2. AnswersFit(s) => AnswersFit(s)'
      BY <1>3, <1>t, <2>1, <2>2, <3>1 DEF OptimisticRead, AnswersFit, Sound, Exists
    <3> QED BY <1>3, <2>1, <2>2, <3>2 DEF OptimisticRead, MemoryFits, WritesFit, Connected
  <2>3. CASE /\ Exists(main[h]) /\ Remember(s, h, main[h].arc, main[h])
             /\ Answer(s, h, main[h])
    <3>1. refused' = refused /\ \A k \in Hosts : got'[s][k] = IF k = h THEN main[h] ELSE got[s][k]
      BY <1>t, <2>3, AnswerDoes
    <3>2. \A k \in Hosts : /\ mem'[s][k] = IF k = h THEN main[h].arc ELSE mem[s][k]
                           /\ info'[s][k] = IF k = h THEN main[h] ELSE info[s][k]
      BY <1>t, <2>3, RememberDoes
    <3>3. AnswersFit(s) => AnswersFit(s)'
      BY <1>3, <1>t, <2>1, <2>3, <3>1, <3>2 DEF OptimisticRead, AnswersFit, Sound, Exists
    <3> QED BY <1>3, <1>t, <2>1, <3>2, <3>3 DEF OptimisticRead, MemoryFits, WritesFit, Connected
  <2>4. CASE Refuse(s, h) /\ UNCHANGED caches
    <3>1. refused'[s] = refused[s] \cup {h} /\ got' = got
      BY <1>t, <2>4 DEF Refuse, TypeOK
    <3>2. AnswersFit(s) => AnswersFit(s)'
      BY <1>3, <2>1, <2>4, <3>1 DEF OptimisticRead, AnswersFit, Sound, Exists
    <3> QED BY <1>3, <2>1, <2>4, <3>2 DEF OptimisticRead, MemoryFits, WritesFit, Connected
  <2> QED BY <1>3, <2>2, <2>3, <2>4 DEF OptimisticRead
<1>4. CASE LockArchive(s, h) \/ ArchivesExist(s, h)
  BY <1>4, MemoryKept DEF LockArchive, ArchivesExist, Runs, Connected, MemoryFits
<1>5. CASE PostCommitUnlink(s, h) \/ PostCommitCreate(s, h)
  <2>1. phase[s] = "post" /\ h \in todo[s] /\ todo' = todo /\ \A k \in Hosts \ {h} : main'[k] = main[k]
    BY <1>5, <1>t DEF PostCommitUnlink, PostCommitCreate, Halfway, Runs, TypeOK
  <2> QED BY <1>5, <2>1
          DEF PostCommitUnlink, PostCommitCreate, MemoryFits, WritesFit, Connected, Fits
<1>6. CASE PostCommitLink(s, h)
  <2>1. phase[s] = "post" /\ h \in todo[s] /\ h \in up[s] /\ todo'[s] = todo[s] \ {h}
    BY <1>6, <1>t, DoneDoes DEF PostCommitLink, Runs
  <2>2. \A k \in Hosts : /\ main'[k] = IF k = h THEN new[h] ELSE main[k]
                         /\ info'[s][k] = IF k = h THEN new[h] ELSE info[s][k]
    BY <1>6, <1>t DEF PostCommitLink, TypeOK
  <2> QED BY <1>6, <1>t, <2>1, <2>2
          DEF PostCommitLink, MemoryFits, WritesFit, Connected, Fits
<1>7. CASE RemoveArchive(s, h)
  BY <1>7 DEF RemoveArchive, Runs, MemoryFits, WritesFit, Connected, Fits
<1>8. CASE LoadArchive(s, h)
  <2>1. phase[s] = "load" /\ h \in up[s] /\ todo'[s] = todo[s] \ {h}
    BY <1>8, <1>t, DoneDoes DEF LoadArchive, Runs
  <2>2. \A k \in Hosts : got'[s][k] = IF k = h THEN main[h] ELSE got[s][k]
    BY <1>8, <1>t, AnswerDoes DEF LoadArchive
  <2>3. Remember(s, h, main[h].arc, main[h])
    BY <1>8 DEF LoadArchive, Exists, Blank
  <2>4. \A k \in Hosts : /\ mem'[s][k] = IF k = h THEN main[h].arc ELSE mem[s][k]
                         /\ info'[s][k] = IF k = h THEN main[h] ELSE info[s][k]
    BY <1>t, <2>3, RememberDoes
  <2> QED BY <1>8, <1>t, <2>1, <2>2, <2>4
          DEF LoadArchive, MemoryFits, WritesFit, Connected, Fits
<1>9. CASE PrepareCommit(s, h)
  <2>1. phase[s] = "prepare" /\ todo'[s] = todo[s] \ {h}
    BY <1>9, <1>t, DoneDoes DEF PrepareCommit, Runs
  <2>2. \A k \in Hosts : scratch'[k] =
          IF k = h THEN [magic |-> magic[s], arc |-> mem[s][h]] ELSE scratch[k]
    BY <1>9, <1>t DEF PrepareCommit, TypeOK
  <2> QED BY <1>9, <2>1, <2>2 DEF PrepareCommit, MemoryFits, WritesFit, Connected, Fits
<1>10. CASE CommitArchive(s, h)
  <2>1. phase[s] = "commit" /\ h \in todo[s] /\ todo'[s] = todo[s] \ {h}
    BY <1>10, <1>t, DoneDoes DEF CommitArchive, Runs
  <2>2. \A k \in Hosts : /\ new'[k] = IF k = h THEN scratch[h] ELSE new[k]
                         /\ scratch'[k] = IF k = h THEN Blank ELSE scratch[k]
    BY <1>10, <1>t DEF CommitArchive, TypeOK
  <2> QED BY <1>10, <2>1, <2>2 DEF CommitArchive, MemoryFits, WritesFit, Connected, Fits
<1>11. CASE UnlockArchive(s, h)
  BY <1>11 DEF UnlockArchive, MemoryFits, AnswersFit, Sound, WritesFit, Connected, Fits, Exists
<1> QED BY <1>1, <1>2, <1>3, <1>4, <1>5, <1>6, <1>7, <1>8, <1>9, <1>10, <1>11 DEF Handler

LEMMA FaultMemory ==
  ASSUME Client \notin Persistent, TypeOK, NEW s \in Sessions, NEW h \in Hosts, ~ignore[s], MemoryFits(s),
         CommandFails(s, h) \/ Leave(s, h) \/ Kill(s, h)
  PROVE  MemoryFits(s)'
<1> USE DEF disk, caches, proc, answers, client
<1>t. TypeOK /\ Client \in Hosts  BY HostsAssumption
<1>1. CASE CommandFails(s, h)
  <2>1. error'[s] # "none"  BY <1>1, <1>t DEF CommandFails, TypeOK
  <2> QED BY <1>1, <2>1 DEF CommandFails, MemoryFits, Connected
<1>2. CASE Leave(s, h)
  <2>1. conn'[s] # TRUE /\ up'[s] = up[s] \ {h}  BY <1>2, <1>t DEF Leave, TypeOK
  <2>2. CASE Remember(s, h, Unset, Blank)
    <3>1. \A k \in Hosts : info'[s][k] = IF k = h THEN Blank ELSE info[s][k]
      BY <1>t, <2>2, RememberDoes
    <3> QED BY <1>2, <1>t, <2>1, <3>1 DEF Leave, MemoryFits, Connected
  <2>3. CASE h \in Persistent /\ UNCHANGED caches
    BY <1>2, <1>t, <2>1, <2>3 DEF Leave, MemoryFits, Connected
  <2> QED BY <1>2, <2>2, <2>3 DEF Leave
<1>3. CASE Kill(s, h)
  <2>1. conn'[s] # TRUE /\ up'[s] = up[s] \ {h}  BY <1>3, <1>t DEF Kill, TypeOK
  <2>2. \A k \in Hosts : info'[s][k] = IF k = h THEN Blank ELSE info[s][k]
    BY <1>3, <1>t, RememberDoes DEF Kill
  <2> QED BY <1>3, <1>t, <2>1, <2>2 DEF Kill, MemoryFits, Connected
<1> QED BY <1>1, <1>2, <1>3

LEMMA ClientMemory ==
  ASSUME Client \notin Persistent, TypeOK, NEW s \in Sessions, MemoryFits(s),
         ClientStep(s) \/ FindUpdates(s) \/ Propagate(s) \/ CommitUpdates(s)
           \/ Start(s) \/ Disconnect(s)
  PROVE  MemoryFits(s)'
<1> USE DEF disk, caches, proc, answers, client, outside
<1>t. /\ TypeOK /\ Client \in Hosts /\ todo[s] \subseteq Hosts
      /\ conn[s] \in BOOLEAN
  BY HostsAssumption DEF TypeOK
<1>1. CASE AfterOptimistic(s)
  <2>1. CASE Identical(s) /\ Settle(s, "ready")
    <3>1. Moved(s, "ready", todo[s], error[s], undo[s])  BY <1>t, <2>1, SettleMoves
    <3>2. AnswersFit(s) /\ todo[s] = {} /\ refused[s] = {}
      BY <1>1, <2>1 DEF AfterOptimistic, Decides, Identical, MemoryFits, Connected
    <3>3. \A k \in Hosts : Exists(main[k]) /\ info[s][k] = main[k]
      BY <3>2 DEF AnswersFit
    <3>4. CASE got[s][Client] = Blank
      <4>1. \A k \in Hosts : Sound(s, k)  BY <3>2, <3>4 DEF AnswersFit
      <4>2. \A k \in Hosts : Fits(s, k)  BY <3>3, <4>1 DEF Sound, Fits, Exists
      <4> QED BY <1>1, <3>1, <4>2 DEF AfterOptimistic, Moved, MemoryFits, WritesFit, Fits
    <3>5. CASE got[s][Client] # Blank
      <4>1. \A k \in Hosts : got[s][k] = got[s][Client]  BY <1>t, <2>1 DEF Identical
      <4>2. \A k \in Hosts : got[s][k] = main[k]  BY <3>2, <3>5, <4>1 DEF AnswersFit
      <4>3. \A k \in Hosts : Fits(s, k)  BY <3>2, <3>3, <4>2 DEF AnswersFit, Fits
      <4> QED BY <1>1, <3>1, <4>3 DEF AfterOptimistic, Moved, MemoryFits, WritesFit, Fits
    <3> QED BY <3>4, <3>5
  <2>2. CASE Send(s, "lock")
    <3>1. Moved(s, "lock", Hosts, error[s], undo[s])  BY <1>t, <2>2, SendMoves
    <3> QED BY <1>1, <3>1, MemoryKept DEF AfterOptimistic, Moved
  <2> QED BY <1>1, <2>1, <2>2 DEF AfterOptimistic
<1>2. CASE AfterLock(s)
  <2>1. CASE Fail(s, "locked", Hosts \ refused[s])
    <3>1. Moved(s, phase[s], todo[s], "locked", Hosts \ refused[s])  BY <1>t, <2>1, FailMoves
    <3> QED BY <1>2, <3>1, MemoryKept DEF AfterLock, Decides, Moved, Connected
  <2>2. CASE goal[s] = "load" /\ Send(s, "exists")
    <3>1. Moved(s, "exists", Hosts, error[s], undo[s])  BY <1>t, <2>2, SendMoves
    <3> QED BY <1>2, <2>2, <3>1, MemoryKept DEF AfterLock, Moved
  <2>3. CASE Send(s, "prepare")
    <3>1. Moved(s, "prepare", Hosts, error[s], undo[s])  BY <1>t, <2>3, SendMoves
    <3> QED BY <1>2, <3>1 DEF AfterLock, Moved, MemoryFits, WritesFit
  <2> QED BY <1>2, <2>1, <2>2, <2>3 DEF AfterLock
<1>3. CASE AfterExists(s)
  <2>1. goal'[s] = goal[s] /\ goal[s] = "load" /\ UNCHANGED <<mem, info, up, conn>>
    BY <1>3 DEF AfterExists, Decides, MemoryFits
  <2>2. CASE \E p \in {"post", "clean"} : Send(s, p)
    <3>1. PICK p \in {"post", "clean"} : Moved(s, p, Hosts, error[s], undo[s])
      BY <1>t, <2>2, SendMoves
    <3> QED BY <2>1, <3>1 DEF Moved, MemoryFits, WritesFit
  <2>3. CASE Settle(s, "verify")
    <3>1. Moved(s, "verify", todo[s], error[s], undo[s])  BY <1>t, <2>3, SettleMoves
    <3> QED BY <2>1, <3>1, MemoryKept DEF Moved
  <2> QED BY <1>3, <2>2, <2>3 DEF AfterExists
<1>4. CASE AfterPostCommit(s)
  <2>1. Moved(s, "clean", Hosts, error[s], undo[s])
    BY <1>4, <1>t, SendMoves DEF AfterPostCommit
  <2> QED BY <1>4, <2>1
          DEF AfterPostCommit, Decides, Moved, MemoryFits, WritesFit, Connected, Fits
<1>5. CASE AfterClean(s)
  <2>1. CASE goal[s] = "load" /\ Settle(s, "verify")
    <3>1. Moved(s, "verify", todo[s], error[s], undo[s])  BY <1>t, <2>1, SettleMoves
    <3> QED BY <1>5, <3>1, MemoryKept DEF AfterClean, Moved
  <2>2. CASE goal[s] # "load" /\ Release(s)
    <3>1. Moved(s, "unlock", todo[s], error[s], Hosts)  BY <1>t, <2>2, ReleaseMoves
    <3>2. goal[s] = "commit"  BY <1>t, <2>2 DEF TypeOK
    <3> QED BY <1>5, <3>1, <3>2
            DEF AfterClean, Decides, Moved, MemoryFits, WritesFit, Connected, Fits
  <2> QED BY <1>5, <2>1, <2>2 DEF AfterClean
<1>6. CASE VerifyMain(s)
  <2>1. CASE Send(s, "load")
    <3>1. Moved(s, "load", Hosts, error[s], undo[s])  BY <1>t, <2>1, SendMoves
    <3> QED BY <1>6, <3>1 DEF VerifyMain, Moved, MemoryFits, WritesFit
  <2>2. CASE Fail(s, "missing", Hosts)
    <3>1. Moved(s, phase[s], todo[s], "missing", Hosts)  BY <1>t, <2>2, FailMoves
    <3> QED BY <1>6, <3>1, MemoryKept DEF VerifyMain, Decides, Moved
  <2> QED BY <1>6, <2>1, <2>2 DEF VerifyMain
<1>7. CASE AfterLoad(s)
  <2>1. CASE Release(s)
    <3>1. Moved(s, "unlock", todo[s], error[s], Hosts)  BY <1>t, <2>1, ReleaseMoves
    <3> QED BY <1>7, <3>1
            DEF AfterLoad, Decides, Moved, MemoryFits, WritesFit, Connected, Fits
  <2>2. CASE Fail(s, "diskdiffer", Hosts)
    <3>1. Moved(s, phase[s], todo[s], "diskdiffer", Hosts)  BY <1>t, <2>2, FailMoves
    <3> QED BY <1>7, <3>1, MemoryKept DEF AfterLoad, Decides, Moved, Connected
  <2> QED BY <1>7, <2>1, <2>2 DEF AfterLoad
<1>8. CASE AfterPrepare(s)
  <2>1. CASE Send(s, "commit")
    <3>1. Moved(s, "commit", Hosts, error[s], undo[s])  BY <1>t, <2>1, SendMoves
    <3> QED BY <1>8, <3>1
            DEF AfterPrepare, Decides, Moved, MemoryFits, WritesFit, Connected
  <2>2. CASE Fail(s, "newdiffer", Hosts)
    <3>1. Moved(s, phase[s], todo[s], "newdiffer", Hosts)  BY <1>t, <2>2, FailMoves
    <3> QED BY <1>8, <3>1, MemoryKept DEF AfterPrepare, Decides, Moved, Connected
  <2> QED BY <1>8, <2>1, <2>2 DEF AfterPrepare
<1>9. CASE AfterCommit(s)
  <2>1. Moved(s, "post", Hosts, error[s], undo[s])
    BY <1>9, <1>t, SendMoves DEF AfterCommit
  <2> QED BY <1>9, <2>1
          DEF AfterCommit, Decides, Moved, MemoryFits, WritesFit, Connected
<1>10. CASE AfterUnlock(s)
  <2>1. Moved(s, "ready", todo[s], error[s], undo[s])
    BY <1>10, <1>t, SettleMoves DEF AfterUnlock
  <2> QED BY <1>10, <2>1
          DEF AfterUnlock, Decides, Moved, MemoryFits, WritesFit, Connected, Fits
<1>11. CASE GiveUp(s)
  <2>1. phase'[s] = "idle" /\ ~Connected(s)'
    BY <1>11, <1>t DEF GiveUp, TypeOK, Connected
  <2> QED BY <1>11, <2>1, MemoryKept DEF GiveUp
<1>12. CASE FindUpdates(s)
  <2>1. /\ phase'[s] = "optimistic" /\ todo'[s] = Hosts /\ UNCHANGED <<mem, info, up, conn, main, got>>
    BY <1>12, <1>t DEF FindUpdates, TypeOK
  <2>2. info[s][Client] # Blank => \A k \in Hosts : Sound(s, k)
    BY <1>12 DEF FindUpdates, MemoryFits, Connected, Fits, Sound
  <2>3. AnswersFit(s)'  BY <1>t, <2>1, <2>2 DEF AnswersFit, Sound
  <2> QED BY <2>1, <2>3 DEF MemoryFits, WritesFit
<1>13. CASE Propagate(s)
  <2>1. Moved(s, "changed", todo[s], error[s], undo[s])
    BY <1>13, <1>t, SettleMoves DEF Propagate
  <2> QED BY <1>13, <2>1 DEF Propagate, Moved, MemoryFits, WritesFit
<1>14. CASE CommitUpdates(s)
  <2>1. Moved(s, "lock", Hosts, error[s], undo[s])
    BY <1>14, <1>t, SendMoves DEF CommitUpdates
  <2> QED BY <1>14, <2>1, MemoryKept DEF CommitUpdates, Moved
<1>15. CASE Start(s)
  <2>1. phase'[s] = "idle" /\ up[s] = {} /\ info' = info
    BY <1>15, <1>t DEF Start, TypeOK
  <2> QED BY <2>1 DEF MemoryFits, WritesFit
<1>16. CASE Disconnect(s)
  <2>1. ~Connected(s)'  BY <1>16, <1>t DEF Disconnect, TypeOK, Connected
  <2> QED BY <1>16, <2>1 DEF Disconnect, MemoryFits
<1> QED BY <1>1, <1>2, <1>3, <1>4, <1>5, <1>6, <1>7, <1>8, <1>9, <1>10, <1>11,
           <1>12, <1>13, <1>14, <1>15, <1>16 DEF ClientStep

LEMMA InitLoadInv == Init => LoadInv
<1> SUFFICES ASSUME Init PROVE LoadInv
  OBVIOUS
<1>1. CommitInv  BY InitCommitInv
<1>2. ASSUME NEW s \in Sessions PROVE MemoryFits(s)
  BY HostsAssumption DEF Init, MemoryFits, WritesFit, Connected
<1> QED BY <1>1, <1>2 DEF LoadInv

(* What is said of the memory of one session survives a step of another:   *)
(* a host that writes has not yet answered the optimistic load.            *)
LEMMA OthersMemory ==
  ASSUME CommitInv, NEW s \in Sessions, NEW t \in Sessions, t # s, Same(t), MemoryFits(t),
         NEW h \in Hosts, Works(s, h) \/ UNCHANGED <<main, new, scratch>>,
         \A k \in Hosts \ {h} : main'[k] = main[k]
  PROVE  MemoryFits(t)'
<1>1. CASE UNCHANGED <<main, new, scratch>>
  BY <1>1 DEF Same, MemoryFits, AnswersFit, WritesFit, Connected, Fits, Sound, Exists
<1>2. CASE Works(s, h) /\ Connected(t)
  <2>1. Live(t)
    BY <1>2, HostsAssumption DEF CommitInv, Protocol, Alone, Connected, Live
  <2>2. /\ phase[t] \in {"idle", "optimistic", "lock"}
        /\ phase[t] = "optimistic" => ~Checked(t, h)
    BY <1>2, <2>1, OthersBehind DEF Connected
  <2>3. ASSUME phase[t] = "optimistic" PROVE AnswersFit(t)'
    <3>1. \A k \in Hosts \ (todo[t] \cup refused[t]) : main'[k] = main[k]
      BY <2>2, <2>3 DEF Checked
    <3>2. AnswersFit(t)  BY <1>2, <2>3 DEF MemoryFits
    <3> QED BY <3>1, <3>2 DEF AnswersFit, Same, Sound, Exists
  <2> QED BY <2>2, <2>3 DEF Same, MemoryFits, WritesFit, Connected
<1>3. CASE ~Connected(t)
  BY <1>3 DEF Same, MemoryFits, Connected
<1> QED BY <1>1, <1>2, <1>3

LEMMA NextLoad ==
  ASSUME ~Concurrent, ~IgnoreAllowed, Client \notin Persistent, LoadInv, [Next]_vars
  PROVE  LoadInv'
<1>i. CommitInv' /\ CommitInv /\ TypeOK
  BY NextKept, LiveHas DEF LoadInv, CommitInv, LockInv
<1>1. ASSUME NEW t \in Sessions PROVE MemoryFits(t)'
  <2>m. MemoryFits(t) /\ ~ignore[t]
    BY <1>i, LiveHas DEF LoadInv, BooksOne
  <2>1. ASSUME UNCHANGED <<main, new, scratch, caches, proc, client, todo, answers>>
        PROVE  MemoryFits(t)'
    BY <2>m, <2>1 DEF caches, proc, client, answers, MemoryFits, AnswersFit, WritesFit,
                      Connected, Fits, Sound, Exists
  <2>2. CASE UNCHANGED vars
    BY <2>1, <2>2 DEF vars, disk, client
  <2>3. ASSUME NEW h \in Hosts, RemoveStaleLock(h) PROVE MemoryFits(t)'
    BY <2>1, <2>3 DEF RemoveStaleLock
  <2>4. ASSUME NEW s \in Sessions, NEW h \in Hosts, HostStep(s, h) PROVE MemoryFits(t)'
    <3>1. CASE s = t
      BY <1>i, <2>m, <2>4, <3>1, HandlerMemory, FaultMemory DEF HostStep
    <3>2. CASE s # t
      <4>1. Same(t)  BY <1>i, <2>4, <3>2, OthersSame
      <4>2. /\ Works(s, h) \/ UNCHANGED <<main, new, scratch>>
            /\ \A k \in Hosts \ {h} : main'[k] = main[k]
        BY <1>i, <2>4, HostDoes
      <4> QED BY <1>i, <2>m, <2>4, <3>2, <4>1, <4>2, OthersMemory
    <3> QED BY <3>1, <3>2
  <2>5. ASSUME NEW s \in Sessions, UserStep(s) PROVE MemoryFits(t)'
    <3>1. CASE s = t
      BY <1>i, <2>m, <2>5, <3>1, ClientMemory DEF UserStep
    <3>2. CASE s # t
      <4>1. Same(t)  BY <1>i, <2>5, <3>2, OthersSame
      <4>2. UNCHANGED <<main, new, scratch>>  BY <2>5, UserFiles
      <4> QED BY <1>i, <2>m, <3>2, <4>1, <4>2, HostsAssumption, OthersMemory
    <3> QED BY <3>1, <3>2
  <2> QED BY <2>2, <2>3, <2>4, <2>5 DEF Next, HostStep, UserStep
<1> QED BY <1>i, <1>1 DEF LoadInv

(* What a run finds in memory when it becomes ready after a load.          *)
LEMMA LoadsMain ==
  ASSUME ~Concurrent, ~IgnoreAllowed, Client \notin Persistent, LoadInv, [Next]_vars,
         NEW s \in Sessions, phase[s] # "ready", phase'[s] = "ready", goal[s] = "load"
  PROVE  Stored = main[Client] /\ \A h \in Hosts : mem'[s][h] = main[Client].arc
<1>t. TypeOK /\ Client \in Hosts
  BY HostsAssumption DEF LoadInv, CommitInv, LockInv
<1>1. MemoryFits(s) /\ CommitInv  BY DEF LoadInv
<1>p. phase \in [Sessions -> Phases]  BY <1>t DEF TypeOK
<1> USE DEF client
<1>2. AfterOptimistic(s) \/ AfterUnlock(s)
  <2>1. ~(UNCHANGED vars) /\ ~(\E h \in Hosts : RemoveStaleLock(h))
    BY DEF vars, RemoveStaleLock
  <2>2. ASSUME NEW t \in Sessions, NEW h \in Hosts, HostStep(t, h) PROVE FALSE
    BY <1>t, <2>2, HostDoes
  <2>5. ASSUME NEW t \in Sessions \ {s}, UserStep(t) PROVE FALSE
    <3>1. Same(s)  BY <1>t, <2>5, OthersSame
    <3> QED BY <3>1 DEF Same
  <2>3. ~(FindUpdates(s) \/ Propagate(s) \/ CommitUpdates(s) \/ Start(s) \/ Disconnect(s))
    BY <1>p DEF FindUpdates, Propagate, CommitUpdates, Start, Disconnect, Settle, Send
  <2>4. ~(\/ AfterLock(s) \/ AfterExists(s) \/ AfterPostCommit(s) \/ AfterClean(s)
          \/ VerifyMain(s) \/ AfterLoad(s) \/ AfterPrepare(s) \/ AfterCommit(s) \/ GiveUp(s))
    BY <1>p DEF AfterLock, AfterExists, AfterPostCommit, AfterClean, VerifyMain, AfterLoad,
                AfterPrepare, AfterCommit, GiveUp, Settle, Send, Fail, Release
  <2> QED BY <2>1, <2>2, <2>3, <2>4, <2>5 DEF Next, HostStep, UserStep, ClientStep
<1>3. Connected(s)' /\ \A h \in Hosts : Fits(s, h)'
  <2>1. MemoryFits(s)' /\ Connected(s)'
    <3>1. MemoryFits(s)'  BY <1>t, <1>1, <1>2, ClientMemory DEF ClientStep
    <3>2. conn'[s] = conn[s] /\ error'[s] = error[s] /\ Connected(s)
      BY <1>t, <1>2 DEF AfterOptimistic, AfterUnlock, Decides, Settle, Send, outside, proc,
                        Connected, TypeOK
    <3> QED BY <3>1, <3>2 DEF Connected
  <2> QED BY <2>1 DEF MemoryFits
<1>4. main' = main /\ new' = new
  BY <1>2 DEF AfterOptimistic, AfterUnlock, outside, disk
<1>5. \A h \in Hosts : ~Exists(new[h])
  <2>1. NoLeftover' /\ Alone'  BY NextKept DEF LoadInv, CommitInv, Protocol
  <2>2. Live(s)'  BY <1>t, <1>3, <2>1 DEF Alone, Live, Connected
  <2> QED BY <1>4, <2>1, <2>2 DEF NoLeftover, Exists
<1>6. Stored = main[Client] /\ \A h \in Hosts : main[h] = main[Client]
  BY <1>t, <1>1, <1>5 DEF Stored, AllNew, CommitInv, Coherent
<1> QED BY <1>3, <1>4, <1>6 DEF Fits

-----------------------------------------------------------------------------
(* A client that is ready after findUpdates has loaded, on every host, what*)
(* its next run may start from: the files of the last commit that is       *)
(* complete.  That holds for the optimistic load (loadArchives of          *)
(* update.ml, which trusts archiveInfoCache when the identity in the file  *)
(* is still that of the cache) and for the load under the lock after a     *)
(* recovery.  The client is the text interface, which ends when a          *)
(* connection is lost: a graphical one carries on with servers that have   *)
(* an empty cache, and then two hosts may differ (run ArchiveCommit_gui).  *)
THEOREM LoadsAreStored ==
  ASSUME ~Concurrent, ~IgnoreAllowed, Client \notin Persistent
  PROVE  Spec => LoadsStored
<1>1. LoadInv /\ [Next]_vars => LoadInv'  BY NextLoad
<1>2. LoadInv /\ [Next]_vars =>
        [\A s \in Sessions :
           phase[s] # "ready" /\ phase'[s] = "ready" /\ goal[s] = "load"
             /\ ~ignore[s] => \A h \in Hosts : mem'[s][h] = Stored.arc]_vars
  BY LoadsMain
<1> QED BY <1>1, <1>2, InitLoadInv, PTL DEF Spec, LoadsStored

(* No two hosts ever compare their replicas with archives of different     *)
(* commits: in the step in which findUpdates (update.ml) lets a client go  *)
(* on after a load, every host has the same archive in memory.             *)
THEOREM LoadsAreCoherent ==
  ASSUME ~Concurrent, ~IgnoreAllowed, Client \notin Persistent
  PROVE  Spec => LoadsCoherent
<1>1. LoadInv /\ [Next]_vars => LoadInv'  BY NextLoad
<1>2. LoadInv /\ [Next]_vars =>
        [\A s \in Sessions :
           phase[s] # "ready" /\ phase'[s] = "ready" /\ goal[s] = "load" =>
             \A h, k \in Hosts : mem'[s][h] = mem'[s][k] /\ mem'[s][h] # Unset]_vars
  <2>1. LoadInv => main[Client].arc \in Contents \cup {NoArchive}
    BY HostsAssumption DEF LoadInv, CommitInv, LockInv, TypeOK, Files
  <2> QED BY <2>1, LoadsMain, MemoryAssumption
<1> QED BY <1>1, <1>2, InitLoadInv, PTL DEF Spec, LoadsCoherent
=============================================================================
