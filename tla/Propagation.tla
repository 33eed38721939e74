---------------------------- MODULE Propagation ----------------------------
(***************************************************************************)
(* Runs of Unison on two replicas (src/files.ml, with the parts of         *)
(* update.ml, recon.ml, copy.ml and uicommon.ml that it rests on): find    *)
(* what changed since the archive was written, let the user decide,        *)
(* replace each path of one replica by that of the other, and record in    *)
(* the archive what was done.  Other programs change the replicas at any   *)
(* time; a run can be stopped, fail, or be killed between any two file     *)
(* operations.  The archive on disk is the store of ArchiveCommit; one run *)
(* takes place at a time.  A directory is replaced as a whole.             *)
(***************************************************************************)
EXTENDS Integers, FiniteSets

CONSTANTS
  Paths,       \* paths that are synchronized independently
  Files,       \* contents of a path that is a file or a link
  Directories, \* contents of a path that is a directory
  Absent,      \* the contents of a path where there is nothing
  Torn,        \* a file that was transferred while it changed, or in part
  Unset,       \* no value yet
  NoPath,      \* the path in a commit log that does not exist
  Copies,      \* choices for the preference copyonconflict
  Batch,       \* take the default actions, do not ask
  Faults,      \* what can go wrong: a run "kill"ed, an operation that
               \* "fail"s, a user who "stop"s the run
  MaxEdits,    \* bound: changes made by other programs
  MaxFaults    \* bound: things that go wrong

Contents == Files \cup Directories \cup {Absent}

ASSUME ContentsAssumption ==
  /\ Absent \notin Files \cup Directories /\ Files \cap Directories = {}
  /\ {Torn, Unset} \cap Contents = {} /\ Torn # Unset
ASSUME PathsAssumption == IsFiniteSet(Paths) /\ NoPath \notin Paths
ASSUME ChoiceAssumption == Copies \subseteq BOOLEAN /\ Batch \in BOOLEAN
ASSUME BoundAssumption ==
  /\ Faults \subseteq {"kill", "fail", "stop"}
  /\ MaxEdits \in Nat /\ MaxFaults \in Nat

Roots == {1, 2}
Other(r) == 3 - r

VARIABLES
  \* the file systems, by root and path
  disk,    \* contents of the path
  temp,    \* contents of the temporary file made for it
  aside,   \* contents that were moved out of the way
  kept,    \* contents that were saved as conflict copies
  log,     \* the path in the commit log of the root (DANGER.README)
  stored,  \* the archive on disk, by path
  \* a run
  copies,  \* the preference copyonconflict
  phase,
  todo,    \* roots that have a command of this phase to execute
  mem,     \* the archives in memory, by root and path
  scratch, \* the archives as written, before they are compared
  seen,    \* contents found by update detection
  plan,    \* the root to copy from, by path, or 0 (skip)
  told,    \* does this differ from the default action?
  step,    \* what is being done about each path
  spare,   \* contents put aside for a conflict copy
  stopping, woken,  \* has the user stopped the run? need it wait no more?
  \* history, for the properties
  had,     \* contents each root has had at each path
  touched, \* was the target changed while it was being replaced?
  edits, faults

files == <<disk, temp, aside, kept, log>>
choices == <<seen, plan, told>>
bounds == <<edits, faults>>
vars == <<files, stored, copies, phase, todo, mem, scratch, choices, step, spare,
          stopping, woken, had, touched, bounds>>

Steps == {"start", "copy", "verify", "prepare", "check", "rename", "divert",
          "aside", "in", "clear", "cleanup", "remove", "archive",
          "source", "done", "failed"}
Ended == {"done", "failed"}
(* The steps of renameLocal and deleteLocal on the host of the target.     *)
Handler == {"check", "rename", "divert", "aside", "in", "clear",
            "cleanup", "remove", "archive"}
Phases == {"idle", "detect", "equal", "keep", "choose", "transport", "save"}

TypeOK ==
  /\ disk \in [Roots -> [Paths -> Contents]]
  /\ temp \in [Roots -> [Paths -> Contents \cup {Torn}]]
  /\ aside \in [Roots -> [Paths -> Contents]]
  /\ kept \in [Roots -> [Paths -> SUBSET Contents]]
  /\ log \in [Roots -> Paths \cup {NoPath}]
  /\ stored \in [Paths -> Contents]
  /\ copies \in BOOLEAN
  /\ phase \in Phases
  /\ todo \subseteq Roots
  /\ mem \in [Roots -> [Paths -> Contents]]
  /\ scratch \in [Roots -> [Paths -> Contents]]
  /\ seen \in [Roots -> [Paths -> Contents \cup {Unset}]]
  /\ plan \in [Paths -> {0} \cup Roots]
  /\ told \in [Paths -> BOOLEAN]
  /\ step \in [Paths -> Steps]
  /\ spare \in [Paths -> Contents \cup {Unset}]
  /\ stopping \in BOOLEAN /\ woken \in BOOLEAN
  /\ had \in [Roots -> [Paths -> SUBSET Contents]]
  /\ touched \in [Paths -> BOOLEAN]
  /\ edits \in 0 .. MaxEdits /\ faults \in 0 .. MaxFaults

Each(value) == [p \in Paths |-> value]
Both(value) == [r \in Roots |-> value]

(* The replicas were synchronized before.                                  *)
Init ==
  /\ stored \in [Paths -> Contents]
  /\ disk = Both(stored)
  /\ temp = Both(Each(Absent)) /\ aside = Both(Each(Absent))
  /\ kept = Both(Each({})) /\ log = Both(NoPath)
  /\ copies \in Copies
  /\ phase = "idle" /\ todo = {}
  /\ mem = Both(stored) /\ scratch = Both(stored)
  /\ seen = Both(Each(Unset)) /\ plan = Each(0) /\ told = Each(FALSE)
  /\ step = Each("done") /\ spare = Each(Unset)
  /\ stopping = FALSE /\ woken = FALSE
  /\ had = Both([p \in Paths |-> {stored[p]}])
  /\ touched = Each(FALSE)
  /\ edits = 0 /\ faults = 0

(* A path of a root gets new contents.                                     *)
Put(r, p, c) == /\ disk' = [disk EXCEPT ![r][p] = c]
                /\ had' = [had EXCEPT ![r][p] = @ \cup {c}]

-----------------------------------------------------------------------------
(* Finding and reconciling updates.                                        *)

Goto(p, s) == step' = [step EXCEPT ![p] = s]

Command(next) == phase' = next /\ todo' = Roots

items == <<step, spare, stopping, woken>>

(* The archives are loaded.  A commit log on a root ends the run at once.  *)
Launch ==
  /\ phase = "idle" /\ \A r \in Roots : log[r] = NoPath
  /\ phase' = "detect"
  /\ mem' = Both(stored)
  /\ UNCHANGED <<files, stored, copies, todo, scratch, choices, items, had,
                 touched, bounds>>

(* Paths are looked at one after the other.                                *)
FindUpdate(r, p) ==
  /\ phase = "detect" /\ seen[r][p] = Unset
  /\ seen' = [seen EXCEPT ![r][p] = disk[r][p]]
  /\ UNCHANGED <<files, stored, copies, phase, todo, mem, scratch, plan, told,
                 items, had, touched, bounds>>

Updated(r, p) == seen[r][p] # stored[p]
EqualUpdates == {p \in Paths : seen[1][p] = seen[2][p] /\ Updated(1, p)}

(* Mutant: equal changes of both roots are not recorded.                   *)
ReconcileOnly ==
  /\ phase = "detect" /\ \A r \in Roots, p \in Paths : seen[r][p] # Unset
  /\ phase' = "choose"
  /\ UNCHANGED <<files, stored, copies, todo, mem, scratch, choices, items, had,
                 touched, bounds>>

Reconcile ==
  /\ phase = "detect" /\ \A r \in Roots, p \in Paths : seen[r][p] # Unset
  /\ IF EqualUpdates = {} THEN phase' = "choose" /\ UNCHANGED todo
                          ELSE Command("equal")
  /\ UNCHANGED <<files, stored, copies, mem, scratch, choices, items, had,
                 touched, bounds>>

MarkEqual(r) ==
  /\ phase = "equal" /\ r \in todo
  /\ mem' = [mem EXCEPT ![r] =
       [p \in Paths |-> IF p \in EqualUpdates THEN seen[r][p] ELSE @[p]]]
  /\ IF todo = {r} THEN Command("keep") ELSE todo' = todo \ {r} /\ UNCHANGED phase
  /\ UNCHANGED <<files, stored, copies, scratch, choices, items, had,
                 touched, bounds>>

(* A change on one root goes to the other; two changes are a conflict.     *)
Default(p) ==
  IF seen[1][p] = seen[2][p] THEN 0
  ELSE CASE Updated(1, p) /\ ~Updated(2, p) -> 1
         [] Updated(2, p) /\ ~Updated(1, p) -> 2
         [] OTHER                           -> 0

Choices(p) == IF Batch \/ seen[1][p] = seen[2][p] THEN {Default(p)}
                                                  ELSE {0} \cup Roots

Wanted(p) == seen[plan[p]][p]
Target(p) == Other(plan[p])
Source(p) == plan[p]

(* The user has seen the items, and chosen what to do about each.          *)
Choose ==
  /\ phase = "choose"
  /\ plan' \in {f \in [Paths -> {0} \cup Roots] : \A p \in Paths : f[p] \in Choices(p)}
  /\ told' = [p \in Paths |-> plan'[p] # Default(p)]
  /\ step' = [p \in Paths |-> IF plan'[p] = 0 THEN "done" ELSE "start"]
  /\ woken' = (plan' = Each(0))
  /\ phase' = "transport"
  /\ UNCHANGED <<files, stored, copies, todo, mem, scratch, seen, spare, stopping,
                 had, touched, bounds>>

-----------------------------------------------------------------------------
(* Transport: one thread for each item.                                    *)

Active == {p \in Paths : step[p] \notin Ended \cup {"start"}}
Deletion(p) == Wanted(p) = Absent

run == <<copies, phase, todo, choices, stopping, edits>>

(* An item ends, and perhaps the wait for all of them.  After a request to *)
(* stop no item begins, and the wait ends when there is one left.          *)
EndItem(p, s) ==
  LET left == Active \ {p} IN
  /\ Goto(p, s)
  /\ woken' = \/ woken
              \/ \A q \in Paths \ {p} : step[q] \in Ended
              \/ stopping /\ Cardinality(left) <= 1
  /\ touched' = [touched EXCEPT ![p] = FALSE]

Continue(p, s) == Goto(p, s) /\ UNCHANGED woken

Fault(f) == f \in Faults /\ faults < MaxFaults /\ faults' = faults + 1

(* A command runs to its end before its process executes another one.      *)
Idle(r) == \A p \in Paths : step[p] \in Handler => Target(p) # r

Works(p, s) == phase \in {"transport", "save"} /\ step[p] = s

(* Items that delete come after all others.                                *)
BeginItem(p) ==
  /\ phase = "transport" /\ Works(p, "start") /\ ~stopping
  /\ IF Deletion(p)
       THEN /\ \A q \in {x \in Paths : step[x] \notin Ended} : Deletion(q)
            /\ Continue(p, "prepare")
       ELSE Continue(p, "copy")
  /\ UNCHANGED <<files, stored, run, mem, scratch, spare, had, touched, faults>>

(* The contents of the source go to a temporary file.  It may change while *)
(* it is read.  A file left there by an earlier run may be used instead.   *)
Copy(p) ==
  LET t == Target(p) IN
  /\ Works(p, "copy") /\ ~stopping /\ disk[Source(p)][p] # Absent
  /\ \/ /\ \/ temp' = [temp EXCEPT ![t][p] = disk[Source(p)][p]]
           \/ temp[t][p] = Wanted(p) /\ UNCHANGED temp
        /\ UNCHANGED faults
     \/ /\ temp' = [temp EXCEPT ![t][p] = Torn]
        /\ Fault("fail")
  /\ Continue(p, "verify")
  /\ UNCHANGED <<disk, aside, kept, log, stored, run, mem, scratch, spare, had,
                 touched>>

(* Mutant: only the target is verified, not the source.                    *)
VerifyNot(p) ==
  /\ Works(p, "verify") /\ temp[Target(p)][p] # Absent
  /\ Continue(p, "prepare")
  /\ UNCHANGED <<files, stored, run, mem, scratch, spare, had, touched, faults>>

(* paranoidCheck and checkForChangesToSource.                              *)
Verify(p) ==
  /\ Works(p, "verify")
  /\ temp[Target(p)][p] = Wanted(p) /\ disk[Source(p)][p] = Wanted(p)
  /\ Continue(p, "prepare")
  /\ UNCHANGED <<files, stored, run, mem, scratch, spare, had, touched, faults>>

(* prepareCopy: a copy is made in case the item is not the default action. *)
PrepareCopy(p) ==
  /\ Works(p, "prepare") /\ Idle(Target(p))
  /\ spare' = [spare EXCEPT ![p] =
                 IF told[p] /\ copies THEN disk[Target(p)][p] ELSE Unset]
  /\ touched' = [touched EXCEPT ![p] = FALSE]
  /\ Continue(p, "check")
  /\ UNCHANGED <<files, stored, run, mem, scratch, had, faults>>

Keep(r, p, c) == kept' = [kept EXCEPT ![r][p] = @ \cup {c}]

(* Mutant: the target is not checked.                                      *)
CheckTargetNot(p) ==
  LET t == Target(p) IN
  /\ Works(p, "check")
  /\ IF spare[p] \in {Unset, Absent} THEN UNCHANGED kept ELSE Keep(t, p, spare[p])
  /\ Continue(p, IF Deletion(p) THEN "remove"
                 ELSE IF spare[p] = Absent THEN "divert" ELSE "rename")
  /\ UNCHANGED <<disk, temp, aside, log, stored, run, mem, scratch, spare, had,
                 touched, faults>>

(* Mutant: a conflict copy is expected even if none was made.              *)
CheckTargetCopy(p) ==
  LET t == Target(p) IN
  /\ Works(p, "check") /\ disk[t][p] = seen[t][p]
  /\ IF spare[p] = Absent THEN UNCHANGED kept ELSE Keep(t, p, spare[p])
  /\ Continue(p, IF Deletion(p) THEN "remove"
                 ELSE IF spare[p] = Absent THEN "divert" ELSE "rename")
  /\ UNCHANGED <<disk, temp, aside, log, stored, run, mem, scratch, spare, had,
                 touched, faults>>

(* checkNoUpdates and finishCopy.  Where there was nothing, the copy that  *)
(* is kept is the new contents, in the place of the target.                *)
CheckTarget(p) ==
  LET t == Target(p) IN
  /\ Works(p, "check") /\ disk[t][p] = seen[t][p]
  /\ IF spare[p] \in {Unset, Absent} THEN UNCHANGED kept ELSE Keep(t, p, spare[p])
  /\ Continue(p, IF Deletion(p) THEN "remove"
                 ELSE IF spare[p] = Absent THEN "divert" ELSE "rename")
  /\ UNCHANGED <<disk, temp, aside, log, stored, run, mem, scratch, spare, had,
                 touched, faults>>

Divert(p) ==
  LET t == Target(p) IN
  /\ Works(p, "divert")
  /\ Keep(t, p, temp[t][p])
  /\ temp' = [temp EXCEPT ![t][p] = Absent]
  /\ Continue(p, "archive")
  /\ UNCHANGED <<disk, aside, log, stored, run, mem, scratch, spare, had, touched,
                 faults>>

(* performRename.  A rename replaces a file by a file in one step.         *)
Replaceable(new, old) == old = Absent \/ {new, old} \subseteq Files

Rename(p) ==
  LET t == Target(p) IN
  /\ Works(p, "rename") /\ Replaceable(temp[t][p], disk[t][p])
  /\ Put(t, p, temp[t][p])
  /\ temp' = [temp EXCEPT ![t][p] = Absent]
  /\ Continue(p, "archive")
  /\ UNCHANGED <<aside, kept, log, stored, run, mem, scratch, spare, touched, faults>>

(* Mutant: the commit log is not written.                                  *)
WriteLogNot(p) ==
  /\ Works(p, "rename") /\ ~Replaceable(temp[Target(p)][p], disk[Target(p)][p])
  /\ Continue(p, "aside")
  /\ UNCHANGED <<files, stored, run, mem, scratch, spare, had, touched, faults>>

(* Otherwise the old contents are moved away first, which a log announces. *)
WriteLog(p) ==
  LET t == Target(p) IN
  /\ Works(p, "rename") /\ ~Replaceable(temp[t][p], disk[t][p])
  /\ log[t] = NoPath
  /\ log' = [log EXCEPT ![t] = p]
  /\ Continue(p, "aside")
  /\ UNCHANGED <<disk, temp, aside, kept, stored, run, mem, scratch, spare, had,
                 touched, faults>>

MoveAside(p) ==
  LET t == Target(p) IN
  /\ Works(p, "aside") /\ disk[t][p] # Absent
  /\ aside' = [aside EXCEPT ![t][p] = disk[t][p]]
  /\ Put(t, p, Absent)
  /\ Continue(p, "in")
  /\ UNCHANGED <<temp, kept, log, stored, run, mem, scratch, spare, touched, faults>>

MoveIn(p) ==
  LET t == Target(p) IN
  /\ Works(p, "in") /\ Replaceable(temp[t][p], disk[t][p])
  /\ Put(t, p, temp[t][p])
  /\ temp' = [temp EXCEPT ![t][p] = Absent]
  /\ aside' = [aside EXCEPT ![t][p] = Absent]
  /\ Continue(p, "clear")
  /\ UNCHANGED <<kept, log, stored, run, mem, scratch, spare, touched, faults>>

ClearLog(p) ==
  /\ Works(p, "clear")
  /\ log' = [log EXCEPT ![Target(p)] = NoPath]
  /\ Continue(p, "cleanup")
  /\ UNCHANGED <<disk, temp, aside, kept, stored, run, mem, scratch, spare, had,
                 touched, faults>>

(* What was moved away is deleted.                                         *)
Cleanup(p) ==
  /\ Works(p, "cleanup")
  /\ Continue(p, "archive")
  /\ UNCHANGED <<files, stored, run, mem, scratch, spare, had, touched, faults>>

(* deleteLocal                                                             *)
Remove(p) ==
  /\ Works(p, "remove")
  /\ Put(Target(p), p, Absent)
  /\ Continue(p, "archive")
  /\ UNCHANGED <<temp, aside, kept, log, stored, run, mem, scratch, spare, touched,
                 faults>>

(* The archive of the target follows, and then that of the source.         *)
ReplaceArchive(p) ==
  /\ Works(p, "archive")
  /\ mem' = [mem EXCEPT ![Target(p)][p] = Wanted(p)]
  /\ Continue(p, "source")
  /\ UNCHANGED <<files, stored, run, scratch, spare, had, touched, faults>>

UpdateSource(p) ==
  /\ Works(p, "source") /\ Idle(Source(p))
  /\ mem' = [mem EXCEPT ![Source(p)][p] = Wanted(p)]
  /\ EndItem(p, "done")
  /\ UNCHANGED <<files, stored, run, scratch, spare, had, faults>>

(* A step cannot be taken: the item fails, and the run goes on.            *)
Refused(p) ==
  LET t == Target(p)
      f == Source(p) IN
  \/ step[p] = "copy" /\ (stopping \/ disk[f][p] = Absent)
  \/ step[p] = "verify" /\ ~(temp[t][p] = Wanted(p) /\ disk[f][p] = Wanted(p))
  \/ step[p] = "check" /\ disk[t][p] # seen[t][p]
  \/ step[p] = "aside" /\ disk[t][p] = Absent

Transient == {"copy", "verify", "prepare", "check", "rename", "divert", "aside",
              "cleanup", "remove", "archive", "source"}

(* Mutant: the commit log is cleared even if nothing is in place.          *)
FailItemAnywhere(p) ==
  /\ phase \in {"transport", "save"}
  /\ \/ Refused(p) /\ UNCHANGED faults
     \/ step[p] \in Transient \cup {"in"} /\ Fault("fail")
  /\ log' = IF step[p] \in {"aside", "in"} THEN [log EXCEPT ![Target(p)] = NoPath] ELSE log
  /\ EndItem(p, "failed")
  /\ UNCHANGED <<disk, temp, aside, kept, stored, run, mem, scratch, spare, had>>

FailItem(p) ==
  /\ phase \in {"transport", "save"}
  /\ \/ Refused(p) /\ UNCHANGED faults
     \/ step[p] \in Transient /\ Fault("fail")
  /\ log' = IF step[p] = "aside" THEN [log EXCEPT ![Target(p)] = NoPath] ELSE log
  /\ EndItem(p, "failed")
  /\ UNCHANGED <<disk, temp, aside, kept, stored, run, mem, scratch, spare, had>>

ItemStep(p) ==
  \/ BeginItem(p) \/ Copy(p) \/ Verify(p) \/ PrepareCopy(p) \/ CheckTarget(p)
  \/ Divert(p) \/ Rename(p) \/ WriteLog(p) \/ MoveAside(p) \/ MoveIn(p)
  \/ ClearLog(p) \/ Cleanup(p) \/ Remove(p) \/ ReplaceArchive(p)
  \/ UpdateSource(p) \/ FailItem(p)

(* The user asks the run to stop.                                          *)
Stop ==
  /\ phase = "transport" /\ ~woken /\ ~stopping
  /\ Fault("stop")
  /\ stopping' = TRUE
  /\ woken' = (Active = {})
  /\ UNCHANGED <<files, stored, copies, phase, todo, mem, scratch, choices, step,
                 spare, had, touched, edits>>

-----------------------------------------------------------------------------
(* Writing the archives, and the end of a run.                             *)

Finish ==
  /\ phase = "transport" /\ woken
  /\ Command("save")
  /\ UNCHANGED <<files, stored, copies, mem, scratch, choices, items, had, touched,
                 bounds>>

(* prepareCommit, which a process does between other commands.             *)
Prepare(r) ==
  /\ phase \in {"keep", "save"} /\ r \in todo
  /\ Idle(r)
  /\ scratch' = [scratch EXCEPT ![r] = mem[r]]
  /\ todo' = todo \ {r}
  /\ UNCHANGED <<files, stored, copies, phase, mem, choices, items, had, touched,
                 bounds>>

(* What is in memory is gone.                                              *)
EndRun ==
  /\ phase' = "idle" /\ todo' = {}
  /\ mem' = Both(stored') /\ scratch' = Both(stored')
  /\ seen' = Both(Each(Unset)) /\ plan' = Each(0) /\ told' = Each(FALSE)
  /\ step' = Each("done") /\ spare' = Each(Unset)
  /\ stopping' = FALSE /\ woken' = FALSE
  /\ touched' = Each(FALSE)
  /\ UNCHANGED <<files, copies, had, edits>>

(* The archives of both roots must be the same, see ArchiveCommit.         *)
Store ==
  /\ phase \in {"keep", "save"} /\ todo = {}
  /\ \A r \in Roots : Idle(r)
  /\ UNCHANGED faults
  /\ \/ /\ scratch[1] = scratch[2] /\ stored' = scratch[1]
        /\ \/ /\ phase = "keep" /\ phase' = "choose"
              /\ UNCHANGED <<files, copies, todo, mem, scratch, choices, items,
                             had, touched, edits>>
           \/ phase = "save" /\ EndRun
     \/ scratch[1] # scratch[2] /\ UNCHANGED stored /\ EndRun

(* The place that was made free is taken: a fatal error ends the run.      *)
Fatal ==
  /\ \E p \in Paths :
       Works(p, "in") /\ ~Replaceable(temp[Target(p)][p], disk[Target(p)][p])
  /\ UNCHANGED <<stored, faults>>
  /\ EndRun

(* A process is killed, loses its connection, or meets a fatal error.      *)
Kill ==
  /\ phase # "idle"
  /\ Fault("kill")
  /\ UNCHANGED stored
  /\ EndRun

-----------------------------------------------------------------------------
(* Other programs and users.                                               *)

Edit(r, p) ==
  /\ edits < MaxEdits /\ edits' = edits + 1
  /\ \E c \in Contents \ {disk[r][p]} : Put(r, p, c)
  /\ touched' = [touched EXCEPT ![p] =
                   @ \/ (step[p] \in Handler /\ Target(p) = r)]
  /\ UNCHANGED <<temp, aside, kept, log, stored, copies, phase, todo, mem, scratch,
                 choices, items, faults>>

(* The user looks at the files named in the log, puts back what was moved  *)
(* away or not, and deletes the log.                                       *)
RemoveLog(r) ==
  /\ phase = "idle" /\ log[r] # NoPath
  /\ log' = [log EXCEPT ![r] = NoPath]
  /\ aside' = [aside EXCEPT ![r][log[r]] = Absent]
  /\ \/ disk[r][log[r]] = Absent /\ Put(r, log[r], aside[r][log[r]])
     \/ UNCHANGED <<disk, had>>
  /\ UNCHANGED <<temp, kept, stored, copies, phase, todo, mem, scratch, choices,
                 items, touched, bounds>>

(* What the processes of a run do by themselves; in batch mode nobody      *)
(* needs to choose.                                                        *)
Proceed ==
  \/ Reconcile \/ Choose \/ Finish \/ Store \/ Fatal
  \/ \E r \in Roots : MarkEqual(r) \/ Prepare(r)
  \/ \E r \in Roots, p \in Paths : FindUpdate(r, p)
  \/ \E p \in Paths : ItemStep(p)

RunStep == Launch \/ Proceed

Next ==
  \/ RunStep \/ Stop \/ Kill
  \/ \E r \in Roots : RemoveLog(r)
  \/ \E r \in Roots, p \in Paths : Edit(r, p)

Spec == Init /\ [][Next]_vars

(* The processes of a run do what they were asked to.  Nothing starts a    *)
(* run: repeat mode ends with the first error (start2, noRepeat), and      *)
(* nobody but the user starts Unison again, or removes a commit log.       *)
FairSpec == Spec /\ WF_vars(Proceed)

-----------------------------------------------------------------------------
(* Properties.                                                             *)

Unison == phase \in {"transport", "save"} /\ edits' = edits
Replaces(r, p) == Unison /\ disk'[r][p] # disk[r][p]

(* No contents disappear from a replica unless the other replica has had   *)
(* them too, or a conflict copy was made on either, or the user was shown  *)
(* them and decided so; the exception is what another program writes while *)
(* the target is being replaced (renameLocal, deleteLocal, reconcileList). *)
NoLoss ==
  [][\A r \in Roots, p \in Paths :
       Replaces(r, p) /\ disk[r][p] # Absent =>
         \/ touched[p]
         \/ disk[r][p] \in had[Other(r)][p] \cup kept[1][p] \cup kept[2][p]
         \/ told[p] /\ ~copies /\ disk[r][p] = seen[r][p]]_vars

(* At every moment a path has its original contents or the final ones,     *)
(* those the other replica had when the user was asked, unless a commit    *)
(* log tells that there is nothing in its place (manual, "Invariants").    *)
OriginalOrFinal ==
  [][\A r \in Roots, p \in Paths :
       Replaces(r, p) => \/ r = Target(p) /\ disk'[r][p] = Wanted(p)
                         \/ disk'[r][p] = Absent /\ log[r] = p]_vars

(* What was moved away and not yet replaced is named in a commit log, from *)
(* before the move until a user deletes the log (performRename).           *)
LogTells == \A r \in Roots, p \in Paths : aside[r][p] # Absent => log[r] = p

(* The archive on disk only says of a path what both replicas have really  *)
(* had there, however the run ended (replaceArchiveLocal is called last).  *)
ArchiveTrue == \A r \in Roots, p \in Paths : stored[p] \in had[r][p]

(* The same, where a conflict copy counts for the path.                    *)
ArchiveKnown ==
  \A r \in Roots, p \in Paths : stored[p] \in had[r][p] \cup kept[r][p]

(* Every run ends, whatever fails and whoever stops it; and if runs are    *)
(* started again and again, by repeat mode or after it by the user, then   *)
(* once nothing changes and nothing fails any more they bring replicas and *)
(* archive together, except for conflicts, which are shown every time.     *)
(* What an earlier run left half done, in memory, in temporary files or in *)
(* the archives of one root only, is in no later run's way                 *)
(* (synchronizeUntilDone, commitUpdates, reconcileList).                   *)
Settled(p) ==
  \/ disk[1][p] = disk[2][p] /\ disk[1][p] = stored[p]
  \/ disk[1][p] # disk[2][p] /\ \A r \in Roots : disk[r][p] # stored[p]
Settles ==
  /\ []<>(phase = "idle")
  /\ []<>(phase # "idle") => <>[](\A p \in Paths : Settled(p))
=============================================================================
