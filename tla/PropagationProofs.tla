------------------------ MODULE PropagationProofs ------------------------
(***************************************************************************)
(* Theorems about Propagation, for any paths and contents, any number of   *)
(* changes by other programs and any faults: what reaches a target was     *)
(* verified, a path that is in between is in the commit log, and the       *)
(* archive on disk only knows what the replicas have had.                  *)
(***************************************************************************)
EXTENDS Propagation, TLAPS

-----------------------------------------------------------------------------
(* The invariant.                                                          *)

(* An item that has not ended has a direction, and contents to propagate.  *)
Directed ==
  /\ \A p \in Paths : step[p] \notin Ended => plan[p] \in Roots
  /\ phase \in {"equal", "keep", "choose", "transport", "save"} =>
       \A r \in Roots, p \in Paths : seen[r][p] # Unset
  /\ phase \notin {"transport", "save"} => \A p \in Paths : step[p] \in Ended

(* From the verification to the rename, the temporary file holds what is   *)
(* wanted; a deletion has none.                                            *)
Placing == {"rename", "divert", "aside", "in"}
VerifiedAt(p) ==
  /\ step[p] \in {"copy", "verify"} \cup Placing => ~Deletion(p)
  /\ step[p] = "remove" => Deletion(p)
  /\ step[p] \in {"prepare", "check"} \cup Placing /\ ~Deletion(p) =>
       temp[Target(p)][p] = Wanted(p)
Verified == \A p \in Paths : VerifiedAt(p)

(* What the commit log says, in each step of the replacement.              *)
LoggedAt(p) ==
  /\ step[p] \in {"aside", "in", "clear"} => log[Target(p)] = p
  /\ step[p] \in {"aside", "clear"} => aside[Target(p)][p] = Absent
Logged == \A p \in Paths : LoggedAt(p)

Inv == TypeOK /\ Directed /\ Verified /\ Logged /\ LogTells

-----------------------------------------------------------------------------
(* Data.                                                                   *)

LEMMA OtherRoot ==
  \A r \in Roots : Other(r) \in Roots /\ Other(r) # r /\ Other(Other(r)) = r
  BY DEF Other, Roots

LEMMA ContentsFacts ==
  /\ Absent \in Contents /\ Unset \notin Contents /\ Torn \notin Contents
  BY ContentsAssumption DEF Contents

(* A function of roots and paths after one value is replaced.              *)
LEMMA PutIn ==
  ASSUME NEW S, NEW f \in [Roots -> [Paths -> S]],
         NEW r \in Roots, NEW p \in Paths, NEW c \in S
  PROVE  /\ [f EXCEPT ![r][p] = c] \in [Roots -> [Paths -> S]]
         /\ \A u \in Roots, q \in Paths :
              [f EXCEPT ![r][p] = c][u][q] = IF u = r /\ q = p THEN c ELSE f[u][q]
<1>1. [f[r] EXCEPT ![p] = c] \in [Paths -> S]  OBVIOUS
<1> QED BY <1>1

(* The data of an item on its way.                                         *)
LEMMA ItemFacts ==
  ASSUME Inv, NEW p \in Paths, phase \in {"transport", "save"}, step[p] \notin Ended
  PROVE  /\ plan[p] \in Roots /\ Source(p) \in Roots /\ Target(p) \in Roots
         /\ Source(p) # Target(p)
         /\ Wanted(p) \in Contents /\ seen[Target(p)][p] \in Contents
<1>1. plan[p] \in Roots /\ Other(plan[p]) \in Roots /\ Other(plan[p]) # plan[p]
  BY OtherRoot DEF Inv, Directed
<1>2. \A r \in Roots : seen[r][p] \in Contents
  BY DEF Inv, TypeOK, Directed
<1> QED BY <1>1, <1>2 DEF Source, Target, Wanted

(* They stay the same while the plan does.                                 *)
LEMMA PlanKept ==
  ASSUME UNCHANGED <<seen, plan>>, NEW p \in Paths
  PROVE  /\ Target(p)' = Target(p) /\ Source(p)' = Source(p)
         /\ Wanted(p)' = Wanted(p) /\ Deletion(p)' = Deletion(p)
  BY DEF Target, Source, Wanted, Deletion

(* What all steps of an item have in common.                               *)
LEMMA ItemMoves ==
  ASSUME Inv, NEW p \in Paths, ItemStep(p)
  PROVE  /\ phase \in {"transport", "save"} /\ step[p] \notin Ended
         /\ UNCHANGED <<stored, run, scratch>>
         /\ \E s \in Steps : step' = [step EXCEPT ![p] = s]
         /\ step' \in [Paths -> Steps]
         /\ \A q \in Paths \ {p} : step'[q] = step[q]
<1>0. step \in [Paths -> Steps]  BY DEF Inv, TypeOK
<1>1. phase \in {"transport", "save"} /\ step[p] \notin Ended
  BY DEF ItemStep, BeginItem, Copy, Verify, PrepareCopy, CheckTarget, Divert, Rename,
         WriteLog, MoveAside, MoveIn, ClearLog, Cleanup, Remove, ReplaceArchive,
         UpdateSource, FailItem, Works, Ended, Refused, Transient
<1>2. UNCHANGED <<stored, run, scratch>>
  BY DEF ItemStep, BeginItem, Copy, Verify, PrepareCopy, CheckTarget, Divert, Rename,
         WriteLog, MoveAside, MoveIn, ClearLog, Cleanup, Remove, ReplaceArchive,
         UpdateSource, FailItem, files
<1>3. \E s \in Steps : step' = [step EXCEPT ![p] = s]
  BY DEF ItemStep, BeginItem, Copy, Verify, PrepareCopy, CheckTarget, Divert, Rename,
         WriteLog, MoveAside, MoveIn, ClearLog, Cleanup, Remove, ReplaceArchive,
         UpdateSource, FailItem, Continue, Goto, EndItem, Steps
<1> QED BY <1>0, <1>1, <1>2, <1>3

(* A step of one item leaves the others where they are.                    *)
LEMMA ItemDirected ==
  ASSUME Inv, NEW p \in Paths, ItemStep(p)
  PROVE  Directed'
<1>1. /\ phase' = phase /\ plan' = plan /\ seen' = seen
      /\ phase \in {"transport", "save"} /\ plan[p] \in Roots
      /\ \A q \in Paths \ {p} : step'[q] = step[q]
  BY ItemMoves, ItemFacts DEF run, choices
<1> QED BY <1>1 DEF Inv, Directed

LEMMA ItemVerified ==
  ASSUME Inv, NEW p \in Paths, ItemStep(p),
         \A q \in Paths \ {p}, r \in Roots : temp'[r][q] = temp[r][q],
         VerifiedAt(p)'
  PROVE  Verified'
<1> SUFFICES ASSUME NEW q \in Paths, q # p PROVE VerifiedAt(q)'
  BY DEF Verified
<1>1. /\ phase \in {"transport", "save"} /\ UNCHANGED <<seen, plan>>
      /\ step'[q] = step[q]
  BY ItemMoves DEF run, choices
<1>2. VerifiedAt(q)  BY DEF Inv, Verified
<1>3. CASE step[q] \in Ended  BY <1>1, <1>3 DEF VerifiedAt, Placing, Ended
<1>4. CASE step[q] \notin Ended
  <2>1. Target(q) \in Roots  BY <1>1, <1>4, ItemFacts
  <2>2. temp'[Target(q)][q] = temp[Target(q)][q]  BY <2>1
  <2> QED BY <1>1, <1>2, <2>2, PlanKept DEF VerifiedAt
<1> QED BY <1>3, <1>4

LEMMA ItemLogged ==
  ASSUME Inv, NEW p \in Paths, ItemStep(p),
         \A q \in Paths \ {p}, r \in Roots :
           aside'[r][q] = aside[r][q] /\ (log[r] = q => log'[r] = log[r]),
         LoggedAt(p)'
  PROVE  Logged'
<1> SUFFICES ASSUME NEW q \in Paths, q # p PROVE LoggedAt(q)'
  BY DEF Logged
<1>1. /\ phase \in {"transport", "save"} /\ UNCHANGED <<seen, plan>>
      /\ step'[q] = step[q]
  BY ItemMoves DEF run, choices
<1>2. LoggedAt(q)  BY DEF Inv, Logged
<1>3. CASE step[q] \in Ended  BY <1>1, <1>3 DEF LoggedAt, Ended
<1>4. CASE step[q] \notin Ended
  <2>1. Target(q) \in Roots  BY <1>1, <1>4, ItemFacts
  <2> QED BY <1>1, <1>2, <2>1, PlanKept DEF LoggedAt
<1> QED BY <1>3, <1>4

-----------------------------------------------------------------------------
(* Typing.                                                                 *)

LEMMA PutDoes ==
  ASSUME TypeOK, NEW r \in Roots, NEW p \in Paths, NEW c \in Contents, Put(r, p, c)
  PROVE  /\ disk' \in [Roots -> [Paths -> Contents]]
         /\ had' \in [Roots -> [Paths -> SUBSET Contents]]
         /\ \A u \in Roots, q \in Paths :
              disk'[u][q] = IF u = r /\ q = p THEN c ELSE disk[u][q]
         /\ \A u \in Roots, q \in Paths : had[u][q] \subseteq had'[u][q]
         /\ c \in had'[r][p]
<1>1. /\ disk \in [Roots -> [Paths -> Contents]] /\ disk' = [disk EXCEPT ![r][p] = c]
      /\ had \in [Roots -> [Paths -> SUBSET Contents]]
      /\ had' = [had EXCEPT ![r][p] = had[r][p] \cup {c}]
      /\ had[r][p] \cup {c} \in SUBSET Contents
  BY DEF TypeOK, Put
<1>2. /\ disk' \in [Roots -> [Paths -> Contents]]
      /\ \A u \in Roots, q \in Paths :
           disk'[u][q] = IF u = r /\ q = p THEN c ELSE disk[u][q]
  BY <1>1, PutIn
<1>3. /\ had' \in [Roots -> [Paths -> SUBSET Contents]]
      /\ \A u \in Roots, q \in Paths :
           had'[u][q] = IF u = r /\ q = p THEN had[r][p] \cup {c} ELSE had[u][q]
  BY <1>1, PutIn
<1> QED BY <1>2, <1>3

LEMMA KeepDoes ==
  ASSUME TypeOK, NEW r \in Roots, NEW p \in Paths, NEW c \in Contents, Keep(r, p, c)
  PROVE  /\ kept' \in [Roots -> [Paths -> SUBSET Contents]]
         /\ \A u \in Roots, q \in Paths : kept[u][q] \subseteq kept'[u][q]
         /\ c \in kept'[r][p]
<1>1. /\ kept \in [Roots -> [Paths -> SUBSET Contents]]
      /\ kept' = [kept EXCEPT ![r][p] = kept[r][p] \cup {c}]
      /\ kept[r][p] \cup {c} \in SUBSET Contents
  BY DEF TypeOK, Keep
<1>2. \A u \in Roots, q \in Paths :
        kept'[u][q] = IF u = r /\ q = p THEN kept[r][p] \cup {c} ELSE kept[u][q]
  BY <1>1, PutIn
<1>3. kept' \in [Roots -> [Paths -> SUBSET Contents]]
  BY <1>1, PutIn
<1> QED BY <1>2, <1>3

(* A temporary file, or what was moved aside, is replaced.                 *)
LEMMA TempDoes ==
  ASSUME TypeOK, NEW r \in Roots, NEW p \in Paths, NEW c \in Contents \cup {Torn},
         temp' = [temp EXCEPT ![r][p] = c]
  PROVE  /\ temp' \in [Roots -> [Paths -> Contents \cup {Torn}]]
         /\ \A u \in Roots, q \in Paths :
              temp'[u][q] = IF u = r /\ q = p THEN c ELSE temp[u][q]
<1>1. temp \in [Roots -> [Paths -> Contents \cup {Torn}]]  BY DEF TypeOK
<1> DEFINE S == Contents \cup {Torn}
<1>2. temp \in [Roots -> [Paths -> S]] /\ c \in S  BY <1>1
<1> HIDE DEF S
<1>3. /\ temp' \in [Roots -> [Paths -> S]]
      /\ \A u \in Roots, q \in Paths :
           temp'[u][q] = IF u = r /\ q = p THEN c ELSE temp[u][q]
  BY <1>2, PutIn
<1> QED BY <1>3 DEF S

LEMMA AsideDoes ==
  ASSUME TypeOK, NEW r \in Roots, NEW p \in Paths, NEW c \in Contents,
         aside' = [aside EXCEPT ![r][p] = c]
  PROVE  /\ aside' \in [Roots -> [Paths -> Contents]]
         /\ \A u \in Roots, q \in Paths :
              aside'[u][q] = IF u = r /\ q = p THEN c ELSE aside[u][q]
<1>1. aside \in [Roots -> [Paths -> Contents]]  BY DEF TypeOK
<1> QED BY <1>1, PutIn

LEMMA MemDoes ==
  ASSUME TypeOK, NEW r \in Roots, NEW p \in Paths, NEW c \in Contents,
         mem' = [mem EXCEPT ![r][p] = c]
  PROVE  /\ mem' \in [Roots -> [Paths -> Contents]]
         /\ \A u \in Roots, q \in Paths :
              mem'[u][q] = IF u = r /\ q = p THEN c ELSE mem[u][q]
<1>1. mem \in [Roots -> [Paths -> Contents]]  BY DEF TypeOK
<1> QED BY <1>1, PutIn

LEMMA EndItemType ==
  ASSUME TypeOK, NEW p \in Paths, NEW s \in Steps, EndItem(p, s)
  PROVE  woken' \in BOOLEAN /\ touched' \in [Paths -> BOOLEAN]
<1>1. touched' \in [Paths -> BOOLEAN]  BY DEF TypeOK, EndItem
<1>2. woken' \in BOOLEAN  BY DEF TypeOK, EndItem
<1> QED BY <1>1, <1>2

LEMMA FaultType ==
  ASSUME TypeOK, faults' = faults \/ \E f \in Faults : Fault(f)
  PROVE  faults' \in 0 .. MaxFaults
  BY BoundAssumption DEF TypeOK, Fault

(* Variables that no step of an item assigns keep their type.              *)
ItemTypes == /\ disk \in [Roots -> [Paths -> Contents]]
             /\ temp \in [Roots -> [Paths -> Contents \cup {Torn}]]
             /\ aside \in [Roots -> [Paths -> Contents]]
             /\ kept \in [Roots -> [Paths -> SUBSET Contents]]
             /\ log \in [Roots -> Paths \cup {NoPath}]
             /\ mem \in [Roots -> [Paths -> Contents]]
             /\ spare \in [Paths -> Contents \cup {Unset}]
             /\ woken \in BOOLEAN
             /\ had \in [Roots -> [Paths -> SUBSET Contents]]
             /\ touched \in [Paths -> BOOLEAN]
             /\ faults \in 0 .. MaxFaults

LEMMA ItemTypeOK ==
  ASSUME Inv, NEW p \in Paths, ItemStep(p)
  PROVE  TypeOK'
<1>0. TypeOK /\ VerifiedAt(p)  BY DEF Inv, Verified
<1>1. /\ UNCHANGED <<stored, run, scratch>> /\ step' \in [Paths -> Steps]
      /\ step[p] \notin Ended /\ phase \in {"transport", "save"}
  BY ItemMoves
<1>2. /\ Source(p) \in Roots /\ Target(p) \in Roots
      /\ Wanted(p) \in Contents /\ seen[Target(p)][p] \in Contents
  BY <1>1, ItemFacts
<1>3. SUFFICES ItemTypes'
  BY <1>0, <1>1 DEF TypeOK, ItemTypes, run, choices
<1>4. ItemTypes  BY <1>0 DEF TypeOK, ItemTypes
<1>5. CASE BeginItem(p)
  BY <1>4, <1>5 DEF BeginItem, ItemTypes, files, Continue
<1>6. CASE Copy(p)
  <2>1. disk[Source(p)][p] \in Contents  BY <1>2, <1>4 DEF ItemTypes
  <2>2. temp' \in [Roots -> [Paths -> Contents \cup {Torn}]]
    BY <1>0, <1>2, <1>4, <1>6, <2>1, TempDoes DEF Copy, ItemTypes
  <2>3. faults' \in 0 .. MaxFaults
    BY <1>0, <1>6, FaultType DEF Copy, Fault
  <2> QED BY <1>4, <1>6, <2>2, <2>3 DEF Copy, ItemTypes, Continue
<1>7. CASE Verify(p)
  BY <1>4, <1>7 DEF Verify, ItemTypes, files, Continue
<1>8. CASE PrepareCopy(p)
  <2>1. disk[Target(p)][p] \in Contents  BY <1>2, <1>4 DEF ItemTypes
  <2> QED BY <1>4, <1>8, <2>1 DEF PrepareCopy, ItemTypes, files, Continue
<1>9. CASE CheckTarget(p)
  <2>1. kept' \in [Roots -> [Paths -> SUBSET Contents]]
    <3>1. CASE spare[p] \in {Unset, Absent}
      BY <1>4, <1>9, <3>1 DEF CheckTarget, ItemTypes
    <3>2. CASE spare[p] \notin {Unset, Absent}
      BY <1>0, <1>2, <1>4, <1>9, <3>2, KeepDoes DEF CheckTarget, ItemTypes
    <3> QED BY <3>1, <3>2
  <2> QED BY <1>4, <1>9, <2>1 DEF CheckTarget, ItemTypes, Continue
<1>10. CASE Divert(p)
  <2>1. temp[Target(p)][p] = Wanted(p)
    BY <1>0, <1>10 DEF Divert, Works, VerifiedAt, Placing
  <2>2. kept' \in [Roots -> [Paths -> SUBSET Contents]]
    BY <1>0, <1>2, <1>10, <2>1, KeepDoes DEF Divert
  <2>3. temp' \in [Roots -> [Paths -> Contents \cup {Torn}]]
    BY <1>0, <1>2, <1>10, TempDoes, ContentsFacts DEF Divert
  <2> QED BY <1>4, <1>10, <2>2, <2>3 DEF Divert, ItemTypes, Continue
<1>11. CASE Rename(p)
  <2>1. temp[Target(p)][p] = Wanted(p)
    BY <1>0, <1>11 DEF Rename, Works, VerifiedAt, Placing
  <2>2. /\ disk' \in [Roots -> [Paths -> Contents]]
        /\ had' \in [Roots -> [Paths -> SUBSET Contents]]
    BY <1>0, <1>2, <1>11, <2>1, PutDoes DEF Rename
  <2>3. temp' \in [Roots -> [Paths -> Contents \cup {Torn}]]
    BY <1>0, <1>2, <1>11, TempDoes, ContentsFacts DEF Rename
  <2> QED BY <1>4, <1>11, <2>2, <2>3 DEF Rename, ItemTypes, Continue
<1>12. CASE WriteLog(p)
  BY <1>2, <1>4, <1>12 DEF WriteLog, ItemTypes, Continue
<1>13. CASE MoveAside(p)
  <2>1. disk[Target(p)][p] \in Contents  BY <1>2, <1>4 DEF ItemTypes
  <2>2. aside' \in [Roots -> [Paths -> Contents]]
    BY <1>0, <1>2, <1>13, <2>1, AsideDoes DEF MoveAside
  <2>3. /\ disk' \in [Roots -> [Paths -> Contents]]
        /\ had' \in [Roots -> [Paths -> SUBSET Contents]]
    BY <1>0, <1>2, <1>13, ContentsFacts, PutDoes DEF MoveAside
  <2> QED BY <1>4, <1>13, <2>2, <2>3 DEF MoveAside, ItemTypes, Continue
<1>14. CASE MoveIn(p)
  <2>1. temp[Target(p)][p] = Wanted(p)
    BY <1>0, <1>14 DEF MoveIn, Works, VerifiedAt, Placing
  <2>2. /\ disk' \in [Roots -> [Paths -> Contents]]
        /\ had' \in [Roots -> [Paths -> SUBSET Contents]]
    BY <1>0, <1>2, <1>14, <2>1, PutDoes DEF MoveIn
  <2>3. temp' \in [Roots -> [Paths -> Contents \cup {Torn}]]
    BY <1>0, <1>2, <1>14, TempDoes, ContentsFacts DEF MoveIn
  <2>4. aside' \in [Roots -> [Paths -> Contents]]
    BY <1>0, <1>2, <1>14, AsideDoes, ContentsFacts DEF MoveIn
  <2> QED BY <1>4, <1>14, <2>2, <2>3, <2>4 DEF MoveIn, ItemTypes, Continue
<1>15. CASE ClearLog(p)
  BY <1>2, <1>4, <1>15 DEF ClearLog, ItemTypes, Continue
<1>16. CASE Cleanup(p)
  BY <1>4, <1>16 DEF Cleanup, ItemTypes, files, Continue
<1>17. CASE Remove(p)
  <2>1. /\ disk' \in [Roots -> [Paths -> Contents]]
        /\ had' \in [Roots -> [Paths -> SUBSET Contents]]
    BY <1>0, <1>2, <1>17, ContentsFacts, PutDoes DEF Remove
  <2> QED BY <1>4, <1>17, <2>1 DEF Remove, ItemTypes, Continue
<1>18. CASE ReplaceArchive(p)
  <2>1. mem' \in [Roots -> [Paths -> Contents]]
    BY <1>0, <1>2, <1>18, MemDoes DEF ReplaceArchive
  <2> QED BY <1>4, <1>18, <2>1 DEF ReplaceArchive, ItemTypes, files, Continue
<1>19. CASE UpdateSource(p)
  <2>1. mem' \in [Roots -> [Paths -> Contents]]
    BY <1>0, <1>2, <1>19, MemDoes DEF UpdateSource
  <2>2. woken' \in BOOLEAN /\ touched' \in [Paths -> BOOLEAN]
    BY <1>0, <1>19, EndItemType DEF UpdateSource, Steps
  <2> QED BY <1>4, <1>19, <2>1, <2>2 DEF UpdateSource, ItemTypes, files
<1>20. CASE FailItem(p)
  <2>1. woken' \in BOOLEAN /\ touched' \in [Paths -> BOOLEAN]
    BY <1>0, <1>20, EndItemType DEF FailItem, Steps
  <2>2. faults' \in 0 .. MaxFaults
    BY <1>0, <1>20, FaultType DEF FailItem, Fault
  <2> QED BY <1>2, <1>4, <1>20, <2>1, <2>2 DEF FailItem, ItemTypes
<1> QED BY <1>5, <1>6, <1>7, <1>8, <1>9, <1>10, <1>11, <1>12, <1>13, <1>14, <1>15,
           <1>16, <1>17, <1>18, <1>19, <1>20 DEF ItemStep

-----------------------------------------------------------------------------
(* Steps of an item keep the rest of the invariant.                        *)

LEMMA ItemStepAt ==
  ASSUME Inv, NEW p \in Paths, NEW s \in Steps, Goto(p, s)
  PROVE  step'[p] = s
  BY DEF Inv, TypeOK, Goto

LEMMA ItemVerifies ==
  ASSUME Inv, NEW p \in Paths, ItemStep(p)
  PROVE  Verified'
<1>0. TypeOK /\ VerifiedAt(p)  BY DEF Inv, Verified
<1>1. /\ UNCHANGED <<seen, plan>> /\ step[p] \notin Ended
      /\ phase \in {"transport", "save"}
  BY ItemMoves DEF run, choices
<1>2. /\ Source(p) \in Roots /\ Target(p) \in Roots
      /\ Wanted(p) \in Contents /\ disk[Source(p)][p] \in Contents
  BY <1>0, <1>1, ItemFacts DEF TypeOK
<1>3. /\ Target(p)' = Target(p) /\ Wanted(p)' = Wanted(p)
      /\ Deletion(p)' = Deletion(p)
  BY <1>1, PlanKept
<1>4. \A q \in Paths \ {p}, r \in Roots : temp'[r][q] = temp[r][q]
  <2>1. \/ UNCHANGED temp
        \/ \E c \in Contents \cup {Torn} : temp' = [temp EXCEPT ![Target(p)][p] = c]
    BY <1>2, ContentsFacts
       DEF ItemStep, BeginItem, Copy, Verify, PrepareCopy, CheckTarget, Divert, Rename,
           WriteLog, MoveAside, MoveIn, ClearLog, Cleanup, Remove, ReplaceArchive,
           UpdateSource, FailItem, files
  <2>2. CASE UNCHANGED temp  BY <2>2
  <2>3. CASE \E c \in Contents \cup {Torn} : temp' = [temp EXCEPT ![Target(p)][p] = c]
    BY <1>0, <1>2, <2>3, TempDoes
  <2> QED BY <2>1, <2>2, <2>3
<1>5. SUFFICES VerifiedAt(p)'
  BY <1>4, ItemVerified
<1> USE <1>0, <1>1, <1>3 DEF VerifiedAt, Placing, Continue, Steps
<1>6. CASE BeginItem(p) \/ Copy(p)
  <2>1. CASE BeginItem(p)  BY <2>1, ItemStepAt DEF BeginItem
  <2>2. CASE Copy(p)
    <3>1. step'[p] = "verify" /\ ~Deletion(p)
      BY <2>2, ItemStepAt DEF Copy, Works
    <3> QED BY <3>1
  <2> QED BY <1>6, <2>1, <2>2
<1>7. CASE Verify(p)
  <2>1. step'[p] = "prepare" /\ temp' = temp /\ temp[Target(p)][p] = Wanted(p)
    BY <1>7, ItemStepAt DEF Verify, files
  <2> QED BY <2>1
<1>8. CASE PrepareCopy(p)
  <2>1. step[p] = "prepare" /\ step'[p] = "check" /\ temp' = temp
    BY <1>8, ItemStepAt DEF PrepareCopy, Works, files
  <2> QED BY <2>1
<1>9. CASE CheckTarget(p)
  <2>1. step[p] = "check" /\ temp' = temp
    BY <1>9 DEF CheckTarget, Works
  <2>2. CASE Deletion(p)
    <3>1. step'[p] = "remove"  BY <1>9, <2>2, ItemStepAt DEF CheckTarget
    <3> QED BY <2>2, <3>1
  <2>3. CASE ~Deletion(p)
    <3>1. step'[p] \in {"divert", "rename"}
      BY <1>9, <2>3, ItemStepAt DEF CheckTarget
    <3> QED BY <2>1, <2>3, <3>1
  <2> QED BY <2>2, <2>3
<1>10. CASE Divert(p) \/ Rename(p)
  <2>1. step'[p] = "archive"  BY <1>10, ItemStepAt DEF Divert, Rename
  <2> QED BY <2>1
<1>11. CASE WriteLog(p) \/ MoveAside(p)
  <2>1. step[p] \in Placing /\ step'[p] \in {"aside", "in"} /\ temp' = temp
    BY <1>11, ItemStepAt DEF WriteLog, MoveAside, Works
  <2> QED BY <2>1
<1>12. CASE MoveIn(p) \/ ClearLog(p) \/ Cleanup(p) \/ Remove(p) \/ ReplaceArchive(p)
  <2>1. step'[p] \in {"clear", "cleanup", "archive", "source"}
    BY <1>12, ItemStepAt DEF MoveIn, ClearLog, Cleanup, Remove, ReplaceArchive
  <2> QED BY <2>1
<1>13. CASE UpdateSource(p) \/ FailItem(p)
  <2>1. step'[p] \in {"done", "failed"}
    BY <1>13, ItemStepAt DEF UpdateSource, FailItem, EndItem
  <2> QED BY <2>1
<1> QED BY <1>6, <1>7, <1>8, <1>9, <1>10, <1>11, <1>12, <1>13 DEF ItemStep

(* The log of a root is written when nothing is aside there, and removed   *)
(* when nothing is any more.                                               *)
LEMMA ItemLogs ==
  ASSUME Inv, NEW p \in Paths, ItemStep(p)
  PROVE  Logged' /\ LogTells'
<1>0. TypeOK /\ LoggedAt(p) /\ LogTells  BY DEF Inv, Logged
<1>1. /\ UNCHANGED <<seen, plan>> /\ step[p] \notin Ended
      /\ phase \in {"transport", "save"}
  BY ItemMoves DEF run, choices
<1>2. /\ Target(p) \in Roots /\ Target(p)' = Target(p)
      /\ disk[Target(p)][p] \in Contents
  BY <1>0, <1>1, ItemFacts, PlanKept DEF TypeOK
<1>3. log \in [Roots -> Paths \cup {NoPath}] /\ NoPath \notin Paths
  BY <1>0, PathsAssumption DEF TypeOK
<1>4. CASE WriteLog(p)
  <2>1. /\ log[Target(p)] = NoPath /\ log' = [log EXCEPT ![Target(p)] = p]
        /\ aside' = aside /\ step'[p] = "aside"
    BY <1>4, ItemStepAt DEF WriteLog, Continue, Steps
  <2>2. \A q \in Paths : aside[Target(p)][q] = Absent
    BY <1>0, <1>2, <1>3, <2>1 DEF LogTells
  <2>3. LogTells'  BY <1>0, <1>3, <2>1, <2>2 DEF LogTells
  <2>4. LoggedAt(p)'  BY <1>2, <1>3, <2>1, <2>2 DEF LoggedAt
  <2> QED BY <1>3, <2>1, <2>3, <2>4, ItemLogged
<1>5. CASE MoveAside(p)
  <2>1. /\ step[p] = "aside" /\ step'[p] = "in" /\ log' = log
        /\ aside' = [aside EXCEPT ![Target(p)][p] = disk[Target(p)][p]]
    BY <1>5, ItemStepAt DEF MoveAside, Works, Continue, Steps
  <2>2. \A q \in Paths, r \in Roots :
          aside'[r][q] = IF r = Target(p) /\ q = p THEN disk[Target(p)][p]
                                                  ELSE aside[r][q]
    BY <1>0, <1>2, <2>1, AsideDoes
  <2>3. log[Target(p)] = p  BY <1>0, <2>1 DEF LoggedAt
  <2>4. LogTells'  BY <1>0, <2>1, <2>2, <2>3 DEF LogTells
  <2>5. LoggedAt(p)'  BY <1>2, <2>1, <2>3 DEF LoggedAt
  <2> QED BY <2>1, <2>2, <2>4, <2>5, ItemLogged
<1>6. CASE MoveIn(p)
  <2>1. /\ step[p] = "in" /\ step'[p] = "clear" /\ log' = log
        /\ aside' = [aside EXCEPT ![Target(p)][p] = Absent]
    BY <1>6, ItemStepAt DEF MoveIn, Works, Continue, Steps
  <2>2. \A q \in Paths, r \in Roots :
          aside'[r][q] = IF r = Target(p) /\ q = p THEN Absent ELSE aside[r][q]
    BY ZenonT(60), <1>0, <1>2, <2>1, AsideDoes, ContentsFacts
  <2>3. LogTells'  BY <1>0, <2>1, <2>2 DEF LogTells
  <2>4. LoggedAt(p)'  BY <1>0, <1>2, <2>1, <2>2 DEF LoggedAt
  <2> QED BY <2>1, <2>2, <2>3, <2>4, ItemLogged
<1>7. CASE \/ ClearLog(p)
           \/ FailItem(p) /\ step[p] = "aside"
  <2>1. /\ step[p] \in {"aside", "clear"} /\ step'[p] \in {"cleanup", "failed"}
        /\ log' = [log EXCEPT ![Target(p)] = NoPath] /\ aside' = aside
    BY <1>7, ItemStepAt DEF ClearLog, FailItem, EndItem, Works, Continue, Steps
  <2>2. log[Target(p)] = p /\ aside[Target(p)][p] = Absent
    BY <1>0, <2>1 DEF LoggedAt
  <2>3. \A q \in Paths : aside[Target(p)][q] = Absent
    BY <1>0, <1>2, <2>2 DEF LogTells
  <2>4. LogTells'  BY <1>0, <1>3, <2>1, <2>3 DEF LogTells
  <2>5. LoggedAt(p)'  BY <2>1 DEF LoggedAt
  <2> QED BY <1>2, <1>3, <2>1, <2>2, <2>4, <2>5, ItemLogged
<1>8. CASE ~(\/ WriteLog(p) \/ MoveAside(p) \/ MoveIn(p) \/ ClearLog(p)
             \/ FailItem(p) /\ step[p] = "aside")
  <2>1. UNCHANGED <<log, aside>> /\ step'[p] \notin {"aside", "in", "clear"}
    <3>1. CASE FailItem(p)
      BY <1>8, <3>1, ItemStepAt DEF FailItem, EndItem, Steps
    <3>2. CASE CheckTarget(p)
      BY <3>2, ItemStepAt DEF CheckTarget, Continue, Steps
    <3>3. CASE BeginItem(p) \/ Copy(p) \/ Verify(p) \/ PrepareCopy(p) \/ Divert(p)
      BY <3>3, ItemStepAt
         DEF BeginItem, Copy, Verify, PrepareCopy, Divert, Continue, Steps, files
    <3>4. CASE Rename(p) \/ Cleanup(p) \/ Remove(p) \/ ReplaceArchive(p) \/ UpdateSource(p)
      BY <3>4, ItemStepAt
         DEF Rename, Cleanup, Remove, ReplaceArchive, UpdateSource, EndItem, Continue,
             Steps, files
    <3> QED BY <1>8, <3>1, <3>2, <3>3, <3>4 DEF ItemStep
  <2>2. LogTells'  BY <1>0, <2>1 DEF LogTells
  <2>3. LoggedAt(p)'  BY <2>1 DEF LoggedAt
  <2> QED BY <2>1, <2>2, <2>3, ItemLogged
<1> QED BY <1>4, <1>5, <1>6, <1>7, <1>8

-----------------------------------------------------------------------------
(* Steps of a run and of its surroundings.                                 *)

LEMMA BothEach ==
  ASSUME NEW S, NEW c \in S
  PROVE  /\ Each(c) \in [Paths -> S] /\ \A p \in Paths : Each(c)[p] = c
         /\ Both(c) \in [Roots -> S] /\ \A r \in Roots : Both(c)[r] = c
  BY DEF Both, Each

(* Where all items have ended, only the log remains to be looked at.       *)
LEMMA AllEnded ==
  ASSUME \A p \in Paths : step[p] \in Ended
  PROVE  Verified /\ Logged /\ (\A p \in Paths : step[p] \notin Ended => plan[p] \in Roots)
  BY DEF Verified, VerifiedAt, Logged, LoggedAt, Placing, Ended

LEMMA EndRunInv ==
  ASSUME Inv, EndRun, stored' \in [Paths -> Contents], faults' \in 0 .. MaxFaults
  PROVE  Inv'
<1>1. TypeOK  BY DEF Inv
<1>2. /\ seen' \in [Roots -> [Paths -> Contents \cup {Unset}]]
      /\ spare' \in [Paths -> Contents \cup {Unset}]
  BY BothEach DEF EndRun
<1>3. /\ mem' \in [Roots -> [Paths -> Contents]]
      /\ scratch' \in [Roots -> [Paths -> Contents]]
  BY BothEach DEF EndRun
<1>4. /\ plan' \in [Paths -> {0} \cup Roots]
      /\ told' \in [Paths -> BOOLEAN] /\ touched' \in [Paths -> BOOLEAN]
      /\ step' \in [Paths -> Steps] /\ \A p \in Paths : step'[p] = "done"
  BY BothEach DEF EndRun, Steps
<1>5. phase' \in Phases /\ todo' \subseteq Roots /\ stopping' \in BOOLEAN /\ woken' \in BOOLEAN
  BY DEF EndRun, Phases
<1>6. UNCHANGED <<disk, temp, aside, kept, log, copies, had, edits>>
  BY DEF EndRun, files
<1>7. TypeOK'
  BY <1>1, <1>2, <1>3, <1>4, <1>5, <1>6 DEF TypeOK
<1>8. \A p \in Paths : step'[p] \in Ended  BY <1>4 DEF Ended
<1>9. Verified' /\ Logged' /\ Directed'
  BY <1>8, AllEnded DEF EndRun, Directed, Verified, VerifiedAt, Logged, LoggedAt,
                        Placing, Ended
<1>10. LogTells'  BY <1>6 DEF Inv, LogTells
<1> QED BY <1>7, <1>9, <1>10 DEF Inv

(* Steps that leave the items, their plan and the file systems alone.      *)
LEMMA QuietInv ==
  ASSUME Inv, TypeOK', UNCHANGED <<temp, aside, log, seen, plan, step>>,
         \/ phase' = phase
         \/ phase = "detect" /\ phase' \in {"equal", "choose"}
              /\ \A r \in Roots, p \in Paths : seen[r][p] # Unset
         \/ phase \in {"equal", "keep"} /\ phase' \in {"keep", "choose"}
         \/ phase = "idle" /\ phase' = "detect"
         \/ phase = "transport" /\ phase' = "save"
  PROVE  Inv'
<1>1. Directed'  BY DEF Inv, Directed
<1>2. Verified'
  BY PlanKept DEF Inv, Verified, VerifiedAt
<1>3. Logged'
  BY PlanKept DEF Inv, Logged, LoggedAt
<1>4. LogTells'  BY DEF Inv, LogTells
<1> QED BY <1>1, <1>2, <1>3, <1>4 DEF Inv

LEMMA RunInv ==
  ASSUME Inv,
         \/ Launch \/ Reconcile \/ Choose \/ Finish \/ Store \/ Fatal \/ Stop \/ Kill
         \/ \E r \in Roots : MarkEqual(r) \/ Prepare(r)
         \/ \E r \in Roots, p \in Paths : FindUpdate(r, p)
  PROVE  Inv'
<1> USE DEF files, choices, bounds, items
<1>0. TypeOK  BY DEF Inv
<1>1. CASE Launch
  <2>1. mem' \in [Roots -> [Paths -> Contents]]
    BY <1>0, <1>1, BothEach DEF Launch, TypeOK
  <2>2. TypeOK'  BY <1>0, <1>1, <2>1 DEF Launch, TypeOK, Phases
  <2> QED BY <1>1, <2>2, QuietInv DEF Launch
<1>2. CASE Reconcile
  <2>1. TypeOK'  BY <1>0, <1>2 DEF Reconcile, Command, TypeOK, Phases
  <2> QED BY <1>2, <2>1, QuietInv DEF Reconcile, Command
<1>3. CASE Choose
  <2>1. step' \in [Paths -> Steps]  BY <1>3 DEF Choose, Steps
  <2>2. /\ plan' \in [Paths -> {0} \cup Roots] /\ told' \in [Paths -> BOOLEAN]
        /\ woken' \in BOOLEAN
    BY <1>3 DEF Choose
  <2>3. TypeOK'  BY <1>0, <1>3, <2>1, <2>2 DEF Choose, TypeOK, Phases
  <2>4. \A p \in Paths : /\ step'[p] \in {"done", "start"}
                         /\ step'[p] = "start" => plan'[p] \in Roots
    BY <1>3, <2>2 DEF Choose
  <2>5. Directed'
    BY <1>3, <2>4 DEF Inv, Directed, Choose, Ended
  <2>6. Verified' /\ Logged'
    BY <2>4 DEF Verified, VerifiedAt, Logged, LoggedAt, Placing
  <2>7. LogTells'  BY <1>3 DEF Inv, LogTells, Choose
  <2> QED BY <2>3, <2>5, <2>6, <2>7 DEF Inv
<1>4. CASE Finish
  <2>1. TypeOK'  BY <1>0, <1>4 DEF Finish, Command, TypeOK, Phases
  <2> QED BY <1>4, <2>1, QuietInv DEF Finish, Command
<1>5. CASE Store
  <2>1. stored' \in [Paths -> Contents] /\ faults' \in 0 .. MaxFaults
    BY <1>0, <1>5 DEF Store, TypeOK, Roots
  <2>2. CASE EndRun  BY <2>1, <2>2, EndRunInv
  <2>3. CASE ~EndRun
    <3>1. /\ phase = "keep" /\ phase' = "choose"
          /\ UNCHANGED <<files, copies, todo, mem, scratch, choices, items,
                         had, touched, bounds>>
      BY <1>5, <2>3 DEF Store
    <3>2. TypeOK'  BY <1>0, <2>1, <3>1 DEF TypeOK, Phases
    <3> QED BY <3>1, <3>2, QuietInv
  <2> QED BY <2>2, <2>3
<1>6. CASE Fatal \/ Kill
  <2>1. stored' \in [Paths -> Contents] /\ faults' \in 0 .. MaxFaults /\ EndRun
    BY <1>0, <1>6, FaultType DEF Fatal, Kill, Fault, TypeOK
  <2> QED BY <2>1, EndRunInv
<1>7. CASE Stop
  <2>1. faults' \in 0 .. MaxFaults  BY <1>0, <1>7, FaultType DEF Stop, Fault
  <2>2. woken' \in BOOLEAN  BY <1>7 DEF Stop
  <2>3. TypeOK'  BY <1>0, <1>7, <2>1, <2>2 DEF Stop, TypeOK
  <2> QED BY <1>7, <2>3, QuietInv DEF Stop
<1>8. ASSUME NEW r \in Roots, MarkEqual(r) PROVE Inv'
  <2> DEFINE marked == [p \in Paths |-> IF p \in EqualUpdates THEN seen[r][p]
                                                              ELSE mem[r][p]]
  <2>1. \A p \in Paths : seen[r][p] \in Contents /\ mem[r][p] \in Contents
    BY <1>0, <1>8 DEF Inv, Directed, TypeOK, MarkEqual
  <2>2. marked \in [Paths -> Contents]  BY <2>1
  <2>3. mem' = [mem EXCEPT ![r] = marked]  BY <1>8 DEF MarkEqual
  <2>4. mem' \in [Roots -> [Paths -> Contents]]
    BY <1>0, <2>2, <2>3 DEF TypeOK
  <2>5. TypeOK'  BY <1>0, <1>8, <2>4 DEF MarkEqual, Command, TypeOK, Phases
  <2> QED BY <1>8, <2>5, QuietInv DEF MarkEqual, Command
<1>9. ASSUME NEW r \in Roots, Prepare(r) PROVE Inv'
  <2>1. scratch' \in [Roots -> [Paths -> Contents]]
    BY <1>0, <1>9 DEF Prepare, TypeOK
  <2>2. TypeOK'  BY <1>0, <1>9, <2>1 DEF Prepare, TypeOK
  <2> QED BY <1>9, <2>2, QuietInv DEF Prepare
<1>10. ASSUME NEW r \in Roots, NEW p \in Paths, FindUpdate(r, p) PROVE Inv'
  <2> DEFINE S == Contents \cup {Unset}
  <2>1. /\ seen \in [Roots -> [Paths -> S]] /\ disk[r][p] \in S
        /\ seen' = [seen EXCEPT ![r][p] = disk[r][p]]
    BY <1>0, <1>10 DEF TypeOK, FindUpdate
  <2> HIDE DEF S
  <2>2. seen' \in [Roots -> [Paths -> S]]  BY <2>1, PutIn
  <2>3. TypeOK'  BY <1>0, <1>10, <2>2 DEF FindUpdate, TypeOK, S
  <2>4. \A q \in Paths : step'[q] \in Ended  BY <1>10 DEF FindUpdate, Inv, Directed
  <2>5. Directed'  BY <1>10, <2>4 DEF FindUpdate, Directed
  <2>6. Verified' /\ Logged'
    BY <2>4 DEF Verified, VerifiedAt, Logged, LoggedAt, Placing, Ended
  <2>7. LogTells'  BY <1>10 DEF FindUpdate, Inv, LogTells
  <2> QED BY <2>3, <2>5, <2>6, <2>7 DEF Inv
<1> QED BY <1>1, <1>2, <1>3, <1>4, <1>5, <1>6, <1>7, <1>8, <1>9, <1>10

LEMMA EditInv ==
  ASSUME Inv, NEW r \in Roots, NEW p \in Paths, Edit(r, p)
  PROVE  Inv'
<1>0. TypeOK  BY DEF Inv
<1>1. PICK c \in Contents : Put(r, p, c)  BY DEF Edit
<1>2. /\ disk' \in [Roots -> [Paths -> Contents]]
      /\ had' \in [Roots -> [Paths -> SUBSET Contents]]
  BY <1>0, <1>1, PutDoes
<1>3. touched' \in [Paths -> BOOLEAN]  BY <1>0 DEF TypeOK, Edit
<1>4. edits' \in 0 .. MaxEdits  BY <1>0, BoundAssumption DEF TypeOK, Edit
<1>5. TypeOK'
  BY <1>0, <1>2, <1>3, <1>4 DEF TypeOK, Edit, choices, items
<1> QED BY <1>5, QuietInv DEF Edit, choices, items

(* The user removes the log of a root when no run is under way.            *)
LEMMA RemoveLogInv ==
  ASSUME Inv, NEW r \in Roots, RemoveLog(r)
  PROVE  Inv'
<1> USE DEF RemoveLog
<1>0. TypeOK /\ LogTells  BY DEF Inv
<1>1. log[r] \in Paths /\ aside[r][log[r]] \in Contents
  BY <1>0 DEF TypeOK
<1>2. /\ disk' \in [Roots -> [Paths -> Contents]]
      /\ had' \in [Roots -> [Paths -> SUBSET Contents]]
  BY <1>0, <1>1, PutDoes DEF TypeOK
<1>3. /\ aside' \in [Roots -> [Paths -> Contents]]
      /\ \A u \in Roots, q \in Paths :
           aside'[u][q] = IF u = r /\ q = log[r] THEN Absent ELSE aside[u][q]
  BY ZenonT(60), <1>0, <1>1, ContentsFacts, AsideDoes
<1>4. log' \in [Roots -> Paths \cup {NoPath}]  BY <1>0 DEF TypeOK
<1>5. TypeOK'
  BY <1>0, <1>2, <1>3, <1>4 DEF TypeOK, choices, items, bounds
<1>6. \A p \in Paths : step'[p] \in Ended
  BY DEF Inv, Directed, items
<1>7. Directed'  BY <1>6 DEF Directed
<1>8. Verified' /\ Logged'
  BY <1>6 DEF Verified, VerifiedAt, Logged, LoggedAt, Placing, Ended
<1>9. LogTells'  BY <1>0, <1>3, <1>4 DEF LogTells, TypeOK
<1> QED BY <1>5, <1>7, <1>8, <1>9 DEF Inv

LEMMA InitInv == Init => Inv
<1> SUFFICES ASSUME Init PROVE Inv  OBVIOUS
<1> USE DEF Init
<1>1. /\ stored \in [Paths -> Contents] /\ disk \in [Roots -> [Paths -> Contents]]
      /\ mem \in [Roots -> [Paths -> Contents]]
      /\ scratch \in [Roots -> [Paths -> Contents]]
  BY BothEach
<1>2. /\ Each(Absent) \in [Paths -> Contents]
      /\ Each(Absent) \in [Paths -> Contents \cup {Torn}]
      /\ Each({}) \in [Paths -> SUBSET Contents]
      /\ Each(Unset) \in [Paths -> Contents \cup {Unset}]
      /\ plan \in [Paths -> {0} \cup Roots] /\ told \in [Paths -> BOOLEAN]
      /\ touched \in [Paths -> BOOLEAN] /\ step \in [Paths -> Steps]
  BY BothEach, ContentsFacts DEF Steps
<1>3. /\ temp \in [Roots -> [Paths -> Contents \cup {Torn}]]
      /\ aside \in [Roots -> [Paths -> Contents]]
      /\ kept \in [Roots -> [Paths -> SUBSET Contents]]
      /\ log \in [Roots -> Paths \cup {NoPath}]
      /\ seen \in [Roots -> [Paths -> Contents \cup {Unset}]]
  BY <1>2, BothEach
<1>4. [p \in Paths |-> {stored[p]}] \in [Paths -> SUBSET Contents]
  BY <1>1
<1>5. had \in [Roots -> [Paths -> SUBSET Contents]]
  BY <1>4, BothEach
<1>6. TypeOK
  <2>1. /\ copies \in BOOLEAN /\ phase \in Phases /\ todo \subseteq Roots
        /\ stopping \in BOOLEAN /\ woken \in BOOLEAN
        /\ spare \in [Paths -> Contents \cup {Unset}]
    BY <1>2, ChoiceAssumption DEF Phases
  <2>2. edits \in 0 .. MaxEdits /\ faults \in 0 .. MaxFaults
    BY BoundAssumption
  <2> HIDE DEF Init
  <2> QED BY <1>1, <1>2, <1>3, <1>5, <2>1, <2>2 DEF TypeOK
<1>7. \A p \in Paths : step[p] = "done"  BY BothEach
<1>8. Directed  BY <1>7 DEF Directed, Ended
<1>9. Verified /\ Logged  BY <1>7, AllEnded DEF Ended
<1>10. \A r \in Roots, p \in Paths : aside[r][p] = Absent
  BY DEF Both, Each
<1>11. LogTells  BY <1>10 DEF LogTells
<1> QED BY <1>6, <1>8, <1>9, <1>11 DEF Inv

LEMMA StutterInv == Inv /\ UNCHANGED vars => Inv'
<1> SUFFICES ASSUME Inv, UNCHANGED vars PROVE Inv'  OBVIOUS
<1>1. TypeOK'  BY DEF Inv, TypeOK, vars, files, choices, bounds
<1> QED BY <1>1, QuietInv DEF vars, files, choices

LEMMA NextInv == Inv /\ [Next]_vars => Inv'
<1> SUFFICES ASSUME Inv, [Next]_vars PROVE Inv'  OBVIOUS
<1>1. ASSUME NEW p \in Paths, ItemStep(p) PROVE Inv'
  BY <1>1, ItemTypeOK, ItemDirected, ItemVerifies, ItemLogs DEF Inv
<1>2. CASE RunStep  BY <1>1, <1>2, RunInv DEF RunStep, Proceed
<1>3. CASE Stop \/ Kill  BY <1>3, RunInv
<1>4. CASE \E r \in Roots : RemoveLog(r)  BY <1>4, RemoveLogInv
<1>5. CASE \E r \in Roots, p \in Paths : Edit(r, p)  BY <1>5, EditInv
<1>6. CASE UNCHANGED vars  BY <1>6, StutterInv
<1> QED BY <1>2, <1>3, <1>4, <1>5, <1>6 DEF Next

(* Inv is an invariant of every behaviour of runs and their surroundings.  *)
THEOREM Invariant == Spec => []Inv
<1> QED BY InitInv, NextInv, PTL DEF Spec

(* Every variable of runs and of the replicas keeps its type.              *)
THEOREM TypeCorrect == Spec => []TypeOK
<1>1. Inv => TypeOK  BY DEF Inv
<1> QED BY <1>1, Invariant, PTL

(* What performRename has moved away and not yet replaced is named in the  *)
(* commit log of its root, also after a crash at any moment.               *)
THEOREM LogIsKept == Spec => []LogTells
<1>1. Inv => LogTells  BY DEF Inv
<1> QED BY <1>1, Invariant, PTL

-----------------------------------------------------------------------------
(* Original or final contents.                                             *)

Step_OriginalOrFinal ==
  \A r \in Roots, p \in Paths :
    Replaces(r, p) => \/ r = Target(p) /\ disk'[r][p] = Wanted(p)
                      \/ disk'[r][p] = Absent /\ log[r] = p

(* Unison changes a path of a root only as the target of its item.         *)
LEMMA ItemPuts ==
  ASSUME Inv, NEW p \in Paths, ItemStep(p)
  PROVE  \/ UNCHANGED <<disk, had>>
         \/ Put(Target(p), p, Wanted(p)) /\ step[p] \in {"rename", "in", "remove"}
         \/ Put(Target(p), p, Absent) /\ step[p] = "aside" /\ log[Target(p)] = p
<1>1. VerifiedAt(p) /\ LoggedAt(p)  BY DEF Inv, Verified, Logged
<1>2. CASE Rename(p) \/ MoveIn(p)
  <2>1. temp[Target(p)][p] = Wanted(p)
    BY <1>1, <1>2 DEF Rename, MoveIn, Works, VerifiedAt, Placing
  <2> QED BY <1>2, <2>1 DEF Rename, MoveIn, Works
<1>3. CASE MoveAside(p)
  BY <1>1, <1>3 DEF MoveAside, Works, LoggedAt
<1>4. CASE Remove(p)
  BY <1>1, <1>4 DEF Remove, Works, VerifiedAt, Deletion
<1>5. CASE ~(Rename(p) \/ MoveIn(p) \/ MoveAside(p) \/ Remove(p))
  BY <1>5 DEF ItemStep, BeginItem, Copy, Verify, PrepareCopy, CheckTarget, Divert,
              WriteLog, ClearLog, Cleanup, ReplaceArchive, UpdateSource, FailItem, files
<1> QED BY <1>2, <1>3, <1>4, <1>5

LEMMA NextOriginalOrFinal == Inv /\ [Next]_vars => Step_OriginalOrFinal
<1> SUFFICES ASSUME Inv, [Next]_vars, NEW r \in Roots, NEW q \in Paths, Replaces(r, q)
             PROVE  \/ r = Target(q) /\ disk'[r][q] = Wanted(q)
                    \/ disk'[r][q] = Absent /\ log[r] = q
  BY DEF Step_OriginalOrFinal
<1>0. /\ phase \in {"transport", "save"} /\ edits' = edits
      /\ disk'[r][q] # disk[r][q] /\ TypeOK
  BY DEF Replaces, Unison, Inv
<1>1. ASSUME NEW p \in Paths, ItemStep(p)
      PROVE  \/ r = Target(q) /\ disk'[r][q] = Wanted(q)
             \/ disk'[r][q] = Absent /\ log[r] = q
  <2>1. Target(p) \in Roots /\ Wanted(p) \in Contents /\ Absent \in Contents
    BY <1>1, ItemMoves, ItemFacts, ContentsFacts
  <2> QED BY <1>0, <1>1, <2>1, ItemPuts, PutDoes
<1>2. ASSUME UNCHANGED disk PROVE FALSE  BY <1>0, <1>2
<1>3. CASE RunStep
  BY <1>1, <1>2, <1>3 DEF RunStep, Proceed, Launch, Reconcile, Choose, Finish, Store, Fatal,
     EndRun, MarkEqual, Prepare, FindUpdate, files
<1>4. CASE Stop \/ Kill
  BY <1>2, <1>4 DEF Stop, Kill, EndRun, files
<1>5. CASE \E u \in Roots : RemoveLog(u)  BY <1>0, <1>5 DEF RemoveLog
<1>6. CASE \E u \in Roots, p \in Paths : Edit(u, p)
  BY <1>0, <1>6 DEF Edit, TypeOK
<1>7. CASE UNCHANGED vars  BY <1>2, <1>7 DEF vars, files
<1> QED BY <1>3, <1>4, <1>5, <1>6, <1>7 DEF Next

(* Whatever faults and changes there are, Unison only gives a path the     *)
(* contents that the other replica had when the user was asked, or leaves  *)
(* it empty while the commit log says so (performRename, deleteLocal).     *)
THEOREM OnlyFinalContents == Spec => OriginalOrFinal
<1>1. Inv /\ [Next]_vars => [Step_OriginalOrFinal]_vars
  BY NextOriginalOrFinal
<1> QED BY <1>1, Invariant, PTL DEF Spec, OriginalOrFinal, Step_OriginalOrFinal

-----------------------------------------------------------------------------
(* What the archives know.                                                 *)

Kept(r, p) == had[r][p] \cup kept[r][p]
Placed == {"clear", "cleanup", "archive", "source"}

(* Whatever a run reads or writes of an archive, both replicas have had.   *)
Recorded ==
  /\ \A r \in Roots, p \in Paths : /\ disk[r][p] \in had[r][p]
                                   /\ seen[r][p] \in had[r][p] \cup {Unset}
  /\ \A r \in Roots, p \in Paths : /\ stored[p] \in Kept(r, p)
                                   /\ \A u \in Roots : /\ mem[u][p] \in Kept(r, p)
                                                       /\ scratch[u][p] \in Kept(r, p)
  /\ \A p \in Paths : step[p] \in Placed => Wanted(p) \in Kept(Target(p), p)

Grows == \A r \in Roots, p \in Paths : /\ had[r][p] \subseteq had'[r][p]
                                       /\ Kept(r, p) \subseteq Kept(r, p)'
DiskHad == \A r \in Roots, p \in Paths : disk[r][p] \in had[r][p]

LEMMA PutGrows ==
  ASSUME TypeOK, NEW r \in Roots, NEW p \in Paths, NEW c \in Contents, Put(r, p, c),
         UNCHANGED kept, DiskHad
  PROVE  Grows /\ DiskHad' /\ c \in had'[r][p]
<1>1. /\ \A u \in Roots, q \in Paths :
           disk'[u][q] = IF u = r /\ q = p THEN c ELSE disk[u][q]
      /\ \A u \in Roots, q \in Paths : had[u][q] \subseteq had'[u][q]
      /\ c \in had'[r][p]
  BY PutDoes
<1> QED BY <1>1 DEF Grows, DiskHad, Kept

LEMMA KeepGrows ==
  ASSUME TypeOK, NEW r \in Roots, NEW p \in Paths, NEW c \in Contents, Keep(r, p, c),
         UNCHANGED <<disk, had>>, DiskHad
  PROVE  Grows /\ DiskHad' /\ c \in kept'[r][p]
<1>1. /\ \A u \in Roots, q \in Paths : kept[u][q] \subseteq kept'[u][q]
      /\ c \in kept'[r][p]
  BY KeepDoes
<1> QED BY <1>1 DEF Grows, DiskHad, Kept

(* A step of an item keeps what is known, and reaches its last steps with  *)
(* the contents that were wanted in place.                                 *)
LEMMA ItemGrows ==
  ASSUME Inv, Recorded, NEW p \in Paths, ItemStep(p)
  PROVE  /\ Grows /\ DiskHad'
         /\ step'[p] \in Placed =>
              Wanted(p) \in had'[Target(p)][p] \cup kept'[Target(p)][p]
<1>0. TypeOK /\ VerifiedAt(p) /\ DiskHad
  BY DEF Inv, Verified, Recorded, DiskHad
<1>1. /\ Source(p) \in Roots /\ Target(p) \in Roots /\ Wanted(p) \in Contents
  BY ItemMoves, ItemFacts
<1>2. CASE Rename(p) \/ MoveIn(p) \/ Remove(p)
  <2>1. Put(Target(p), p, Wanted(p)) /\ UNCHANGED kept
    BY <1>0, <1>2 DEF Rename, MoveIn, Remove, Works, VerifiedAt, Placing, Deletion
  <2> QED BY <1>0, <1>1, <2>1, PutGrows
<1>3. CASE MoveAside(p)
  <2>1. Put(Target(p), p, Absent) /\ UNCHANGED kept  BY <1>3 DEF MoveAside
  <2>2. step'[p] = "in"
    BY <1>3, ItemStepAt DEF MoveAside, Continue, Steps
  <2> QED BY <1>0, <1>1, <2>1, <2>2, PutGrows, ContentsFacts DEF Placed
<1>4. CASE Divert(p)
  <2>1. Keep(Target(p), p, Wanted(p)) /\ UNCHANGED <<disk, had>>
    BY <1>0, <1>4 DEF Divert, Works, VerifiedAt, Placing
  <2> QED BY <1>0, <1>1, <2>1, KeepGrows
<1>5. CASE CheckTarget(p)
  <2>1. step'[p] \in {"remove", "divert", "rename"} /\ UNCHANGED <<disk, had>>
    BY <1>5, ItemStepAt DEF CheckTarget, Continue, Steps
  <2>2. CASE UNCHANGED kept
    BY <1>0, <2>1, <2>2 DEF Grows, DiskHad, Kept, Placed
  <2>3. CASE spare[p] \notin {Unset, Absent} /\ Keep(Target(p), p, spare[p])
    <3>1. spare[p] \in Contents  BY <1>0, <2>3 DEF TypeOK
    <3> QED BY <1>0, <1>1, <2>1, <2>3, <3>1, KeepGrows DEF Placed
  <2> QED BY <1>5, <2>2, <2>3 DEF CheckTarget
<1>6. CASE ~(Rename(p) \/ MoveIn(p) \/ Remove(p) \/ MoveAside(p) \/ Divert(p)
             \/ CheckTarget(p))
  <2>1. UNCHANGED <<disk, had, kept>>
    BY <1>6 DEF ItemStep, BeginItem, Copy, Verify, PrepareCopy, WriteLog, ClearLog,
                Cleanup, ReplaceArchive, UpdateSource, FailItem, files
  <2>2. Grows /\ DiskHad'  BY <1>0, <2>1 DEF Grows, DiskHad, Kept
  <2>3. step'[p] \in Placed => step[p] \in Placed
    <3>1. CASE BeginItem(p) \/ Copy(p) \/ Verify(p) \/ PrepareCopy(p) \/ WriteLog(p)
      BY <3>1, ItemStepAt
         DEF BeginItem, Copy, Verify, PrepareCopy, WriteLog, Continue, Steps, Placed
    <3>2. CASE ClearLog(p) \/ Cleanup(p) \/ ReplaceArchive(p)
      BY <3>2 DEF ClearLog, Cleanup, ReplaceArchive, Works, Placed
    <3>3. CASE UpdateSource(p) \/ FailItem(p)
      BY <3>3, ItemStepAt DEF UpdateSource, FailItem, EndItem, Steps, Placed
    <3> QED BY <1>6, <3>1, <3>2, <3>3 DEF ItemStep
  <2> QED BY <1>1, <2>1, <2>2, <2>3 DEF Recorded, Kept
<1> QED BY <1>2, <1>3, <1>4, <1>5, <1>6

LEMMA ItemRecords ==
  ASSUME Inv, Recorded, NEW p \in Paths, ItemStep(p)
  PROVE  Recorded'
<1>0. TypeOK  BY DEF Inv
<1>1. /\ UNCHANGED <<stored, scratch, seen, plan>> /\ step[p] \notin Ended
      /\ phase \in {"transport", "save"} /\ \A q \in Paths \ {p} : step'[q] = step[q]
  BY ItemMoves DEF run, choices
<1>2. /\ Source(p) \in Roots /\ Target(p) \in Roots /\ Source(p) # Target(p)
      /\ Wanted(p) \in Contents
  BY <1>1, ItemFacts
<1>3. /\ Grows /\ DiskHad'
      /\ step'[p] \in Placed => Wanted(p) \in had'[Target(p)][p] \cup kept'[Target(p)][p]
  BY ItemGrows
<1>4. \A q \in Paths : (step[q] \in Placed => Wanted(q) \in Kept(Target(q), q))'
  <2> SUFFICES ASSUME NEW q \in Paths, step'[q] \in Placed
               PROVE  (Wanted(q) \in Kept(Target(q), q))'
    OBVIOUS
  <2>1. Target(q)' = Target(q) /\ Wanted(q)' = Wanted(q)  BY <1>1, PlanKept
  <2>2. CASE q = p  BY <1>3, <2>1, <2>2 DEF Kept
  <2>3. CASE q # p
    <3>1. step[q] \in Placed /\ step[q] \notin Ended
      BY <1>1, <2>3 DEF Placed, Ended
    <3>2. Target(q) \in Roots  BY <1>1, <3>1, ItemFacts
    <3>3. Wanted(q) \in Kept(Target(q), q)  BY <3>1 DEF Recorded
    <3> QED BY <1>3, <2>1, <3>2, <3>3 DEF Grows, Kept
  <2> QED BY <2>2, <2>3
<1>5. \A r \in Roots, q \in Paths, u \in Roots : (mem[u][q] \in Kept(r, q))'
  <2>1. CASE UNCHANGED mem  BY <1>3, <2>1 DEF Recorded, Grows
  <2>2. CASE mem' # mem
    <3>1. PICK v \in Roots : /\ mem' = [mem EXCEPT ![v][p] = Wanted(p)]
                             /\ step[p] \in Placed
      BY <1>2, <2>2
         DEF ItemStep, BeginItem, Copy, Verify, PrepareCopy, CheckTarget, Divert, Rename,
             WriteLog, MoveAside, MoveIn, ClearLog, Cleanup, Remove, ReplaceArchive,
             UpdateSource, FailItem, Works, Placed, files
    <3>2. \A u \in Roots, q \in Paths :
            mem'[u][q] = IF u = v /\ q = p THEN Wanted(p) ELSE mem[u][q]
      BY ZenonT(60), <1>0, <1>2, <3>1, MemDoes
    <3>3. Wanted(p) \in Kept(Target(p), p)  BY <3>1 DEF Recorded
    <3>4. Wanted(p) \in Kept(Source(p), p)
      BY <1>2, ContentsFacts DEF Recorded, Wanted, Source, Kept
    <3>5. \A r \in Roots : Wanted(p) \in Kept(r, p)
      BY <1>2, <3>3, <3>4 DEF Roots
    <3> QED BY <1>3, <3>2, <3>5 DEF Recorded, Grows
  <2> QED BY <2>1, <2>2
<1> QED BY <1>1, <1>3, <1>4, <1>5 DEF Recorded, Grows, DiskHad

(* Steps that change neither files nor items.                              *)
LEMMA QuietRecords ==
  ASSUME Recorded, UNCHANGED <<disk, had, kept>>,
         \A r \in Roots, p \in Paths : seen'[r][p] \in had[r][p] \cup {Unset},
         \A r \in Roots, p \in Paths :
           /\ stored'[p] \in Kept(r, p)
           /\ \A u \in Roots : mem'[u][p] \in Kept(r, p) /\ scratch'[u][p] \in Kept(r, p),
         \/ UNCHANGED <<step, plan, seen>>
         \/ \A p \in Paths : step'[p] \notin Placed
  PROVE  Recorded'
<1>1. \A r \in Roots, p \in Paths : Kept(r, p)' = Kept(r, p)  BY DEF Kept
<1>2. \A p \in Paths : (step[p] \in Placed => Wanted(p) \in Kept(Target(p), p))'
  <2>1. CASE UNCHANGED <<step, plan, seen>>
    BY <2>1, PlanKept DEF Recorded, Kept
  <2>2. CASE \A p \in Paths : step'[p] \notin Placed  BY <2>2
  <2> QED BY <2>1, <2>2
<1> QED BY <1>1, <1>2 DEF Recorded

(* The archives in memory and those that were written are those on disk.   *)
LEMMA EndRunRecords ==
  ASSUME Recorded, EndRun,
         \A r \in Roots, p \in Paths : stored'[p] \in Kept(r, p)
  PROVE  Recorded'
<1>1. /\ UNCHANGED <<disk, had, kept>>
      /\ \A r \in Roots, p \in Paths : seen'[r][p] = Unset
      /\ \A p \in Paths : step'[p] = "done"
      /\ \A u \in Roots : mem'[u] = stored' /\ scratch'[u] = stored'
  BY DEF EndRun, files, Both, Each
<1> QED BY <1>1, QuietRecords DEF Placed

LEMMA RunRecords ==
  ASSUME Inv, Recorded,
         \/ Launch \/ Reconcile \/ Choose \/ Finish \/ Store \/ Fatal \/ Stop \/ Kill
         \/ \E r \in Roots : MarkEqual(r) \/ Prepare(r)
         \/ \E r \in Roots, p \in Paths : FindUpdate(r, p)
  PROVE  Recorded'
<1> USE DEF files, choices, bounds, items
<1>0. /\ TypeOK
      /\ \A r \in Roots, p \in Paths : seen[r][p] \in had[r][p] \cup {Unset}
      /\ \A r \in Roots, p \in Paths :
           /\ stored[p] \in Kept(r, p)
           /\ \A u \in Roots : mem[u][p] \in Kept(r, p) /\ scratch[u][p] \in Kept(r, p)
  BY DEF Inv, Recorded
<1>1. CASE Launch
  BY <1>0, <1>1, QuietRecords DEF Launch, Both
<1>2. CASE Reconcile \/ Finish \/ Stop
  BY <1>0, <1>2, QuietRecords DEF Reconcile, Finish, Stop
<1>3. CASE Choose
  <2>1. \A p \in Paths : step'[p] \notin Placed  BY <1>3 DEF Choose, Placed
  <2> QED BY <1>0, <1>3, <2>1, QuietRecords DEF Choose
<1>4. CASE Store
  <2>1. \A r \in Roots, p \in Paths : stored'[p] \in Kept(r, p)
    BY <1>0, <1>4 DEF Store, Roots
  <2>2. CASE EndRun  BY <2>1, <2>2, EndRunRecords
  <2>3. CASE ~EndRun
    <3>1. UNCHANGED <<files, mem, scratch, choices, items, had>>
      BY <1>4, <2>3 DEF Store
    <3> QED BY <1>0, <2>1, <3>1, QuietRecords
  <2> QED BY <2>2, <2>3
<1>5. CASE Fatal \/ Kill
  <2>1. stored' = stored /\ EndRun  BY <1>5 DEF Fatal, Kill
  <2> QED BY <1>0, <2>1, EndRunRecords
<1>6. ASSUME NEW r \in Roots, MarkEqual(r) PROVE Recorded'
  <2> DEFINE marked == [p \in Paths |-> IF p \in EqualUpdates THEN seen[r][p]
                                                              ELSE mem[r][p]]
  <2>1. mem' = [mem EXCEPT ![r] = marked]  BY <1>6 DEF MarkEqual
  <2>2. \A u \in Roots, p \in Paths :
          \/ mem'[u][p] = mem[u][p]
          \/ mem'[u][p] = seen[r][p] /\ p \in EqualUpdates
    BY <1>0, <2>1 DEF TypeOK
  <2>3. \A u \in Roots, p \in Paths : p \in EqualUpdates => seen[r][p] \in Kept(u, p)
    <3> SUFFICES ASSUME NEW u \in Roots, NEW p \in EqualUpdates
                 PROVE  seen[r][p] \in Kept(u, p)
      OBVIOUS
    <3>1. seen[r][p] = seen[u][p] /\ seen[u][p] # Unset
      BY <1>6 DEF EqualUpdates, Roots, MarkEqual, Inv, Directed
    <3> QED BY <1>0, <3>1 DEF Kept, EqualUpdates
  <2>4. \A v \in Roots, p \in Paths, u \in Roots : mem'[u][p] \in Kept(v, p)
    BY <1>0, <2>2, <2>3
  <2> QED BY <1>0, <1>6, <2>4, QuietRecords DEF MarkEqual
<1>7. ASSUME NEW r \in Roots, Prepare(r) PROVE Recorded'
  <2>1. \A u \in Roots : scratch'[u] \in {scratch[u], mem[u]}
    BY <1>0, <1>7 DEF Prepare, TypeOK
  <2>2. \A v \in Roots, p \in Paths, u \in Roots : scratch'[u][p] \in Kept(v, p)
    BY <1>0, <2>1
  <2> QED BY <1>0, <1>7, <2>2, QuietRecords DEF Prepare
<1>8. ASSUME NEW r \in Roots, NEW p \in Paths, FindUpdate(r, p) PROVE Recorded'
  <2>1. \A u \in Roots, q \in Paths : seen'[u][q] \in {seen[u][q], disk[u][q]}
    BY <1>0, <1>8 DEF FindUpdate, TypeOK
  <2>2. \A u \in Roots, q \in Paths : seen'[u][q] \in had[u][q] \cup {Unset}
    BY <1>0, <2>1 DEF Recorded
  <2>3. \A q \in Paths : step'[q] \notin Placed
    BY <1>8 DEF FindUpdate, Inv, Directed, Ended, Placed
  <2> QED BY <1>0, <1>8, <2>2, <2>3, QuietRecords DEF FindUpdate
<1> QED BY <1>1, <1>2, <1>3, <1>4, <1>5, <1>6, <1>7, <1>8

LEMMA OthersRecord ==
  ASSUME Inv, Recorded, NEW r \in Roots,
         RemoveLog(r) \/ \E p \in Paths : Edit(r, p)
  PROVE  Recorded'
<1>1. UNCHANGED <<kept, stored, mem, scratch, seen, plan, step>>
  BY DEF RemoveLog, Edit, choices, items
<1>2. TypeOK /\ DiskHad  BY DEF Inv, Recorded, DiskHad
<1>3. Grows /\ DiskHad'
  <2>1. CASE UNCHANGED <<disk, had>>
    BY <1>1, <1>2, <2>1 DEF Grows, DiskHad, Kept
  <2>2. CASE \E p \in Paths, c \in Contents : Put(r, p, c)
    BY <1>1, <1>2, <2>2, PutGrows
  <2>3. CASE RemoveLog(r)
    <3>1. log[r] \in Paths /\ aside[r][log[r]] \in Contents
      BY <1>2, <2>3 DEF RemoveLog, TypeOK
    <3> QED BY <2>1, <2>2, <2>3, <3>1 DEF RemoveLog
  <2>4. CASE \E p \in Paths : Edit(r, p)  BY <2>2, <2>4 DEF Edit
  <2> QED BY <2>3, <2>4
<1>4. \A p \in Paths : (step[p] \in Placed => Wanted(p) \in Kept(Target(p), p))'
  <2> SUFFICES ASSUME NEW p \in Paths, step'[p] \in Placed
               PROVE  (Wanted(p) \in Kept(Target(p), p))'
    OBVIOUS
  <2>1. step[p] \in Placed /\ step[p] \notin Ended  BY <1>1 DEF Placed, Ended
  <2>2. phase \in {"transport", "save"}  BY <2>1 DEF Inv, Directed
  <2>3. Target(p) \in Roots  BY <2>1, <2>2, ItemFacts
  <2>4. Wanted(p) \in Kept(Target(p), p)  BY <2>1 DEF Recorded
  <2> QED BY <1>1, <1>3, <2>3, <2>4, PlanKept DEF Grows, Kept
<1> QED BY <1>1, <1>3, <1>4 DEF Recorded, Grows, DiskHad

LEMMA InitRecords == Init => Recorded
  BY DEF Init, Recorded, Kept, Both, Each, Placed

LEMMA NextRecords == Inv /\ Recorded /\ [Next]_vars => Recorded'
<1> SUFFICES ASSUME Inv, Recorded, [Next]_vars PROVE Recorded'  OBVIOUS
<1>1. CASE RunStep  BY <1>1, ItemRecords, RunRecords DEF RunStep, Proceed
<1>2. CASE Stop \/ Kill  BY <1>2, RunRecords
<1>3. CASE \/ \E r \in Roots : RemoveLog(r)
           \/ \E r \in Roots, p \in Paths : Edit(r, p)
  BY <1>3, OthersRecord
<1>4. CASE UNCHANGED vars
  BY <1>4, QuietRecords DEF Recorded, vars, files, choices
<1> QED BY <1>1, <1>2, <1>3, <1>4 DEF Next

(* The archive on disk never says of a path what one of the replicas has   *)
(* not had there or in a conflict copy of it: items, equal updates and the *)
(* commit only record what update detection saw and transport put in place *)
(* (replaceArchiveLocal, updateSourceArchive, markEqual).                  *)
THEOREM ArchiveKnowsReplicas == Spec => []ArchiveKnown
<1>1. Recorded => ArchiveKnown  BY DEF Recorded, ArchiveKnown, Kept
<1> QED BY <1>1, InitRecords, NextRecords, Invariant, PTL DEF Spec

-----------------------------------------------------------------------------
(* Nothing is lost.                                                        *)

(* The target is still what was reconciled, and a copy of it was kept if   *)
(* it is to be replaced against the default action.                        *)
Checked(p) ==
  LET old == disk[Target(p)][p] IN
  /\ old = seen[Target(p)][p]
  /\ told[p] /\ copies /\ old # Absent => old \in kept[Target(p)][p]

(* Unless another program has changed it since the item was prepared.      *)
GuardedAt(p) ==
  /\ step[p] \notin Ended /\ ~told[p] => seen[Target(p)][p] = stored[p]
  /\ ~touched[p] =>
       /\ step[p] = "check" /\ told[p] /\ copies => spare[p] = disk[Target(p)][p]
       /\ step[p] \in {"rename", "aside", "remove"} => Checked(p)
       /\ step[p] = "in" => disk[Target(p)][p] = Absent
Guarded == \A p \in Paths : GuardedAt(p)

LEMMA ItemLeavesOthers ==
  ASSUME Inv, NEW p \in Paths, ItemStep(p)
  PROVE  \A q \in Paths \ {p} :
           /\ touched'[q] = touched[q] /\ spare'[q] = spare[q]
           /\ \A r \in Roots : disk'[r][q] = disk[r][q]
<1>0. TypeOK /\ Target(p) \in Roots /\ Wanted(p) \in Contents
  BY ItemMoves, ItemFacts DEF Inv
<1>1. /\ touched' = touched \/ touched' = [touched EXCEPT ![p] = FALSE]
      /\ spare' = spare \/ \E c : spare' = [spare EXCEPT ![p] = c]
  BY DEF ItemStep, BeginItem, Copy, Verify, PrepareCopy, CheckTarget, Divert, Rename,
         WriteLog, MoveAside, MoveIn, ClearLog, Cleanup, Remove, ReplaceArchive,
         UpdateSource, FailItem, EndItem
<1>2. \A q \in Paths \ {p}, r \in Roots : disk'[r][q] = disk[r][q]
  BY <1>0, ItemPuts, PutDoes, ContentsFacts
<1> QED BY <1>0, <1>1, <1>2 DEF TypeOK

LEMMA ItemGuards ==
  ASSUME Inv, Recorded, Guarded, NEW p \in Paths, ItemStep(p)
  PROVE  Guarded'
<1>0. TypeOK /\ VerifiedAt(p) /\ GuardedAt(p)  BY DEF Inv, Verified, Guarded
<1>1. /\ UNCHANGED <<stored, copies, seen, plan, told>> /\ step[p] \notin Ended
      /\ phase \in {"transport", "save"} /\ \A q \in Paths \ {p} : step'[q] = step[q]
  BY ItemMoves DEF run, choices
<1>2. /\ Target(p) \in Roots /\ Target(p)' = Target(p) /\ Wanted(p) \in Contents
      /\ seen[Target(p)][p] \in Contents /\ disk[Target(p)][p] \in Contents
  BY <1>0, <1>1, ItemFacts, PlanKept DEF TypeOK
<1>3. ASSUME NEW q \in Paths, q # p PROVE GuardedAt(q)'
  <2>1. /\ GuardedAt(q) /\ Target(q)' = Target(q) /\ step'[q] = step[q]
        /\ touched'[q] = touched[q] /\ spare'[q] = spare[q]
        /\ \A r \in Roots : disk'[r][q] = disk[r][q]
    BY <1>1, <1>3, PlanKept, ItemLeavesOthers DEF Guarded
  <2>2. CASE step[q] \in Ended  BY <2>1, <2>2 DEF GuardedAt, Ended
  <2>3. CASE step[q] \notin Ended
    <3>1. Target(q) \in Roots  BY <1>1, <2>3, ItemFacts
    <3>2. kept[Target(q)][q] \subseteq kept'[Target(q)][q]
      <4>1. \/ UNCHANGED kept
            \/ \E c \in Contents : Keep(Target(p), p, c)
        <5>1. CASE Divert(p)
          BY <1>0, <1>2, <5>1 DEF Divert, Works, VerifiedAt, Placing
        <5>2. CASE CheckTarget(p)  BY <1>0, <5>2 DEF CheckTarget, TypeOK
        <5>3. CASE ~(Divert(p) \/ CheckTarget(p))
          BY <5>3 DEF ItemStep, BeginItem, Copy, Verify, PrepareCopy, Rename, WriteLog,
             MoveAside, MoveIn, ClearLog, Cleanup, Remove, ReplaceArchive, UpdateSource,
             FailItem, files
        <5> QED BY <5>1, <5>2, <5>3
      <4> QED BY <1>0, <1>2, <3>1, <4>1, KeepDoes
    <3> QED BY <1>1, <2>1, <3>1, <3>2 DEF GuardedAt, Checked
  <2> QED BY <2>2, <2>3
<1>4. GuardedAt(p)'
  <2>0. step'[p] \notin Ended /\ ~told'[p] => (seen[Target(p)][p] = stored[p])'
    BY <1>0, <1>1, <1>2 DEF GuardedAt
  <2> USE <1>0, <1>1, <1>2, <2>0 DEF GuardedAt, Continue, Steps
  <2>1. CASE PrepareCopy(p)
    <3>1. /\ step'[p] = "check" /\ disk' = disk
          /\ told[p] /\ copies => spare'[p] = disk[Target(p)][p]
      BY <2>1, ItemStepAt DEF PrepareCopy, files, TypeOK
    <3> QED BY <3>1
  <2>2. CASE CheckTarget(p)
    <3>1. /\ step[p] = "check" /\ step'[p] \in {"remove", "divert", "rename"}
          /\ UNCHANGED <<disk, touched>> /\ disk[Target(p)][p] = seen[Target(p)][p]
      BY <2>2, ItemStepAt DEF CheckTarget, Works
    <3>2. ASSUME ~touched[p], told[p], copies, disk[Target(p)][p] # Absent
          PROVE  disk[Target(p)][p] \in kept'[Target(p)][p]
      <4>1. spare[p] = disk[Target(p)][p]  BY <3>1, <3>2
      <4>2. Keep(Target(p), p, disk[Target(p)][p])
        BY <2>2, <3>2, <4>1, ContentsFacts DEF CheckTarget
      <4> QED BY <4>2, KeepDoes
    <3>3. ~touched[p] => Checked(p)'  BY <3>1, <3>2 DEF Checked
    <3> QED BY <3>1, <3>3
  <2>3. CASE WriteLog(p)
    <3>1. /\ step[p] = "rename" /\ step'[p] = "aside"
          /\ UNCHANGED <<disk, touched, kept>>
      BY <2>3, ItemStepAt DEF WriteLog, Works
    <3> QED BY <3>1 DEF Checked
  <2>4. CASE MoveAside(p)
    <3>1. step'[p] = "in" /\ Put(Target(p), p, Absent)
      BY <2>4, ItemStepAt DEF MoveAside
    <3>2. disk'[Target(p)][p] = Absent  BY <3>1, PutDoes, ContentsFacts
    <3> QED BY <3>1, <3>2
  <2>5. CASE ~(PrepareCopy(p) \/ CheckTarget(p) \/ WriteLog(p) \/ MoveAside(p))
    <3>1. step'[p] \notin {"check", "rename", "aside", "remove", "in"}
      <4>1. CASE BeginItem(p) \/ Copy(p) \/ Verify(p) \/ Divert(p) \/ Rename(p) \/ MoveIn(p)
        BY <4>1, ItemStepAt DEF BeginItem, Copy, Verify, Divert, Rename, MoveIn
      <4>2. CASE ClearLog(p) \/ Cleanup(p) \/ Remove(p) \/ ReplaceArchive(p)
        BY <4>2, ItemStepAt DEF ClearLog, Cleanup, Remove, ReplaceArchive
      <4>3. CASE UpdateSource(p) \/ FailItem(p)
        BY <4>3, ItemStepAt DEF UpdateSource, FailItem, EndItem
      <4> QED BY <2>5, <4>1, <4>2, <4>3 DEF ItemStep
    <3> QED BY <3>1
  <2> QED BY <2>1, <2>2, <2>3, <2>4, <2>5
<1> QED BY <1>3, <1>4 DEF Guarded

LEMMA QuietGuards ==
  ASSUME Guarded,
         \/ \A p \in Paths : step'[p] \in Ended
         \/ UNCHANGED <<disk, kept, seen, plan, told, stored, copies, step, spare, touched>>
  PROVE  Guarded'
<1>1. CASE \A p \in Paths : step'[p] \in Ended
  BY <1>1 DEF Guarded, GuardedAt, Ended
<1>2. CASE UNCHANGED <<disk, kept, seen, plan, told, stored, copies, step, spare, touched>>
  BY <1>2, PlanKept DEF Guarded, GuardedAt, Checked
<1> QED BY <1>1, <1>2

LEMMA EditGuards ==
  ASSUME Inv, Guarded, NEW r \in Roots, NEW p \in Paths, Edit(r, p)
  PROVE  Guarded'
<1> SUFFICES ASSUME NEW q \in Paths PROVE GuardedAt(q)'
  BY DEF Guarded
<1>0. TypeOK /\ GuardedAt(q)  BY DEF Inv, Guarded
<1>1. /\ UNCHANGED <<kept, seen, plan, told, stored, copies, step, spare>>
      /\ Target(q)' = Target(q)
  BY PlanKept DEF Edit, choices, items
<1>2. /\ q # p => touched'[q] = touched[q]
      /\ touched[q] => touched'[q]
      /\ q = p /\ step[q] \in Handler /\ Target(q) = r => touched'[q]
  BY <1>0 DEF Edit, TypeOK
<1>3. \A u \in Roots : u # r \/ q # p => disk'[u][q] = disk[u][q]
  BY <1>0, PutDoes DEF Edit
<1>4. CASE step[q] \in Ended  BY <1>1, <1>4 DEF GuardedAt, Ended
<1>5. CASE step[q] \notin Ended
  <2>1. phase \in {"transport", "save"}  BY <1>5 DEF Inv, Directed
  <2>2. Target(q) \in Roots  BY <1>5, <2>1, ItemFacts
  <2>3. CASE q = p /\ Target(q) = r
    BY <1>0, <1>1, <1>2, <2>3 DEF GuardedAt, Handler
  <2>4. CASE ~(q = p /\ Target(q) = r)
    <3>1. disk'[Target(q)][q] = disk[Target(q)][q]  BY <1>3, <2>2, <2>4
    <3> QED BY <1>0, <1>1, <1>2, <3>1 DEF GuardedAt, Checked
  <2> QED BY <2>3, <2>4
<1> QED BY <1>4, <1>5

(* The default action never replaces a root that was changed.              *)
LEMMA ChooseGuards ==
  ASSUME Inv, Choose
  PROVE  Guarded'
<1> SUFFICES ASSUME NEW p \in Paths PROVE GuardedAt(p)'
  BY DEF Guarded
<1>1. /\ UNCHANGED <<seen, stored>> /\ plan'[p] \in {0} \cup Roots
      /\ told'[p] = (plan'[p] # Default(p))
      /\ step'[p] = IF plan'[p] = 0 THEN "done" ELSE "start"
  BY DEF Choose
<1>2. ASSUME plan'[p] # 0, ~told'[p] PROVE seen[Other(plan'[p])][p] = stored[p]
  <2>1. plan'[p] = Default(p) /\ plan'[p] \in {1, 2}  BY <1>1, <1>2 DEF Roots
  <2>2. CASE Default(p) = 1
    <3>1. ~Updated(2, p)  BY <2>2 DEF Default
    <3> QED BY <2>1, <2>2, <3>1 DEF Updated, Other
  <2>3. CASE Default(p) = 2
    <3>1. ~Updated(1, p)  BY <2>3 DEF Default
    <3> QED BY <2>1, <2>3, <3>1 DEF Updated, Other
  <2> QED BY <2>1, <2>2, <2>3
<1> QED BY <1>1, <1>2 DEF GuardedAt, Ended, Target

LEMMA NextGuards == Inv /\ Recorded /\ Guarded /\ [Next]_vars => Guarded'
<1> SUFFICES ASSUME Inv, Recorded, Guarded, [Next]_vars PROVE Guarded'  OBVIOUS
<1> USE DEF files, choices, items
<1>1. CASE \E p \in Paths : ItemStep(p)  BY <1>1, ItemGuards
<1>2. CASE Choose  BY <1>2, ChooseGuards
<1>3. CASE EndRun
  <2>1. \A p \in Paths : step'[p] = "done"  BY <1>3 DEF EndRun, Each
  <2> QED BY <2>1, QuietGuards DEF Ended
<1>4. CASE Store /\ ~EndRun
  <2>1. \A p \in Paths : step'[p] \in Ended
    BY <1>4 DEF Store, Inv, Directed
  <2> QED BY <2>1, QuietGuards
<1>5. CASE Launch \/ Reconcile \/ Finish \/ Stop
  BY <1>5, QuietGuards DEF Launch, Reconcile, Finish, Stop
<1>6. CASE \E r \in Roots : MarkEqual(r) \/ Prepare(r)
  BY <1>6, QuietGuards DEF MarkEqual, Prepare
<1>7. CASE \/ \E r \in Roots, p \in Paths : FindUpdate(r, p)
           \/ \E r \in Roots : RemoveLog(r)
  <2>1. \A p \in Paths : step'[p] \in Ended
    BY <1>7 DEF FindUpdate, RemoveLog, Inv, Directed
  <2> QED BY <2>1, QuietGuards
<1>8. CASE \E r \in Roots, p \in Paths : Edit(r, p)  BY <1>8, EditGuards
<1>9. CASE UNCHANGED vars  BY <1>9, QuietGuards DEF vars
<1> QED BY <1>1, <1>2, <1>3, <1>4, <1>5, <1>6, <1>7, <1>8, <1>9
        DEF Next, RunStep, Proceed, Fatal, Kill

LEMMA InitGuards == Init => Guarded
  BY DEF Init, Each, Guarded, GuardedAt, Ended

Step_NoLoss ==
  \A r \in Roots, p \in Paths :
    Replaces(r, p) /\ disk[r][p] # Absent =>
      \/ touched[p]
      \/ disk[r][p] \in had[Other(r)][p] \cup kept[1][p] \cup kept[2][p]
      \/ told[p] /\ ~copies /\ disk[r][p] = seen[r][p]

LEMMA NextNoLoss == Inv /\ Recorded /\ Guarded /\ [Next]_vars => Step_NoLoss
<1> SUFFICES ASSUME Inv, Recorded, Guarded, [Next]_vars, NEW r \in Roots,
                    NEW q \in Paths, Replaces(r, q), disk[r][q] # Absent, ~touched[q]
             PROVE  \/ disk[r][q] \in had[Other(r)][q] \cup kept[1][q] \cup kept[2][q]
                    \/ told[q] /\ ~copies /\ disk[r][q] = seen[r][q]
  BY DEF Step_NoLoss
<1>0. /\ phase \in {"transport", "save"} /\ edits' = edits
      /\ disk'[r][q] # disk[r][q] /\ TypeOK
  BY DEF Replaces, Unison, Inv
<1>1. PICK p \in Paths : ItemStep(p)
  <2>1. CASE RunStep
    BY <1>0, <2>1 DEF RunStep, Proceed, Launch, Reconcile, Choose, Finish, Store, Fatal,
       EndRun, MarkEqual, Prepare, FindUpdate, files
  <2>2. CASE Stop \/ Kill  BY <1>0, <2>2 DEF Stop, Kill, EndRun, files
  <2>3. CASE \E u \in Roots : RemoveLog(u)  BY <1>0, <2>3 DEF RemoveLog
  <2>4. CASE \E u \in Roots, p \in Paths : Edit(u, p)
    BY <1>0, <2>4 DEF Edit, TypeOK
  <2>5. CASE UNCHANGED vars  BY <1>0, <2>5 DEF vars, files
  <2> QED BY <2>1, <2>2, <2>3, <2>4, <2>5 DEF Next
<1>2. Target(p) \in Roots /\ Wanted(p) \in Contents /\ step[p] \notin Ended
  BY <1>1, ItemMoves, ItemFacts
<1>3. q = p /\ r = Target(p) /\ step[p] \in {"rename", "aside", "in", "remove"}
  BY <1>0, <1>1, <1>2, ItemPuts, PutDoes, ContentsFacts
<1>4. GuardedAt(p)  BY DEF Guarded
<1>5. Checked(p)  BY <1>3, <1>4 DEF GuardedAt
<1>6. CASE told[p]  BY <1>3, <1>5, <1>6 DEF Checked, Roots
<1>7. CASE ~told[p]
  <2>1. disk[r][p] = stored[p]  BY <1>2, <1>3, <1>4, <1>5, <1>7 DEF GuardedAt, Checked
  <2>2. Other(r) \in Roots  BY OtherRoot
  <2>3. stored[p] \in had[Other(r)][p] \cup kept[Other(r)][p]
    BY <2>2 DEF Recorded, Kept
  <2> QED BY <1>3, <2>1, <2>2, <2>3 DEF Roots
<1> QED BY <1>6, <1>7

(* Unison never destroys the only copy of something: what it replaces is   *)
(* in the other replica's history or in a conflict copy, or the user saw   *)
(* it and chose against it; only a change made between the preparation of  *)
(* the target and its replacement can be lost (renameLocal, deleteLocal).  *)
THEOREM NothingIsLost == Spec => NoLoss
<1>1. Inv /\ Recorded /\ Guarded /\ [Next]_vars => [Step_NoLoss]_vars
  BY NextNoLoss
<1> QED BY <1>1, InitGuards, NextGuards, InitRecords, NextRecords, Invariant, PTL
        DEF Spec, NoLoss, Step_NoLoss
=============================================================================
