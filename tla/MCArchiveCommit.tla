-------------------------- MODULE MCArchiveCommit --------------------------
(* Instances of ArchiveCommit for TLC.  The contents of archives and the   *)
(* clients are interchangeable, so safety runs may identify them.          *)
EXTENDS ArchiveCommit, TLC

Symmetry == Permutations(Contents) \cup Permutations(Sessions)

(* What is left of a session whose processes have all ended is read by     *)
(* nobody: the next start of it begins anew, except for what a process     *)
(* that persists has in memory.                                            *)
OfSession(s) ==
  <<up[s], mem[s], info[s], half[s],
    IF up[s] = {} THEN <<>>
    ELSE <<conn[s], ignore[s], phase[s], goal[s], todo[s], error[s], undo[s],
           refused[s], got[s], seen[s], magic[s]>> >>

WithoutEnded == <<disk, clock, [s \in Sessions |-> OfSession(s)]>>

(* The roots have been synchronized before: what a first commit leaves,    *)
(* and no process yet.                                                     *)
Synchronized ==
  /\ \E c \in Contents : main = [h \in Hosts |-> [magic |-> 1, arc |-> c]]
  /\ clock = 1
  /\ new = [h \in Hosts |-> Blank] /\ scratch = [h \in Hosts |-> Blank]
  /\ lock = [h \in Hosts |-> Nobody]
  /\ up = [s \in Sessions |-> {}] /\ conn = [s \in Sessions |-> FALSE]
  /\ ignore = [s \in Sessions |-> FALSE]
  /\ mem = [s \in Sessions |-> [h \in Hosts |-> Unset]]
  /\ info = [s \in Sessions |-> [h \in Hosts |-> Blank]]
  /\ phase = [s \in Sessions |-> "idle"] /\ goal = [s \in Sessions |-> "load"]
  /\ todo = [s \in Sessions |-> {}] /\ half = [s \in Sessions |-> {}]
  /\ error = [s \in Sessions |-> "none"] /\ undo = [s \in Sessions |-> {}]
  /\ refused = [s \in Sessions |-> {}]
  /\ got = [s \in Sessions |-> [h \in Hosts |-> Blank]]
  /\ seen = [s \in Sessions |-> [main |-> {}, new |-> {}]]
  /\ magic = [s \in Sessions |-> 0]

SynchronizedSpec == Synchronized /\ [][Next]_vars
=============================================================================
