---------------------------- MODULE ArchiveStore ----------------------------
(***************************************************************************)
(* What the archive files of one pair of roots promise as a whole: there   *)
(* is one stored synchronizer state, and it is only ever replaced, in one  *)
(* step, by the state of a later commit.  This is the guarantee of the     *)
(* manual (section "Invariants"): at every moment the information stored   *)
(* on disk about Unison's private state is either unchanged, or updated.   *)
(***************************************************************************)
EXTENDS Integers

CONSTANTS Contents,   \* what an archive can say about a replica
          NoArchive   \* the content of an archive that was never written

VARIABLE stored       \* the state the next run will start from

Empty == [magic |-> 0, arc |-> NoArchive]

Init == stored = Empty

(* Commits are numbered in the order in which they begin: the code's magic *)
(* string holds the time of the commit and the process that made it.       *)
Commit == /\ stored' \in [magic : Nat, arc : Contents \cup {NoArchive}]
          /\ stored'.magic > stored.magic

Spec == Init /\ [][Commit]_stored
=============================================================================
