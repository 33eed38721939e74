----------------------------- MODULE MCWatchers -----------------------------
(* Instances of Watchers for TLC.                                          *)
EXTENDS Watchers

CONSTANTS x, y

(* One file changes twice, and the other once.                             *)
TimesEach == [b \in Backends |-> [n \in Names |-> IF n = x THEN 2 ELSE 1]]

=============================================================================
