----------------------------- MODULE FileWatch -----------------------------
(***************************************************************************)
(* The program that watches a replica for Unison                           *)
(* (fsmonitor/watchercommon.ml), and its client (fswatch.ml, update.ml),   *)
(* for one directory, the root of the replica.  The client has the         *)
(* directory watched, looks at its files, and then waits for the program   *)
(* to tell it which of them have changed.  How the system tells the        *)
(* program of changes is in the modules Inotify and EventPorts; they, and  *)
(* Watchers, which puts them together, complete the actions of this module.*)
(***************************************************************************)
EXTENDS Integers, FiniteSets, SequencesExt

CONSTANTS
  Names,     \* files of the directory
  Root,      \* the directory itself
  Backends,  \* "linux", "solaris"
  Follow,    \* is the path of the directory a symbolic link to follow?
  Times,     \* bound: how often other programs change each file, per backend
  MaxResets  \* bound: scans from scratch

ASSUME WatchAssumption ==
  /\ IsFiniteSet(Names) /\ Root \notin Names /\ "none" \notin Names \cup {Root}
  /\ Backends \subseteq {"linux", "solaris"} /\ Times \in [Backends -> [Names -> Nat]]
  /\ Follow \in BOOLEAN /\ MaxResets \in Nat

VARIABLES
  backend,
  fs,       \* the files there are
  seen,     \* what the client has seen of each: absent, present; or stale
  changes,  \* how often each has changed
  rec,      \* what the program has recorded
  client,   \* what the client does next
  start,    \* the path of its last START until DONE
  todo,     \* paths it has been told of and has not looked at
  looking,  \* files it still has to look at during this scan
  resets

fsvars == <<backend, fs, seen, changes>>
clientvars == <<client, start, todo, looking, resets>>
watchvars == <<fsvars, rec, clientvars>>

(* changed_children (a status per file; old: recorded longer than the      *)
(* delay ago), changed, waiting_for_changes, active_wait                   *)
NoRecord == [children |-> [n \in Names |-> "none"], old |-> {}, changed |-> FALSE,
             waiting |-> FALSE, active |-> FALSE]

WatchTypeOK ==
  /\ backend \in Backends
  /\ fs \subseteq Names
  /\ seen \in [Names -> {"absent", "present", "stale"}]
  /\ changes \in [Names -> Nat] /\ \A n \in Names : changes[n] <= Times[backend][n]
  /\ rec \in [children : [Names -> {"none", "created", "modified"}], old : SUBSET Names,
              changed : BOOLEAN, waiting : BOOLEAN, active : BOOLEAN]
  /\ \A n \in rec.old : rec.children[n] # "none"
  /\ client \in {"scan", "link", "dir", "look", "scanned", "idle",
                "wait", "ask"}
  /\ start \in Names \cup {Root, "none"}
  /\ todo \subseteq Names \cup {Root} /\ looking \subseteq Names
  /\ resets \in 0 .. MaxResets

WatchInit ==
  /\ backend \in Backends
  /\ fs \in SUBSET Names
  /\ seen = [n \in Names |-> "stale"]
  /\ changes = [n \in Names |-> 0]
  /\ rec = NoRecord
  /\ client = "scan" /\ start = "none" /\ todo = {Root} /\ looking = {}
  /\ resets = 0

Actual(n) == IF n \in fs THEN "present" ELSE "absent"

(* Other programs                                                          *)
Change(n, op) ==
  /\ changes[n] < Times[backend][n]
  /\ (op = "create") = (n \notin fs)
  /\ changes' = [changes EXCEPT ![n] = @ + 1]
  /\ fs' = CASE op = "create" -> fs \cup {n} [] op = "delete" -> fs \ {n} [] OTHER -> fs
  /\ seen' = IF op # "delete" /\ seen[n] = "present"
             THEN [seen EXCEPT ![n] = "stale"] ELSE seen
  /\ UNCHANGED <<backend, rec, clientvars>>

-----------------------------------------------------------------------------
(* Recording changes.                                                      *)

Recorded(r) == {n \in Names : r.children[n] # "none"}

(* replicas_with_changes *)
Ready(r) == r.changed \/ r.old # {}

(* signal_impending_changes: unless a thread sleeps already, one will look *)
(* at the changes after the delay.                                         *)
SignalImpending(r) == [r EXCEPT !.active = @ \/ r.waiting]

(* signal_change.  A file that was created since, and is deleted, is       *)
(* forgotten, unless it has an entry of its own.                           *)
SignalChange(r, n, kind) ==
  IF n = Root THEN SignalImpending([r EXCEPT !.changed = TRUE])
  ELSE IF r.children[n] = "created" /\ kind = "delete" /\ start # n
  THEN [r EXCEPT !.children[n] = "none", !.old = @ \ {n}]
  ELSE SignalImpending([r EXCEPT !.old = @ \ {n}, !.children[n] =
         IF @ # "none" THEN @
         ELSE IF kind = "create" /\ start # Root THEN "created" ELSE "modified"])

(* signal_overflow answers a client that waits.                            *)
SignalOverflow(r) == [r EXCEPT !.changed = TRUE, !.waiting = FALSE]

(* The delay passes for a change.                                          *)
Age(n) ==
  /\ n \in Recorded(rec) \ rec.old
  /\ rec' = [rec EXCEPT !.old = @ \cup {n}]
  /\ UNCHANGED <<fsvars, clientvars>>

(* Mutant: the thread does not go back to sleep. *)
WaitForChangesOnce(r) == [r EXCEPT !.waiting = ~Ready(r)]

(* wait_for_changes, when a client waits: it is answered, or a thread      *)
(* sleeps if something has been recorded.                                  *)
WaitForChanges(r) ==
  [r EXCEPT !.waiting = ~Ready(r), !.active = @ \/ (~Ready(r) /\ Recorded(r) # {})]

SleepOver ==
  /\ rec.active
  /\ rec' = LET r == [rec EXCEPT !.active = FALSE] IN
            IF rec.waiting THEN WaitForChanges(r) ELSE r
  /\ UNCHANGED <<fsvars, clientvars>>

ClearFileChanges(r) ==
  [r EXCEPT !.children = NoRecord.children, !.old = {}, !.changed = FALSE]

-----------------------------------------------------------------------------
(* The client.  Its commands but WAIT cancel a wait.                       *)

Cancelled(r) == [r EXCEPT !.waiting = FALSE]

(* START for the directory, LINK and DIR: what was recorded is forgotten   *)
(* and the directory is watched before the client is answered.  For a link *)
(* to follow, Fileinfo sends LINK, and then the scan of the directory DIR. *)
(* After the files have been looked at, LINK comes again if the directory  *)
(* is checked once more: not for a new one, nor where a file was created   *)
(* or deleted (directoryCheckContentUnchanged).                            *)
WatchDirectory ==
  /\ \/ /\ client = "scan" /\ Root \in todo
        /\ client' = IF Follow THEN "link" ELSE "dir"
        /\ start' = Root
        /\ UNCHANGED <<todo, looking>>
     \/ client = "link" /\ client' = "dir" /\ UNCHANGED <<start, todo, looking>>
     \/ /\ client = "dir"
        /\ client' = "look" /\ todo' = {} /\ looking' = Names
        /\ UNCHANGED start
     \/ /\ client = "look" /\ looking = {} /\ Follow /\ start = Root
        /\ client' = "scanned" /\ UNCHANGED <<start, todo, looking>>
  /\ rec' = Cancelled(ClearFileChanges(rec))
  /\ UNCHANGED <<fsvars, resets>>

(* START for a single file, which is not watched itself                    *)
StartFile(n) ==
  /\ client = "scan" /\ Root \notin todo /\ n \in todo
  /\ client' = "look" /\ start' = n /\ todo' = todo \ {n} /\ looking' = {n}
  /\ rec' = Cancelled(rec)
  /\ UNCHANGED <<fsvars, resets>>

Look(n) ==
  /\ client = "look" /\ n \in looking
  /\ seen' = [seen EXCEPT ![n] = Actual(n)]
  /\ looking' = looking \ {n}
  /\ UNCHANGED <<backend, fs, changes, rec, client, start, todo, resets>>

(* DONE: current_gen is incremented.                                       *)
Done ==
  /\ client \in {"look", "scanned"} /\ looking = {}
  /\ client' = IF todo = {} THEN "idle" ELSE "scan"
  /\ start' = "none"
  /\ UNCHANGED <<fsvars, rec, todo, looking, resets>>

(* WAIT *)
Wait ==
  /\ client = "idle" /\ client' = "wait"
  /\ rec' = WaitForChanges(rec)
  /\ UNCHANGED <<fsvars, start, todo, looking, resets>>

Answered == client = "wait" /\ ~rec.waiting

(* The answer to WAIT has arrived, or the client goes on without it.       *)
Ask ==
  /\ client \in {"idle", "wait"} /\ client' = "ask"
  /\ UNCHANGED <<fsvars, rec, start, todo, looking, resets>>

(* Mutant: all changes are forgotten, not only those reported. *)
GetChangesForgets ==
  /\ client = "ask"
  /\ todo' = rec.old \cup (IF rec.changed THEN {Root} ELSE {})
  /\ client' = IF Ready(rec) THEN "scan" ELSE "idle"
  /\ rec' = Cancelled(ClearFileChanges(rec))
  /\ UNCHANGED <<fsvars, start, looking, resets>>

(* CHANGES (output_changes): what was recorded longer than the delay ago   *)
(* is reported and forgotten.                                              *)
GetChanges ==
  /\ client = "ask"
  /\ todo' = rec.old \cup (IF rec.changed THEN {Root} ELSE {})
  /\ client' = IF Ready(rec) THEN "scan" ELSE "idle"
  /\ rec' = Cancelled([rec EXCEPT !.old = {}, !.changed = FALSE,
       !.children = [n \in Names |-> IF n \in rec.old THEN "none" ELSE @[n]]])
  /\ UNCHANGED <<fsvars, start, looking, resets>>

(* RESET: the directory is forgotten, to be scanned from scratch.          *)
Reset ==
  /\ client \in {"idle", "wait"} /\ resets < MaxResets
  /\ client' = "scan" /\ todo' = {Root} /\ resets' = resets + 1
  /\ rec' = Cancelled(ClearFileChanges(rec))
  /\ UNCHANGED <<fsvars, start, looking>>

=============================================================================
