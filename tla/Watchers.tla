------------------------------ MODULE Watchers ------------------------------
(***************************************************************************)
(* The program that watches a replica, on Linux or on Solaris, and its     *)
(* client.                                                                 *)
(***************************************************************************)
EXTENDS Inotify, EventPorts

vars == <<watchvars, inotifyvars, fenvars>>

Linux == backend = "linux"

Init == WatchInit /\ InotifyInit /\ FenInit

ProgramChanges ==
  \E n \in Names, op \in {"create", "delete", "modify"} :
    /\ Change(n, op)
    /\ IF Linux THEN InotifyChange(n, op) /\ UNCHANGED fenvars
       ELSE FenChange(n, op) /\ UNCHANGED inotifyvars

(* START and DIR do not follow a link, LINK does.                          *)
ClientWatches ==
  /\ WatchDirectory
  /\ LET link == client \in {"link", "look"} IN
     IF Linux THEN InotifyAddWatch(link) /\ UNCHANGED fenvars
     ELSE FenAddWatch(link) /\ UNCHANGED inotifyvars

ClientResets ==
  /\ Reset
  /\ IF Linux THEN InotifyReset /\ UNCHANGED fenvars
     ELSE FenReset /\ UNCHANGED inotifyvars

(* gather_changes calls clear_event_memory, which is of use to Linux.      *)
ClientGetsChanges ==
  /\ GetChanges
  /\ previous' = NoEvent
  /\ UNCHANGED <<wd, nextWd, inodes, queue, missed, fenvars>>

ClientScans ==
  /\ \E n \in Names : StartFile(n) \/ Look(n)
  /\ UNCHANGED <<inotifyvars, fenvars>>

ClientGoesOn == (Done \/ Wait \/ Ask) /\ UNCHANGED <<inotifyvars, fenvars>>

TimePasses == (SleepOver \/ \E n \in Names : Age(n)) /\ UNCHANGED <<inotifyvars, fenvars>>

ReadEvents ==
  \/ Linux /\ ReadInotify /\ UNCHANGED fenvars
  \/ ~Linux /\ (StartFetch \/ FetchPort \/ ProcessEvents) /\ UNCHANGED inotifyvars

Next ==
  \/ ProgramChanges
  \/ ClientWatches \/ ClientResets \/ ClientGetsChanges \/ ClientScans \/ ClientGoesOn
  \/ TimePasses \/ ReadEvents

Spec == Init /\ [][Next]_vars

(* The program reads the events there are, and its delays end; the client  *)
(* ends its scans, waits, and asks when it has been answered.  The steps   *)
(* are named by the part of them that tells when they are possible.        *)
Fairness ==
  /\ WF_queue(ReadInotify) /\ WF_toFetch(Fetches) /\ WF_batch(Processes)
  /\ WF_rec(SleepOver) /\ \A n \in Names : WF_rec(Age(n))
  /\ WF_client(WatchDirectory) /\ WF_client(Done \/ Wait \/ (Answered /\ Ask))
  /\ WF_client(GetChanges)
  /\ \A n \in Names : WF_client(StartFile(n)) /\ WF_looking(Look(n))

FairSpec == Spec /\ Fairness

-----------------------------------------------------------------------------
(* Every variable keeps its type.                                          *)
TypeOK == WatchTypeOK /\ InotifyTypeOK /\ FenTypeOK

(* Event objects are not collected: "Care must be taken to free each       *)
(* event_object explicitly and not use them after having been freed"       *)
(* (solaris/watcher.ml).  No object is used or freed when it is free; the  *)
(* objects on the heap are those of the watch, and only they are           *)
(* associated or have events; however a watch is released, also while      *)
(* events that had been fetched wait to be processed.                      *)
ObjectsOwned ==
  LET owned == {<<e.port, e.obj>> : e \in fen.entries} IN
  /\ ~fen.fault
  /\ {x[2] : x \in owned} = Addresses \ Free(fen)
  /\ \A x \in fen.assoc \cup fen.queue : <<x.port, x.obj>> \in owned

(* The count of each port is that of the objects it has, so a port is never*)
(* closed under its associations, nor used beyond its limit, and no port   *)
(* stays open without use.                                                 *)
PortsCounted ==
  /\ \A q \in DOMAIN fen.ports :
       fen.ports[q] = Cardinality({e \in fen.entries : e.port = q}) + Others(q)
  /\ {e.port : e \in fen.entries} \subseteq DOMAIN fen.ports

Noticed(n) ==
  \/ client \in {"scan", "link", "dir"} /\ (start = Root \/ {n, Root} \cap todo # {})
  \/ n \in todo \cup looking
  \/ rec.children[n] # "none" \/ rec.changed
  \/ InotifyPending(n) \/ FenPending(n)

(* No change is lost: if the client has not seen a file as it is, it is    *)
(* going to look at it, or the change is recorded, or an event about it is *)
(* still to be read; whatever happens while the client scans, and in the   *)
(* time between an event and the renewal of its association.  What the code*)
(* does lose is in the histories: on Linux, an event left out as equal to  *)
(* the one before although that has been forgotten since, and the deletion *)
(* of a file seen before its creation was recorded (missed); on Solaris,   *)
(* events of a deleted file that come before those of the directory        *)
(* (split).                                                                *)
NoChangeLost == split \/ \A n \in Names \ missed : seen[n] = Actual(n) \/ Noticed(n)

(* Hence the client comes to see every file as it is, if other programs    *)
(* stop changing them: waits are answered, and delays end.                 *)
Settles == <>[](split \/ \A n \in Names \ missed : seen[n] = Actual(n))

=============================================================================
