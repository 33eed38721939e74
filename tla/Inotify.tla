------------------------------ MODULE Inotify ------------------------------
(***************************************************************************)
(* Linux: the directory has a watch of inotify, and its events name the    *)
(* files (fsmonitor/inotify/).                                             *)
(***************************************************************************)
EXTENDS FileWatch

CONSTANT MaxQueue  \* max_queued_events

ASSUME QueueAssumption == MaxQueue \in Nat \ {0}

VARIABLES
  wd,       \* the watch descriptor of the directory, if any
  nextWd,
  inodes,   \* the inode the kernel watches for each descriptor
  queue,    \* events in the kernel
  previous, \* previous_event
  missed    \* history: files about which an event left nothing recorded

inotifyvars == <<wd, nextWd, inodes, queue, previous, missed>>

Kinds == {"create", "delete", "modify", "overflow", "ignored"}
NoEvent == [wd |-> 0, name |-> Root, kind |-> "none"]
Event == [wd : 0 .. 2 * (MaxResets + 1), name : Names \cup {Root}, kind : Kinds]

InotifyTypeOK ==
  /\ wd \in 0 .. nextWd - 1
  /\ inodes \in [1 .. nextWd - 1 -> {"target", "link", "none"}]
  /\ queue \in Seq(Event) /\ Len(queue) <= MaxQueue + 1
  /\ previous \in Event \cup {NoEvent}
  /\ missed \subseteq Names

InotifyInit ==
  /\ wd = 0 /\ nextWd = 1 /\ inodes = <<>>
  /\ queue = <<>> /\ previous = NoEvent /\ missed = {}

Overflow == [wd |-> 0, name |-> Root, kind |-> "overflow"]

(* Mutant: every event that does not fit leaves one that says so. *)
EnqueueOverflows(q, e) ==
  IF q # <<>> /\ Last(q) = e THEN q
  ELSE IF Len(q) < MaxQueue THEN Append(q, e)
  ELSE IF Len(q) < MaxQueue + 2 THEN Append(q, Overflow) ELSE q

(* The kernel drops an event equal to the last one of the queue, and, when *)
(* the queue is full, every event, after one that says so.                 *)
Enqueue(q, e) ==
  IF q # <<>> /\ Last(q) = e THEN q
  ELSE IF Len(q) < MaxQueue THEN Append(q, e)
  ELSE IF Len(q) = MaxQueue THEN Append(q, Overflow) ELSE q

InotifyChange(n, op) ==
  /\ queue' = IF wd # 0 /\ inodes[wd] = "target"
              THEN Enqueue(queue, [wd |-> wd, name |-> n, kind |-> op]) ELSE queue
  /\ UNCHANGED <<wd, nextWd, inodes, previous, missed>>

(* inotify_add_watch: the descriptor of an inode that is watched already,  *)
(* and a new one otherwise.                                                *)
Wd(inode) == IF wd # 0 /\ inodes[wd] = inode THEN wd ELSE nextWd

(* inotify_rm_watch: the kernel says that it removed the watch.            *)
RmWatch ==
  [inodes |-> [inodes EXCEPT ![wd] = "none"],
   queue |-> Enqueue(queue, [wd |-> wd, name |-> Root, kind |-> "ignored"])]

(* release_watch; what is left                                             *)
ReleaseInotify == IF wd = 0 THEN [inodes |-> inodes, queue |-> queue] ELSE RmWatch

InotifyReset ==
  /\ inodes' = ReleaseInotify.inodes /\ queue' = ReleaseInotify.queue
  /\ wd' = 0 /\ previous' = NoEvent
  /\ UNCHANGED <<nextWd, missed>>

(* add_watch: a watch with another descriptor is released afterwards.      *)
InotifyAddWatch(follow) ==
  LET inode == IF Follow /\ ~follow THEN "link" ELSE "target" IN
  /\ UNCHANGED <<previous, missed>>
  /\ IF Wd(inode) = wd THEN UNCHANGED <<wd, nextWd, inodes, queue>>
     ELSE /\ wd' = Wd(inode) /\ nextWd' = nextWd + 1
          /\ inodes' = Append(ReleaseInotify.inodes, inode)
          /\ queue' = ReleaseInotify.queue

(* watch_rec, for one event: one equal to the one before is left out, and  *)
(* one for a descriptor that is no longer used has no file.                *)
HandleEvent(s, e) ==
  IF s.previous = e THEN s
  ELSE [s EXCEPT !.previous = e,
        !.rec = IF e.kind = "overflow" THEN SignalOverflow(@)
                ELSE IF e.kind # "ignored" /\ e.wd = wd
                THEN SignalChange(@, e.name, e.kind) ELSE @]

(* Nothing is recorded about the file of an event, because it was left out,*)
(* or took back that the file had been created; and it has been seen.      *)
Handle(s, e) ==
  LET r == HandleEvent(s, e) IN
  [r EXCEPT !.missed = @ \cup {n \in Names :
     /\ e.name = n /\ e.wd = wd /\ r.rec.children[n] = "none"
     /\ e.kind = "delete" => seen[n] # "absent"}]

(* Lwt_inotify.read takes all the events there are, and they are handled   *)
(* without a pause.                                                        *)
ReadInotify ==
  /\ queue # <<>>
  /\ LET s == FoldLeft(Handle, [previous |-> previous, rec |-> rec, missed |-> missed], queue)
     IN  rec' = s.rec /\ previous' = s.previous /\ missed' = s.missed
  /\ queue' = <<>>
  /\ UNCHANGED <<fsvars, clientvars, wd, nextWd, inodes>>

InotifyPending(n) == \E i \in DOMAIN queue : queue[i].name = n \/ queue[i] = Overflow

=============================================================================
