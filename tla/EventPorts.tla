----------------------------- MODULE EventPorts -----------------------------
(***************************************************************************)
(* Solaris: the directory and each of its files are associated with an     *)
(* event port by an object on the C heap (fsmonitor/solaris/).  A port     *)
(* delivers one event per association, which then is gone.  The events are *)
(* fetched port by port, and processed after a pause; the kernel delivers  *)
(* the events of one change at the same time.                              *)
(***************************************************************************)
EXTENDS FileWatch

CONSTANTS
  MaxEv,     \* max_ev_per_port
  MaxObject  \* bound: addresses of the heap

ASSUME PortAssumption ==
  /\ MaxEv \in Nat \ {0}
  /\ MaxObject \in Nat /\ MaxObject > Cardinality(Names)

VARIABLES
  fen,      \* objects, ports and the kernel's tables, see FenInit
  toFetch,  \* ports to fetch from
  batch,    \* events fetched
  split     \* history: did the event of a deleted file come without that of
            \* the directory?

fenvars == <<fen, toFetch, batch, split>>

Addresses == 1 .. MaxObject
Ports == 1 .. Cardinality(Names) + 2
(* The first port also has an object of another replica, which stays.      *)
Others(q) == IF q = 1 THEN 1 ELSE 0

Nodes == Names \cup {Root, "link"}

(* Events that end an association for good have FILE_EXCEPTION. *)
FenKinds == {"modify", "delete"}

Events == [port : Ports, obj : Addresses, id : 0 .. MaxResets, kind : FenKinds]

(* The address malloc returns is that of the object freed last, or any: it *)
(* is the first that is free.                                              *)
Free(p) == {a \in Addresses : p.heap[a] = "free"}
NewAddress(p) == CHOOSE a \in Free(p) : \A b \in Free(p) : a <= b

FenInit ==
  /\ fen = [heap |-> [a \in Addresses |-> "free"], \* free, or prev_events: clear, exception
            cookie |-> [a \in Addresses |-> 0],
            id |-> 0,         \* id of the directory's file
            watched |-> FALSE, follow |-> FALSE, \* its watch, if any
            entries |-> {},   \* objects of the watch: port, address, name
            ports |-> <<1>>,  \* open ports, with how many objects each has
            assoc |-> {},     \* associations: port, address, node watched
            queue |-> {},     \* events of the ports
            fault |-> FALSE]  \* was a free object used or freed?
  /\ toFetch = {} /\ batch = {} /\ split = FALSE

FenTypeOK ==
  /\ fen.heap \in [Addresses -> {"free", "clear", "exception"}]
  /\ fen.cookie \in [Addresses -> 0 .. MaxResets]
  /\ fen.id \in 0 .. MaxResets
  /\ fen.watched \in BOOLEAN /\ fen.follow \in BOOLEAN /\ fen.fault \in BOOLEAN
  /\ fen.entries \subseteq [port : Ports, obj : Addresses, name : Names \cup {Root}]
  /\ DOMAIN fen.ports \subseteq Ports
  /\ \A q \in DOMAIN fen.ports : fen.ports[q] \in 1 .. MaxEv
  /\ fen.assoc \subseteq [port : Ports, obj : Addresses, node : Nodes]
  /\ fen.queue \subseteq [port : Ports, obj : Addresses, kind : FenKinds]
  /\ toFetch \subseteq Ports /\ batch \subseteq Events /\ split \in BOOLEAN

-----------------------------------------------------------------------------
(* The pool of ports.                                                      *)

(* unsn_port_create: a port of its own for the kernel's next event         *)
NewPort(p) == CHOOSE q \in Ports \ DOMAIN p.ports : \A r \in Ports \ DOMAIN p.ports : q <= r

(* allocate_port *)
Room(p) == {q \in DOMAIN p.ports : p.ports[q] < MaxEv}
AllocatePort(p) == IF Room(p) # {} THEN CHOOSE q \in Room(p) : TRUE ELSE NewPort(p)

(* unsn_port_close: the associations and the events of the port are gone.  *)
ClosePort(p, q) ==
  [p EXCEPT !.ports = [r \in DOMAIN p.ports \ {q} |-> p.ports[r]],
            !.assoc = {x \in @ : x.port # q}, !.queue = {x \in @ : x.port # q}]

(* Mutant: the object is freed, and its place on the port is not. *)
ReleasePortKeeps(p, q) == p

(* release_port closes a port without objects.                             *)
ReleasePort(p, q) ==
  IF q \notin DOMAIN p.ports THEN p
  ELSE IF p.ports[q] > 1 THEN [p EXCEPT !.ports[q] = @ - 1]
  ELSE ClosePort(p, q)

-----------------------------------------------------------------------------
(* Objects (fen_stubs.c).                                                  *)

(* unsn_port_associate, in associate of watcher.ml; the watch gets an entry*)
(* (it does not fail here, as for a file that has been deleted meanwhile). *)
Associate(p, name, node) ==
  LET q == AllocatePort(p)
      a == NewAddress(p)
  IN  [p EXCEPT !.heap[a] = "clear", !.cookie[a] = p.id,
        !.ports = [r \in DOMAIN @ \cup {q} |-> IF r \in DOMAIN @ THEN @[r] + (IF r = q THEN 1 ELSE 0) ELSE 1],
        !.assoc = {x \in @ : x.obj # a \/ x.port # q} \cup {[port |-> q, obj |-> a, node |-> node]},
        !.entries = @ \cup {[port |-> q, obj |-> a, name |-> name]}]

(* unsn_free_event_object *)
FreeObject(p, a) ==
  [p EXCEPT !.fault = @ \/ p.heap[a] = "free", !.heap[a] = "free", !.cookie[a] = 0]

(* unsn_port_dissociate also takes back an event not fetched; an object    *)
(* that is not associated is no error.                                     *)
Dissociate(p, q, a) ==
  [p EXCEPT !.fault = @ \/ p.heap[a] = "free",
            !.assoc = {x \in @ : x.port # q \/ x.obj # a},
            !.queue = {x \in @ : x.port # q \/ x.obj # a}]

(* unsn_port_reassociate: not after an exception, nor if the file is gone  *)
Reassociates(p, e) == p.heap[e.obj] # "exception" /\ e.name \in fs

Reassociate(p, e) ==
  [p EXCEPT !.fault = @ \/ p.heap[e.obj] = "free",
            !.heap[e.obj] = IF @ = "free" THEN "free" ELSE "clear",
            !.assoc = @ \cup {[port |-> e.port, obj |-> e.obj, node |-> e.name]}]

-----------------------------------------------------------------------------
(* Watches.                                                                *)

(* release_watch *)
ReleaseWatch(p) ==
  LET Unwatch(e, r) == ReleasePort(FreeObject(Dissociate(r, e.port, e.obj), e.obj), e.port)
  IN  FoldSet(Unwatch, [p EXCEPT !.watched = FALSE, !.entries = {}], p.entries)

(* add_watch, for the directory and the files it has                       *)
AddWatch(p, follow) ==
  IF p.watched /\ p.follow = follow THEN p
  ELSE LET r == [ReleaseWatch(p) EXCEPT !.watched = TRUE, !.follow = follow]
       IN  IF Follow /\ ~follow THEN Associate(r, Root, "link")
           ELSE LET AddChild(n, s) == Associate(s, n, n)
                IN  FoldSet(AddChild, Associate(r, Root, Root), fs)

FenAddWatch(follow) == fen' = AddWatch(fen, follow) /\ UNCHANGED <<toFetch, batch, split>>

(* remove_file; the next START makes a new file.                           *)
FenReset ==
  /\ fen' = [ReleaseWatch(fen) EXCEPT !.id = @ + 1]
  /\ UNCHANGED <<toFetch, batch, split>>

-----------------------------------------------------------------------------
(* Events.                                                                 *)

(* What happens to a file is told to its associations, and, unless its     *)
(* contents change, to those of the directory.                             *)
FenChange(n, op) ==
  LET Told(x) == x.node = n \/ (x.node = Root /\ op # "modify")
      Kind(x) == IF x.node = n /\ op = "delete" THEN "delete" ELSE "modify"
      Fired == {x \in fen.assoc : Told(x)}
  IN  /\ fen' = [fen EXCEPT !.assoc = @ \ Fired, !.queue = @ \cup
                   {[port |-> x.port, obj |-> x.obj, kind |-> Kind(x)] : x \in Fired}]
      /\ UNCHANGED <<toFetch, batch, split>>

(* read_events: events are looked for on the ports there are ...           *)
StartFetch ==
  /\ toFetch = {} /\ batch = {} /\ fen.queue # {}
  /\ toFetch' = DOMAIN fen.ports
  /\ UNCHANGED <<fsvars, rec, clientvars, fen, batch, split>>

(* ... and port_get takes those of each, and notes in the object which it  *)
(* had.                                                                    *)
FetchPort ==
  /\ toFetch # {}
  /\ \E q \in toFetch :
       LET es == {x \in fen.queue : x.port = q}
           Seen(a) == {x \in es : x.obj = a}
       IN  /\ toFetch' = toFetch \ {q}
           /\ fen' = [fen EXCEPT !.queue = @ \ es,
                !.heap = [a \in Addresses |-> IF Seen(a) = {} \/ @[a] = "free" THEN @[a]
                            ELSE IF \E x \in Seen(a) : x.kind = "delete" THEN "exception" ELSE "clear"],
                !.fault = @ \/ \E x \in es : fen.heap[x.obj] = "free"]
           /\ batch' = batch \cup {[port |-> q, obj |-> x.obj, kind |-> x.kind,
                                    id |-> fen.cookie[x.obj]] : x \in es}
  /\ UNCHANGED <<fsvars, rec, clientvars, split>>

(* A fetched event and the entry it is about                               *)
Named(y) == [port |-> y[1].port, obj |-> y[1].obj, kind |-> y[1].kind, name |-> y[2].name]
About(p) == {y \in batch \X p.entries : y[1].port = y[2].port /\ y[1].obj = y[2].obj}

(* Mutant: the file an event was for is not compared. *)
LookupAny(p) == {Named(y) : y \in About(p)}

(* process_ev_list looks up which of the events have a file, a watch and   *)
(* an entry in it.                                                         *)
Lookup(p) == {Named(y) : y \in {z \in About(p) : z[1].id = p.id}}

(* cleanup_watch: the object of a file is associated again; if that is not *)
(* possible, or the event is the directory's, the whole watch is released. *)
CleanupWatch(p, e) ==
  IF ~p.watched THEN p
  ELSE IF \E x \in p.entries : x.port = e.port /\ x.obj = e.obj
  THEN IF e.name # Root /\ Reassociates(p, e) THEN Reassociate(p, e)
       ELSE ReleaseWatch(ReleasePort(FreeObject(
              [p EXCEPT !.entries = {x \in @ : x.port # e.port \/ x.obj # e.obj}],
              e.obj), e.port))
  ELSE ReleaseWatch(p)

(* process_ev *)
ProcessEvent(s, e) ==
  [fen |-> CleanupWatch(s.fen, e), rec |-> SignalChange(s.rec, e.name, e.kind)]

(* The files' events are processed first, and the directory's last.        *)
ProcessEvents ==
  /\ toFetch = {} /\ batch # {}
  /\ LET es == Lookup(fen)
         own == {e \in es : e.name = Root}
         s == FoldLeft(ProcessEvent, [fen |-> fen, rec |-> rec],
                       SetToSeq(es \ own) \o SetToSeq(own))
     IN  /\ fen' = s.fen /\ rec' = s.rec
         /\ split' = (split \/ (own = {} /\ \E e \in es : ~Reassociates(fen, e)))
  /\ batch' = {}
  /\ UNCHANGED <<fsvars, clientvars, toFetch>>

(* The parts of these steps that tell when they are possible               *)
Fetches ==
  \/ toFetch = {} /\ batch = {} /\ fen.queue # {} /\ toFetch' = DOMAIN fen.ports
  \/ \E q \in toFetch : toFetch' = toFetch \ {q}
Processes == toFetch = {} /\ batch # {} /\ batch' = {}

FenPending(n) ==
  \/ \E x \in fen.queue : \E e \in fen.entries :
       e.port = x.port /\ e.obj = x.obj /\ e.name \in {n, Root}
  \/ \E e \in Lookup(fen) : e.name \in {n, Root}

=============================================================================
