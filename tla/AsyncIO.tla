------------------------------ MODULE AsyncIO ------------------------------
(***************************************************************************)
(* The event loop on Windows: lwt/win/lwt_unix_impl.ml on top of           *)
(* lwt/lwt_unix_stubs.c.  A thread starts an operation with an identifier  *)
(* and a buffer; the kernel, or a helper thread, performs it and queues a  *)
(* call to the main thread, which takes it while it waits; its result goes *)
(* through two more queues to the thread that is waiting for it.  Sockets  *)
(* that accept or connect have an event object instead, which the main     *)
(* thread waits for.  A wait that ends because a thread has slept enough   *)
(* changes nothing here: threads may start operations whenever they run.   *)
(* Reading the changes of a directory is a read; its data are parsed in    *)
(* the buffer.  A thread may call run itself: the loop is entered again    *)
(* inside the one that runs the thread.  Every operation has a number, its *)
(* ticket, that only properties read.                                      *)
(***************************************************************************)
EXTENDS Integers, FiniteSets, SequencesExt

CONSTANTS
  Async,    \* descriptors made by win_wrap_overlapped, and directories
  Sync,     \* descriptors made by win_wrap_fd: performed on helper threads
  MaxEvent, \* max_event_count, MAXIMUM_WAIT_OBJECTS
  MaxOps    \* bound: operations started, event objects made and loops
            \* entered inside another one, together

ASSUME DescrAssumption == Async \cap Sync = {}
ASSUME BoundAssumption == MaxEvent \in Nat /\ MaxOps \in Nat

VARIABLES
  open,      \* descriptors that are open
  kernel,    \* overlapped operations in progress
  helper,    \* the calls queued to each helper thread; <<>> when there is none
  thread,    \* the helper threads a descriptor knows
  apc,       \* calls queued to the main thread
  events,    \* results to hand on, oldest first: completionEvents, or the
             \* list the loop took of it; then those of the loops around it
  ioInFlight, lastId, freeList, avail,
  content,   \* the ticket of the data in each buffer, or 0
  ended,     \* how each operation ended in the kernel
  moved,     \* the ticket of the data it read or wrote
  outcome,   \* what its thread knows of it
  conn,      \* connInFlight
  live, sig, \* event objects that are open, and those that are signaled
  made,      \* number of event objects made
  left,      \* those a loop inside another one left in conn, closed
  ret,       \* the event that ended the wait, or 0
  base,      \* number of events that the loops around this one hold
  outer,     \* those loops, the first one first
  inner,     \* number of loops that were entered inside another one
  pc         \* what the main thread does

devvars == <<open, kernel, helper, thread>>
queuevars == <<apc, events>>
idvars == <<ioInFlight, lastId, freeList, avail>>
datavars == <<content, ended, moved, outcome>>
waitvars == <<conn, live, sig, made, left>>
loopvars == <<ret, base, outer, inner, pc>>
vars == <<devvars, queuevars, idvars, datavars, waitvars, loopvars>>

Descrs == Async \cup Sync
Kinds == {"read", "write"}
Started == Len(outcome)
Bounded == Started + made + inner < MaxOps

Op == [id : 0 .. 2 * MaxOps, kind : Kinds, ticket : 1 .. MaxOps, buf : 1 .. MaxOps]
(* The call that makes a helper thread leave.                              *)
Exit == [id |-> 0, kind |-> "exit", ticket |-> 0, buf |-> 0]
Info == [op : Op, len : {-1, 0, 1}, err : BOOLEAN]
(* Threads run before the loop waits, when those that have slept enough or *)
(* have yielded are restarted, and when those that waited are woken.       *)
Threads == {"run", "restart", "complete"}

TypeOK ==
  /\ open \subseteq Descrs
  /\ kernel \subseteq Async \X Op
  /\ DOMAIN helper = Sync \X Kinds
  /\ \A h \in DOMAIN helper : Range(helper[h]) \subseteq Op \cup {Exit}
  /\ thread \subseteq Sync \X Kinds
  /\ \A q \in {apc, events} : Range(q) \subseteq Info
  /\ \A i \in DOMAIN ioInFlight : ioInFlight[i] \in Op /\ ioInFlight[i].id = i
  /\ lastId \in Nat
  /\ Range(freeList) \subseteq DOMAIN freeList
  /\ Range(avail) \subseteq DOMAIN content
  /\ Range(content) \subseteq 0 .. MaxOps
  /\ Range(ended) \subseteq {"no", "exn", "done"}
  /\ Range(moved) \subseteq 0 .. MaxOps
  /\ Range(outcome) \subseteq {"flying", "raised", "exn", "done"}
  /\ Range(conn) \subseteq [h : 1 .. made, kind : {"accept", "connect"}]
  /\ live \subseteq 1 .. made /\ sig \subseteq 1 .. made /\ left \subseteq 1 .. made
  /\ ret \in Nat
  /\ base \in 0 .. Len(events)
  /\ Range(outer) \subseteq [ret : Nat, base : 0 .. base, pc : Threads]
  /\ inner \in 0 .. MaxOps
  /\ pc \in Threads \cup {"dispatch", "ended"}

(* win_wrap_fd: the helper threads are made when they are needed.          *)
NoHelpers == [h \in Sync \X Kinds |-> <<>>]

Init ==
  /\ open = Descrs /\ kernel = {} /\ thread = {}
  /\ helper = NoHelpers
  /\ apc = <<>> /\ events = <<>>
  /\ ioInFlight = <<>> /\ lastId = 0 /\ freeList = [i \in {0} |-> 0] /\ avail = <<>>
  /\ content = <<>> /\ ended = <<>> /\ moved = <<>> /\ outcome = <<>>
  /\ conn = <<>> /\ live = {} /\ sig = {} /\ made = 0 /\ left = {}
  /\ ret = 0 /\ base = 0 /\ outer = <<>> /\ inner = 0 /\ pc = "run"

-----------------------------------------------------------------------------
(* Identifiers and buffers.                                                *)

(* acquire_id doubles the table of free identifiers when all are taken.    *)
FreeList ==
  LET len == Cardinality(DOMAIN freeList)
  IN  IF lastId < len THEN freeList
      ELSE [i \in 0 .. 2 * len - 1 |-> IF i < len THEN freeList[i] ELSE i]

(* Mutant: the identifier is not written back.                             *)
ReleaseIdLost(i) == lastId' = lastId - 1 /\ UNCHANGED freeList

(* Mutant: an identifier is released twice.                                *)
ReleaseIdTwice(i) ==
  /\ lastId' = lastId - 2
  /\ freeList' = [freeList EXCEPT ![lastId - 1] = i]

(* release_id                                                              *)
ReleaseId(i) ==
  /\ lastId' = lastId - 1
  /\ freeList' = [freeList EXCEPT ![lastId - 1] = i]

(* The table ioInFlight, with one operation more or less.                  *)
With(f, i, op) == [j \in DOMAIN f \cup {i} |-> IF j = i THEN op ELSE f[j]]
Without(f, i) == [j \in DOMAIN f \ {i} |-> f[j]]

(* A writer's data are copied into its buffer; a reader has none.          *)
Blit(b, data) == IF data = 0 THEN content ELSE [content EXCEPT ![b] = data]

(* acquire_buffer, and the data a writer puts into the buffer.             *)
AcquireBuffer(data) ==
  IF avail = <<>>
  THEN UNCHANGED avail /\ content' = Append(content, data)
  ELSE avail' = Tail(avail) /\ content' = Blit(Head(avail), data)

(* release_buffer                                                          *)
ReleaseBuffer(b) == avail' = <<b>> \o avail

-----------------------------------------------------------------------------
(* Starting an operation.                                                  *)

(* overlapped_action, ReadDirectoryChangesW: the kernel has the operation. *)
OverlappedAction(d, op) ==
  /\ d \in Async
  /\ kernel' = kernel \cup {<<d, op>>}
  /\ UNCHANGED <<helper, thread>>

(* get_helper_thread makes the thread if there is none yet.                *)
GetHelperThread(h) == thread' = thread \cup {h}

(* thread_io                                                               *)
ThreadIo(d, op) ==
  /\ d \in Sync
  /\ GetHelperThread(<<d, op.kind>>)
  /\ helper' = [helper EXCEPT ![<<d, op.kind>>] = Append(@, op)]
  /\ UNCHANGED kernel

(* win_read and win_write                                                  *)
StartIo(d, op) == OverlappedAction(d, op) \/ ThreadIo(d, op)

(* read, write, readdirectorychanges: the operation is registered before   *)
(* it is started; starting it may raise an exception.                      *)
Start(d, kind) ==
  LET op == [id |-> FreeList[lastId], kind |-> kind, ticket |-> Started + 1,
             buf |-> IF avail = <<>> THEN Len(content) + 1 ELSE Head(avail)]
  IN
  /\ pc \in Threads
  /\ d \in open /\ Bounded
  /\ freeList' = FreeList /\ lastId' = lastId + 1
  /\ AcquireBuffer(IF kind = "write" THEN op.ticket ELSE 0)
  /\ ioInFlight' = With(ioInFlight, op.id, op)
  /\ \/ /\ StartIo(d, op)
        /\ outcome' = Append(outcome, "flying")
     \/ /\ outcome' = Append(outcome, "raised")
        /\ UNCHANGED <<kernel, helper, thread>>
  /\ ended' = Append(ended, "no") /\ moved' = Append(moved, 0)
  /\ UNCHANGED <<open, queuevars, waitvars, loopvars>>

(* Mutant: the helper threads are terminated.                              *)
CloseTerminates(d) ==
  /\ pc \in Threads
  /\ d \in open
  /\ open' = open \ {d}
  /\ helper' = [h \in DOMAIN helper |-> IF h[1] = d THEN <<>> ELSE helper[h]]
  /\ thread' = {h \in thread : h[1] # d}
  /\ UNCHANGED <<kernel, queuevars, idvars, datavars, waitvars, loopvars>>

(* close: win_kill_threads lets the helper threads leave when they have    *)
(* done what is queued to them.                                            *)
Close(d) ==
  /\ pc \in Threads
  /\ d \in open
  /\ open' = open \ {d}
  /\ helper' = [h \in DOMAIN helper |->
                  IF h[1] = d /\ h \in thread THEN Append(helper[h], Exit) ELSE helper[h]]
  /\ thread' = {h \in thread : h[1] # d}
  /\ UNCHANGED <<kernel, queuevars, idvars, datavars, waitvars, loopvars>>

-----------------------------------------------------------------------------
(* The kernel and the helper threads.                                      *)

(* An operation ends; a call is queued to the main thread.                 *)
Performed(op, how, len) ==
  /\ apc' = Append(apc, [op |-> op, len |-> len, err |-> how = "exn"])
  /\ ended' = [ended EXCEPT ![op.ticket] = how]
  /\ content' = IF how = "done" /\ op.kind # "write"
                THEN [content EXCEPT ![op.buf] = op.ticket] ELSE content
  /\ moved' = IF how = "done" /\ op.kind = "write"
              THEN [moved EXCEPT ![op.ticket] = content[op.buf]] ELSE moved
  /\ UNCHANGED <<open, thread, events, idvars, outcome, waitvars, loopvars>>

(* Closing a handle ends what is in progress on it.                        *)
Ends(d) == {"exn"} \cup IF d \in open THEN {"done"} ELSE {}

(* The operation ends: overlapped_completion is queued, with the length 0  *)
(* if there was an error.                                                  *)
KernelPerforms(d, op, how) ==
  /\ <<d, op>> \in kernel /\ how \in Ends(d)
  /\ kernel' = kernel \ {<<d, op>>}
  /\ UNCHANGED helper
  /\ Performed(op, how, IF how = "done" THEN 1 ELSE 0)

(* perform_io_on_thread                                                    *)
HelperPerforms(h, how) ==
  /\ helper[h] # <<>> /\ Head(helper[h]) # Exit /\ how \in Ends(h[1])
  /\ helper' = [helper EXCEPT ![h] = Tail(@)]
  /\ UNCHANGED kernel
  /\ Performed(Head(helper[h]), how, IF how = "done" THEN 1 ELSE -1)

(* exit_thread                                                             *)
HelperExits(h) ==
  /\ helper[h] # <<>> /\ Head(helper[h]) = Exit
  /\ helper' = [helper EXCEPT ![h] = <<>>]
  /\ UNCHANGED <<open, kernel, thread, queuevars, idvars, datavars, waitvars, loopvars>>

(* A client connects, or the server accepts or refuses the connection.     *)
Signal(h) ==
  /\ h \in live \ sig
  /\ sig' = sig \cup {h}
  /\ UNCHANGED <<devvars, queuevars, idvars, datavars, conn, live, made, left, loopvars>>

-----------------------------------------------------------------------------
(* A loop inside another one: a thread calls run.                          *)

(* From a thread that is restarted, the loop inside takes the results that *)
(* have arrived after its first wait; from one that a result has woken,    *)
(* those that come after it are in the list of the loop around it.         *)
Nest ==
  /\ pc \in Threads /\ Bounded /\ inner' = inner + 1
  /\ outer' = Append(outer, [ret |-> ret, base |-> base, pc |-> pc])
  /\ base' = IF pc = "complete" THEN Len(events) ELSE base
  /\ ret' = 0 /\ pc' = "run"
  /\ UNCHANGED <<devvars, queuevars, idvars, datavars, waitvars>>

(* The loop around this one goes on, with the index it had.                *)
Resume ==
  /\ outer # <<>>
  /\ outer' = Front(outer)
  /\ ret' = Last(outer).ret /\ base' = Last(outer).base /\ pc' = Last(outer).pc
  /\ UNCHANGED inner

(* The thread that run was called with has ended.                          *)
Return ==
  /\ pc = "run" /\ Resume
  /\ UNCHANGED <<devvars, queuevars, idvars, datavars, waitvars>>

(* An exception leaves the loop.  It ends the thread that called run, or,  *)
(* from the first loop, the program.                                       *)
Raise ==
  \/ Resume
  \/ outer = <<>> /\ pc' = "ended" /\ UNCHANGED <<ret, base, outer, inner>>

-----------------------------------------------------------------------------
(* The main loop: run, win_wait.                                           *)

(* Mutant: an error is reported with the length it came with.              *)
CalledBackLength(e) == e

(* invoke_completion_callback: an error has the length -1.                 *)
CalledBack(e) == [e EXCEPT !.len = IF e.err THEN -1 ELSE @]

(* completion: the calls queued to the thread put their results into       *)
(* complQueue, in their order.                                             *)
ComplQueue == apc

(* get_queue hands them to actionCompleted.                                *)
GetQueue == [i \in DOMAIN ComplQueue |-> CalledBack(ComplQueue[i])]

(* The results this loop has to hand on are the first ones.                *)
Own == Len(events) - base

WaitsFor == {conn[i].h : i \in DOMAIN conn}

(* WAIT_IO_COMPLETION: the calls queued to the thread are made.            *)
WaitCompletion ==
  /\ pc = "run" /\ WaitsFor \subseteq live /\ apc # <<>>
  /\ events' = SubSeq(events, 1, Own) \o GetQueue \o SubSeq(events, Own + 1, Len(events))
  /\ apc' = <<>>
  /\ pc' = "restart"
  /\ UNCHANGED <<devvars, idvars, datavars, waitvars, ret, base, outer, inner>>

Signaled == {i \in DOMAIN conn : conn[i].h \in sig}

(* An event is signaled: the first one counts.                             *)
WaitEvent ==
  /\ pc = "run" /\ WaitsFor \subseteq live
  /\ ret' \in {i \in Signaled : \A j \in Signaled : i <= j}
  /\ pc' = "restart"
  /\ UNCHANGED <<devvars, queuevars, idvars, datavars, waitvars, base, outer, inner>>

(* WAIT_FAILED: an event object is closed.  The assertion fails.           *)
WaitFails ==
  /\ pc = "run" /\ ~(WaitsFor \subseteq live)
  /\ Raise
  /\ UNCHANGED <<devvars, queuevars, idvars, datavars, waitvars>>

(* restart_threads; then the results are taken.                            *)
Restarted ==
  /\ pc = "restart" /\ pc' = "complete"
  /\ UNCHANGED <<devvars, queuevars, idvars, datavars, waitvars, ret, base, outer, inner>>

(* What the thread gets of a buffer: a copy, or the changes parsed in it.  *)
DataIn(b) == content[b]

(* handleCompletionEvent: the thread that waits for this identifier goes   *)
(* on.  What it does at once, reading the changes of a directory in the    *)
(* buffer that was just released, is part of it.                           *)
HandleCompletionEvent ==
  LET e == Head(events)
      op == ioInFlight[e.op.id]
  IN
  /\ pc = "complete" /\ Own > 0
  /\ e.op.id \in DOMAIN ioInFlight
  /\ events' = Tail(events)
  /\ ioInFlight' = Without(ioInFlight, e.op.id)
  /\ ReleaseId(e.op.id)
  /\ ReleaseBuffer(op.buf)
  /\ outcome' = [outcome EXCEPT ![op.ticket] =
                   IF e.len = -1 THEN "exn" ELSE "done"]
  /\ moved' = IF op.kind = "read" /\ e.len > 0
              THEN [moved EXCEPT ![op.ticket] = DataIn(op.buf)] ELSE moved
  /\ UNCHANGED <<devvars, apc, content, ended, waitvars, loopvars>>

(* All results have been handed on.                                        *)
Handled ==
  /\ pc = "complete" /\ Own = 0
  /\ pc' = IF ret > 0 THEN "dispatch" ELSE "run"
  /\ UNCHANGED <<devvars, queuevars, idvars, datavars, waitvars, ret, base, outer, inner>>

-----------------------------------------------------------------------------
(* Sockets: accept, check_socket, handle_wait_event.                       *)

(* accept, check_socket: there is room for one more event object, and      *)
(* win_register_wait makes it.                                             *)
Register(kind) ==
  /\ pc \in Threads
  /\ Bounded /\ Len(conn) # MaxEvent
  /\ made' = made + 1
  /\ live' = live \cup {made + 1}
  /\ conn' = <<[h |-> made + 1, kind |-> kind]>> \o conn
  /\ UNCHANGED <<devvars, queuevars, idvars, datavars, sig, left, loopvars>>

(* What the index points to now: threads have run since the wait.  Where   *)
(* it points to nothing, the assertion fails.                              *)
NoSuchEvent ==
  /\ pc = "dispatch" /\ ret \notin DOMAIN conn
  /\ Raise
  /\ UNCHANGED <<devvars, queuevars, idvars, datavars, waitvars>>

(* The connections left, in their order                                    *)
Others(h) ==
  FoldLeft(LAMBDA els, el : IF el.h = h THEN els ELSE Append(els, el), <<>>, conn)
Forget(h) == conn' = Others(h)

NextWait == ret' = 0 /\ pc' = "run" /\ UNCHANGED <<base, outer, inner>>

(* win_check_connection closes the event object, unless the first calls    *)
(* fail; its error, or that of Unix.accept, goes to the thread.            *)
Dispatch(closed) ==
  LET h == conn[ret].h IN
  /\ pc = "dispatch" /\ ret \in DOMAIN conn
  /\ live' = IF closed THEN live \ {h} ELSE live
  /\ Forget(h)
  /\ NextWait
  /\ UNCHANGED <<devvars, queuevars, idvars, datavars, sig, made, left>>

(* EWOULDBLOCK: there is no connection to accept, and win_check_connection *)
(* has closed the event object.                                            *)
WouldBlock == pc = "dispatch" /\ ret \in DOMAIN conn /\ conn[ret].kind = "accept"

(* Mutant: the old event object stays in the list.                         *)
DispatchAgainStale ==
  /\ WouldBlock /\ Bounded
  /\ made' = made + 1
  /\ live' = (live \ {conn[ret].h}) \cup {made + 1}
  /\ NextWait
  /\ UNCHANGED <<devvars, queuevars, idvars, datavars, sig, conn, left>>

(* A new event object takes its place.                                     *)
DispatchAgain ==
  /\ WouldBlock /\ Bounded
  /\ made' = made + 1
  /\ live' = (live \ {conn[ret].h}) \cup {made + 1}
  /\ conn' = [conn EXCEPT ![ret].h = made + 1]
  /\ NextWait
  /\ UNCHANGED <<devvars, queuevars, idvars, datavars, sig, left>>

(* win_register_wait fails: its exception leaves the loop, and the old one *)
(* stays in the list.                                                      *)
DispatchAgainFails ==
  LET h == conn[ret].h IN
  /\ WouldBlock
  /\ live' = live \ {h}
  /\ left' = IF outer = <<>> THEN left ELSE left \cup {h}
  /\ Raise
  /\ UNCHANGED <<devvars, queuevars, idvars, datavars, conn, sig, made>>

-----------------------------------------------------------------------------
Loop ==
  \/ WaitCompletion \/ WaitEvent \/ WaitFails \/ Restarted
  \/ HandleCompletionEvent \/ Handled
  \/ NoSuchEvent \/ \E closed \in BOOLEAN : Dispatch(closed)
  \/ DispatchAgain \/ DispatchAgainFails

Device ==
  \/ \E p \in kernel, how \in {"exn", "done"} : KernelPerforms(p[1], p[2], how)
  \/ \E h \in Sync \X Kinds :
       HelperExits(h) \/ \E how \in {"exn", "done"} : HelperPerforms(h, how)

Next ==
  \/ Loop \/ Device
  \/ \E d \in Descrs : Close(d) \/ \E kind \in Kinds : Start(d, kind)
  \/ \E h \in live : Signal(h)
  \/ \E kind \in {"accept", "connect"} : Register(kind)
  \/ Nest \/ Return

Spec == Init /\ [][Next]_vars

(* The loop runs; every operation ends, as when the peer answers or is     *)
(* lost.  Nothing says that a loop inside another one ends: what it waits  *)
(* for may never happen.                                                   *)
Fairness ==
  /\ WF_vars(Loop)
  /\ \A t \in 1 .. MaxOps : WF_vars(\E p \in kernel, how \in {"exn", "done"} :
                                      p[2].ticket = t /\ KernelPerforms(p[1], p[2], how))
  /\ \A h \in Sync \X Kinds : WF_vars(\E how \in {"exn", "done"} : HelperPerforms(h, how))

FairSpec == Spec /\ Fairness

-----------------------------------------------------------------------------
(* Every result on its way belongs to the operation that is registered     *)
(* under its identifier: the assertion in handleCompletionEvent holds, and *)
(* no thread is given the result of another operation, although            *)
(* identifiers are used again.                                             *)
OnTheWay == {e.op : e \in Range(apc) \cup Range(events)}
            \cup {p[2] : p \in kernel}
            \cup UNION {Range(helper[h]) \ {Exit} : h \in DOMAIN helper}
Matched ==
  \A op \in OnTheWay : op.id \in DOMAIN ioInFlight /\ ioInFlight[op.id] = op

(* A thread is told how its operation ended, and gets the data that this   *)
(* operation read; what is written is what the thread gave: buffers are    *)
(* never shared, and an error is never taken for an empty result.          *)
OwnResult ==
  \A t \in DOMAIN outcome :
    /\ outcome[t] \notin {"flying", "raised"} => outcome[t] = ended[t]
    /\ outcome[t] = "done" => moved[t] = t

(* The main thread never waits for an event object that is closed, for the *)
(* assertion about win_wait would fail (run): each one that is closed      *)
(* leaves the list or is replaced.  The exception is what a loop inside    *)
(* another one leaves when win_register_wait fails; in the first loop that *)
(* failure ends the program.                                               *)
WaitsForLive == pc # "ended" => WaitsFor \subseteq live \cup left

(* Every operation that was started ends for its thread too, even if its   *)
(* descriptor is closed meanwhile, and whatever the threads do that run    *)
(* before it; unless the program has ended, or the result had arrived when *)
(* a loop was entered inside another one that waits for ever.              *)
Flying(t) == t \in DOMAIN outcome /\ outcome[t] = "flying"
Held(t) == outer # <<>> /\ \E e \in Range(events) : e.op.ticket = t
Answered ==
  \A t \in 1 .. MaxOps : []<>~Flying(t) \/ <>[](Held(t) \/ pc = "ended")

=============================================================================
