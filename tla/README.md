# Unison: specifications and proofs

Unison keeps two replicas of a tree of files the same. A *client* (the user
interface) drives a process on the host of each of two *roots*; it finds what
changed on each root since the last run by comparing the files with an
*archive* kept on each host, lets the user decide, propagates changes one item
at a time, and finally writes new archives. This directory holds TLA+
specifications of the parts of Unison in which ordering, interleaving and
failure matter, the TLC configurations that check them on small instances, and
TLAPS proofs of what matters most for instances of any size.

Everything is translated from the OCaml and C sources in `src/`. Line numbers in
this file are of that tree; `PROJECT.json` gives the lines for each definition.

    tlc -workers 2 -config ArchiveCommit_one.cfg MCArchiveCommit.tla
    tlc -workers 2 -config Propagation_one.cfg   MCPropagation.tla
    tlc -workers 2 -config LockFile.cfg          MCLockFile.tla
    tlc -workers 2 -config AsyncIO.cfg           AsyncIO.tla
    tlc -workers 2 -config FileWatch.cfg         MCWatchers.tla
    tlc -workers 2 -config FileCalls.cfg         MCFileCalls.tla
    tlapm ArchiveStoreProofs.tla

## 1. Inventory

The components, the state each keeps, its operations, what is hard about it,
and what makes it correct. "Modelled" says where; the plan is in section 6.

### 1.1 Archive files (`update.ml` 228-1180, 2514-2675)

* State, on each host: the main, new and scratch archive files, and the lock
  file; in each process the archives in memory (`archiveCache`) and which file
  is believed to be there (`archiveInfoCache`).
* Operations: load (optimistically, without a lock, or under it), lock and
  unlock, crash recovery (`doArchiveCrashRecovery`), commit (`prepareCommit`,
  `commitArchive`, `postCommitArchive`, `removeArchive`).
* Interaction: the client sends one command per host and phase and waits for
  all answers (`Globals.allRootsIter`, globals.ml:136-149). Recovery and commit
  share the command `postCommitArchive`.
* Hard: a crash of a process, or a connection that is lost, between any two
  file operations of either host; servers of a killed client that go on; two
  clients; processes that live on with old caches.
* Correct when: the two hosts' files always hold one common state, which
  changes in one step; a run starts from that state; two clients never write
  at once.
* Modelled: `ArchiveCommit`, with `ArchiveStore` as what it promises.

### 1.2 Lock files (`lock.ml`)

* State: temporary files and the lock file of each archive.
* Operations: `acquire`, `release`, `is_locked`.
* Hard: file systems on which `O_EXCL` has no effect and `link` may report a
  failure after having succeeded; processes interrupted in the middle, whose
  identifiers are used again.
* Correct when: no two processes hold the lock, and to its users taking it is
  one step.
* Modelled: `LockFile`, with `LockService` as what it promises. The locks of
  `ArchiveCommit` behave as `LockService` says.

### 1.3 Update detection (`update.ml` 1295-2560, `fpcache.ml`, `fileinfo.ml`, `tree.ml`)

* State: the archive tree in memory; a cache of fingerprints on disk.
* Operations: compare a replica with its archive (`buildUpdate`), with a fast
  check by size, time and inode; mark paths to be looked at again.
* Hard: files change during the scan; a change within the resolution of time
  stamps; a removed disk that looks like a deletion of everything.
* Correct when: what is reported unchanged is unchanged since the archive was
  written, up to the documented approximations.
* Modelled in `Propagation` as one look at each path at any time during the
  scan, exact. The fast check is not modelled.

### 1.4 Reconciliation (`recon.ml`, `common.ml`, `sortri.ml`)

* A computation on two trees of updates, giving a list of items with default
  directions, and a tree of equal updates which it records in the archives at
  once (`Update.markEqual`, `Update.commitUpdates`).
* Hard: preferences (`force`, `prefer`, `nodeletion`, `maxsizethreshold` ...)
  that override each other; directories changed on one side and deleted on the
  other.
* Correct when: a path changed on one side only goes to the other, two
  different changes are a conflict, nothing is dropped.
* Modelled in `Propagation` for one path, including the recording of equal
  changes. The recursion over trees and the preferences are not.

### 1.5 Propagation (`files.ml`, `transport.ml`, `abort.ml`, `stasher.ml`)

* State: the replicas; temporary files; the commit log `DANGER.README` of each
  host; the archives in memory of both hosts; counters of running tasks.
* Operations: copy, delete, set properties, move, merge; conflict copies;
  backups; a request to stop.
* Interaction: one thread per item; `renameLocal` and `deleteLocal` run on the
  host of the target, `updateSourceArchiveLocal` on that of the source.
* Hard: other programs write to both replicas at any time; two renames where
  one does not do; errors and kills between any two steps; items end in any
  order.
* Correct when: nothing the user was not shown is overwritten or deleted; a
  path has its original or its final contents, or a log says that it has not;
  the archives never claim more than was done.
* Modelled: `Propagation`.

### 1.6 File transfer (`copy.ml`, `copy_stubs.c`, `transfer.ml`, `xferhint.ml`)

* State: the target and the offsets of two descriptors; what the output channel
  holds back; temporary files that may be resumed; the queue of transfers of equal
  contents (`filesBeingTransferred`); the rsync algorithm's block table.
* Operations: clone a file by its path or descriptor, have the kernel copy a piece,
  read and write; the same for the blocks the rsync decompressor takes from the old
  file, between strings that it writes through a buffer.
* Hard: every system has other calls, which copy less than they are asked, are
  refused on some file systems, or fail after having copied a part; the source
  shrinks or grows while it is copied; a transfer that fails must wake the one that
  waits for it.
* Correct when: every byte is in its place whatever the calls did before the next
  method takes over, nothing is missing at the end, and the loop ends.
* Modelled: `FileCopy` for the copy on one host; in `Propagation` a transfer is one
  step with all its outcomes, followed by the verification. The queue is not, and of
  the rsync algorithm only the copying of blocks is.

### 1.7 Threads and regions (`lwt/`, `transport.ml` 38-84, `uicommon.ml` 702-760)

* Cooperative threads, regions that bound how many run, the dispenser of items
  and the count of those outstanding.
* Hard: a region purged when a connection is lost; a count that also counts
  the dispenser.
* Modelled: the count of outstanding items in `Propagation` (`EndItem`,
  `woken`). Regions are not.

### 1.8 Remote calls (`remote.ml`, `negotiate.ml`, `features.ml`, `clroot.ml`)

* State: connections, output buffers, write tokens of the flow control, tables
  of receivers and streams, handlers run when a connection closes.
* Hard: half-duplex connections, where both ends waiting for the other's token
  is a deadlock; streams that are aborted; a lost connection.
* Modelled in `ArchiveCommit` as commands that hosts execute in any order and
  answers that may not come. Flow control is not.

### 1.9 File system watching (`fswatch.ml`, `fsmonitor/`)

* State: in the program that watches a replica, a tree of watches and of recorded
  changes, and whether a client waits; in the kernel, watches or associations and a
  queue of events; in the client, the paths still to be looked at.
* Operations: the commands START, DIR, LINK, DONE, WAIT, CHANGES and RESET; reading
  events; delays before changes are reported.
* Hard: files change while they are scanned, between an event and the renewal of its
  association, and between two commands; queues overflow; events arrive after their
  watch was released, and name objects that have been freed.
* Correct when: a file that the client has not seen as it is will be looked at, and no
  object is used after it was freed.
* Modelled: `FileWatch` with `Inotify` (Linux) and `EventPorts` (Solaris), put together
  in `Watchers`. The watcher for Windows and subdirectories are not.

### 1.10 Event loop on Windows (`lwt/win/lwt_unix_impl.ml`, `lwt/lwt_unix_stubs.c`)

* State: identifiers and buffers in use and free, operations in the kernel and on
  helper threads, three queues of results, a list of event objects for sockets.
* Operations: start a read, a write, or the reading of a directory's changes; close;
  wait; hand results on; accept and connect.
* Hard: operations end in any order while their identifiers and buffers are used
  again; descriptors are closed meanwhile; threads run between a wait and the use of
  what it returned, and may enter the loop again; calls of the system fail half way.
* Correct when: each thread gets the end, the error and the data of its own
  operation, and the loop waits only for objects that are open.
* Modelled: `AsyncIO`.

### 1.11 Extended attributes and access control lists (`props_xattr.c`, `props_acl.c`, `props.ml`, `osxsupport.c`)

* State: the attributes and lists of two files, the text or digests recorded of them.
* Operations: list names, read values, record, load again, remove and set; turn a list
  into a text and a text into a list; widen the mode for a moment.
* Hard: lengths are asked before values are read; other programs change both; errors of
  removing, of asking for a length and of putting a mode back are ignored; names are
  translated; one of the file systems may have no attributes or no lists; what a file inherits differs on the two roots, and the check
  after the update must not refuse what was set; modes must be put back.
* Correct when: what is reported done is done, what is not synchronized is untouched,
  and nothing is refused that was set.
* Modelled: `Xattrs`, `Acls`, put together with `FileCopy` in `FileCalls`.

### 1.12 Everything else

Move detection (`moves.ml`), paths, names, modes and patterns, user interfaces and
profiles, terminals, the system calls of Windows and small helpers in C:
conversions, heuristics, display and input. They are listed in `PROJECT.json` with
the reason for leaving them out; what the other parts rely on (when a run starts,
that a commit follows every propagation in the text interface, which errors end the
process) is in the modules above.

### 1.13 How the components interact

A run in the text interface (`uitext.ml`, `uicommon.ml`) is a chain:

1. `Globals`/`Remote` connect the roots; `Files.processCommitLogs` refuses to go
   on while a root has a commit log. (`Launch` of `Propagation`)
2. `Update.findUpdates` loads the archives: optimistically, else under the locks
   and after crash recovery (`ArchiveCommit`, phases `optimistic` to `unlock`),
   and compares each replica with its archive (`FindUpdate`).
3. `Recon.reconcileAll` marks equal changes in both archives, commits them
   (`ArchiveCommit`, phases `lock` to `unlock`; `MarkEqual`, `Prepare` and `Store` of
   `Propagation`) and gives the user a list of items (`Choose`).
4. `Uicommon.transportItems` starts a thread for every item. Each sends commands
   to the hosts of the target and of the source (`ItemStep`), which change the
   replicas and the archives in memory.
5. `Update.commitUpdates` writes the archives (`ArchiveCommit`; `Prepare`, `Store`).

Steps 2, 3 and 5 share the archive files and the lock files, within one run and
between runs of different clients; steps 3 to 5 share the archives in memory;
step 4 shares the replicas with every other program on the two hosts. The
commands that a host executes are cooperative threads of one process: a command
that does not wait runs to its end before another starts. (For `renameLocal`,
`deleteLocal` and `prepareCommit`, this is the guard `Idle` of `Propagation`.)

Beside this chain, a watching program tells the client which paths to scan in step 2
(`Watchers`: it promises that a path that is not scanned is as it was last seen); on
Windows all threads of steps 1 to 5 wait in one loop (`AsyncIO`); and within step 4
`Copy` and the properties of a file are calls on a single host (`FileCalls`:
`Propagation` takes from it that a copy has the contents of the source or fails).

`ArchiveCommit` and `Propagation` meet in the archives: `Propagation` takes from
`ArchiveCommit` that what a run loads is the last stored state, the same on both
hosts, and that a commit stores what both hosts prepared if it is the same, in
one step (`AtomicStore`); `ArchiveCommit` takes from `Propagation` that the
archives in memory change between a load and a commit, not always on both hosts
(`Propagate`). `ArchiveCommit` takes from `LockFile` that taking and releasing a
lock are single steps (`LockImplementsService`).

## 2. Modules

| Module | Models |
| --- | --- |
| `ArchiveStore` | what the archive files promise: one stored state, replaced in one step |
| `ArchiveCommit` | archive files, locks and caches of `update.ml`; implements `ArchiveStore` |
| `MCArchiveCommit` | its instances for TLC |
| `ArchiveCommitProofs`, `ArchiveStoreProofs` | theorems about it: types and locks; recovery and the store |
| `LockService` | what a lock file promises: an owner, passed in single steps |
| `LockFile` | the file operations of `lock.ml`; implements `LockService` |
| `MCLockFile`, `LockFileProofs` | its instance for TLC, theorems about it |
| `Propagation` | runs on two replicas that others change: `files.ml` and what it rests on |
| `MCPropagation`, `PropagationProofs` | its instances for TLC, theorems about it |
| `AsyncIO`, `AsyncIOProofs` | operations on Windows from start to answer; theorems about it |
| `FileWatch` | the watching program and its client |
| `Inotify`, `EventPorts` | how Linux and Solaris tell the program of changes; they complete `FileWatch` |
| `Watchers`, `MCWatchers` | both systems and their properties; instances for TLC |
| `WatchersProofs` | theorems about them: types, objects and ports, no change lost |
| `FileCopy`, `Xattrs`, `Acls` | copying contents, extended attributes, access control lists and modes |
| `FileCalls`, `MCFileCalls` | one of these three jobs and their properties; the instance for TLC |
| `FileCallsProofs` | theorems about all three jobs |
| `FoldLemmas` | induction over finite sets, and what folds compute, for the proofs |

Definitions marked "Mutant" are variants of the definition that follows them,
with a plausible error. They take part in no specification; putting one in the
place of the original must break the property it is listed with in
`PROJECT.json`, which shows that the property depends on that code.

### 2.1 `ArchiveCommit`

A session is a client process together with its server processes, one on each
host (`up`, `conn`). The client sends a command to every host (`Send`: `phase`,
`todo`), the hosts execute theirs in any order (`Handler`), and the client
decides when `todo` is empty and no command has failed (`Decides`).

| Code | Model |
| --- | --- |
| files `ar`, `tm`, `sc`, `lk` (update.ml:228) | `main`, `new`, `scratch`, `lock` |
| `archiveCache`, `archiveInfoCache` | `mem`, `info` |
| `loadArchiveOnRoot` (849) | `ClearArchive`, `OptimisticCheck` and `OptimisticRead`, `LoadArchive` |
| `lockArchiveLocal`, `unlockArchiveLocal` (977-1056) | `LockArchive`, `UnlockArchive` |
| `archivesExistOnRoot` (1088) | `ArchivesExist` |
| `postCommitArchiveLocal` (493): unlink, link or copy | `PostCommitUnlink`, `PostCommitCreate`, `PostCommitLink` |
| `removeArchiveLocal`, `commitArchiveLocal`, `prepareCommitLocal` | `RemoveArchive`, `CommitArchive`, `PrepareCommit` |
| `findUpdates`, `loadArchives`, `doArchiveCrashRecovery`, `commitUpdates` | the actions of the client: `FindUpdates`, `AfterOptimistic` ... `AfterUnlock` |
| exceptions, `unlockArchives` before re-raising | `CommandFails`, `error`, `undo`, `GiveUp` |
| `Remote.at_conn_close`, `at_exit` (lock handlers) | `Leave` |

A file is a record of the identity of the commit that wrote it (`magic`; the code
has a string of time and process) and what it says (`arc`); two files are equal
in the model when the code's checksums and magic strings are. `Torn` is a file
that was opened and not filled. An absent file and the answer "already in
memory" both read as `Blank`, because the code answers `(0, "")` for both.
Left out: the preference `-ignorelocks`; the features listed in an archive; the
fingerprint cache file, which is removed and written with the archive but never
decides anything; archives damaged by something other than Unison.

### 2.2 `LockFile`

`acquire` makes a temporary file whose name holds the process identifier
(`Create`, `NextName` when the name is taken and `O_EXCL` works), links it to the
name of the lock (`Link`, whose answer is not looked at), asks for the number of
links (`Stat`) and removes the temporary name (`Unlink`). `excl` says whether
`O_EXCL` works on this file system. Files are numbered as they are made, so a
name that is used again is told from a file that is. A killed process leaves its
files, and its identifier may be used again. Left out: the branch for other systems than
Unix, which makes the lock file with `O_EXCL` alone (lock.ml:48), and a failure of the
last `unlink`, which leaves the lock without an owner just as a failing `stat` does.

### 2.3 `Propagation`

| Code | Model |
| --- | --- |
| `processCommitLogs` (files.ml:84), loading | `Launch` |
| `buildUpdate` of a path | `FindUpdate` |
| `reconcileList`, `markEqual` (recon.ml:824) | `Reconcile`, `MarkEqual` |
| default directions, choices of the user | `Default`, `Choose` |
| task dispenser, `completed` (uicommon.ml:702-760) | `BeginItem`, `EndItem`, `Finish` |
| `Copy.file` and its checks (copy.ml) | `Copy`, `Verify` |
| `prepareCopy`, `finishCopy` (files.ml:100-131) | `PrepareCopy`, `CheckTarget`, `Divert` |
| `checkNoUpdates` | `CheckTarget` |
| `performRename` (files.ml:275-384) | `Rename`, or `WriteLog`, `MoveAside`, `MoveIn`, `ClearLog`, `Cleanup` |
| `deleteLocal` (files.ml:138) | `Remove` |
| `replaceArchiveLocal`, `updateSourceArchiveLocal` | `ReplaceArchive`, `UpdateSource` |
| transient errors; fatal errors | `FailItem`; `Fatal` |
| stop button, signals | `Stop` |
| `commitUpdates` | `Prepare`, `Store` |

`disk`, `temp` and `aside` are, for each root and path, what is at the path, in
the temporary file made for it, and at the temporary name its old contents were
moved to; `kept` collects the conflict copies; `log` is the path named in the
commit log of the root. `had` (everything that was ever at a path of a root) and
`touched` (another program changed the target since it was prepared) are history,
used by properties only. Contents are members of small sets, where `Files` can be
replaced by a rename and `Directories` cannot. Other programs (`Edit`) put any
contents at any path, at any time.

Left out: changes of properties only, directories copied in part, moves,
backups, merge programs, two runs at once, and processes that keep their archives
from one run to the next.

### 2.4 `AsyncIO`

| Code | Model |
| --- | --- |
| `acquire_id`, `release_id`, `acquire_buffer`, `release_buffer` | `FreeList`, `ReleaseId`, `AcquireBuffer`, `ReleaseBuffer` |
| `read`, `write`, `readdirectorychanges` | `Start` |
| `overlapped_action`, `thread_io`, `get_helper_thread` | `OverlappedAction`, `ThreadIo`, `GetHelperThread` |
| `overlapped_completion`, `perform_io_on_thread`, `exit_thread` | `KernelPerforms`, `HelperPerforms`, `HelperExits` |
| `close`, `win_kill_threads` | `Close` |
| `completion`, `get_queue`, `invoke_completion_callback` | `ComplQueue`, `GetQueue`, `CalledBack` |
| `run`, `win_wait` | `WaitCompletion`, `WaitEvent`, `Restarted`, `Handled`, `NoSuchEvent`, `WaitFails` |
| `run` inside `run` (remote.ml:2218-2221, 1044-1049), its result or exception | `Nest`, `Return`, `Raise` |
| `handleCompletionEvent` | `HandleCompletionEvent` |
| `accept`, `connect`, `check_socket`, `win_register_wait` | `Register` |
| `handle_wait_event`, `win_check_connection` | `Dispatch`, `DispatchAgain`, `DispatchAgainFails` |

Every operation has a ticket, its number, which stands for its data: `content` is
the ticket of the data in a buffer, `ended` how the operation ended in the kernel,
`moved` what it read or wrote, `outcome` what its thread has been told. A thread
may start operations or close descriptors whenever threads run. If an operation
fails to start after it was registered, its identifier and buffer stay registered
(`outcome` is `"raised"`): the code never releases them either.

A request that a server executes may call `Lwt_unix.run` (to show a warning or forward a
message), so the loop is entered inside itself from a thread that the loop around it
restarted or woke. `outer` is the stack of these loops, each with the index it got of its
wait (`ret`) and its share of the results: a loop takes the list `completionEvents` and
hands it on with `List.iter`, so that the loops inside see later results only. `events` is
all these lists one behind the other, the innermost first, and `base` how many of its
elements are those of loops around. An exception leaves one loop (`Raise`); if it is the
first one, the program ends.

### 2.5 `FileWatch`, `Inotify`, `EventPorts`, `Watchers`

The client has the directory watched (`WatchDirectory`), looks at its files one by one
(`Look`), waits (`Wait`), asks (`GetChanges`), and scans what it was told. `rec` is what
the program has recorded: per file none, created or modified, and which of these are
older than the delay of half a second (`old`). `Change` is another program; `seen` is
what the client saw of a file, `stale` when it has changed since.

* `Inotify`: a queue of events in the kernel that drops repetitions and overflows; the
  program handles an event (`HandleEvent`), leaving out one that equals `previous`, and
  the directory's watch may be replaced by one of a link (`InotifyAddWatch`).
* `EventPorts`: objects on the heap, associations, ports of limited capacity, and events
  that are fetched port by port (`FetchPort`) and processed after a pause
  (`ProcessEvents`). An address that was freed is the next that is given out, which is
  what makes stale events dangerous.

Two histories hold what the code does lose; section 3.4 describes it.

Associating a path never fails in `Associate`. In the code it may (solaris/watcher.ml:258-270):
a file that is gone again when the directory is begun to be watched ends the program
(watchercommon.ml:491-493), other errors leave the files that come after it without a
watch; and the place on the port, which `allocate_port` counted before, is never given
back (solaris/watcher.ml:224-230). `NoChangeLost` and `PortsCounted` are about
directories whose files can all be associated.

### 2.6 `FileCopy`, `Xattrs`, `Acls`, `FileCalls`

| Code | Model |
| --- | --- |
| cloning and the loop of copy.ml, the abort it looks for | `ClonePath`, `CloneFile`, `NextPiece`, `Copied`, `Fallback`, `Aborted` |
| the loops that read and write (uutil.ml, transfer.ml) | `ReadWriteBounded`, `CopyBlocks` |
| the calls of copy_stubs.c | `LinuxCopy`, `FreeBSDCopy`, `SolarisCopy`, `WindowsPrepares`, `WindowsDuplicates`, `OtherCopy` |
| `getXattrs`, `readAll`, `setXattrs`, their check (props.ml) | `Record`, `Load`, `SetOne`, `RemoveOne`, `Check` (`stage`) |
| listing names and reading values (props_xattr.c) | `ListSize`, `ListNames`, `ListLength`, `GetLength`, `GetContent`, `Listed` (`op`) |
| names and their translation (props_xattr.c 281-307) | `ValOfAttrname`, `AttrnameOfVal`, `Called`, `OddNames` |
| a file system without attributes (`XattrNotSupported`) | `NoAttributes` (`supports`) |
| lists to texts and back (props_acl.c) | `ToText`, `Postprocess`, `DropInherited`, `FromText`, `WindowsLists` |
| `Perm.set`, Finder information, `ACL` (props.ml, osxsupport.c) | `SetFinder`, `MakeWritable`, `Retry`, `Restore`, `SetPerm`, `SetAcl`, `SetUnsupported` |
| `check` of fileinfo.ml and props.ml | `LookAgain`, `CheckAcl` |

A byte of the target is the offset it was copied from. Other programs change the
source or the target (`Edit`, `Touch`, `Chmod`, `EditAcl`). Calls fail: those for copies as
each system's manual has it, those for attributes (`Fault`) and lists (`AclFault`) at any
time, among them the calls whose failure the code does not look at: the length of an
attribute in a list (props_xattr.c:733), removing one, the `chmod` that puts a mode back
(osxsupport.c:129), removing a list on FreeBSD and macOS. Whether a file system has
attributes or lists is chosen for each of the two files.

Unison drops `user.` from names on Linux and puts `!` before the others, and takes a name
that begins with `!` for one of the others when it writes or reads: `user.!user.a` is taken
for `user.a`, and `user.!trusted.b` has the same name in the archive as `trusted.b`. The
model has both pairs (`odd`); the properties are about names that do not begin with
`user.!`, but for `TypeOK`, `ReadWhole`, `OnlySynced` and `Ends`, which are about all.

Simplified: the buffer of an output channel is as large as needed; names are read in one
fixed order (the code sorts them); the directory of attributes on Solaris is read at one
moment; that a file system has no attributes is a property of the file system, not of one
call. Left out: default entries of POSIX lists, values above 16 MB (refused), names of a
name space that the system does not have, and updates of the mode alone, after which the
list is not set again. The three jobs share nothing, so a behaviour does one of them.

## 3. What is checked

Every run ends within a few minutes with two workers. Those in the last line end in
a violation, which section 3.6 explains.

| Run | Shows | Distinct states |
| --- | --- | --- |
| `ArchiveCommit_one` | recovery and commit, one client; every load and commit ends | 536,999 |
| `ArchiveCommit_orphans` | a client meets the servers of a killed one | 813,604 |
| `ArchiveCommit_two` | two clients at once | 366,457 |
| `LockFile` | the lock file is a lock, in single steps | 283,370 |
| `Propagation_one` | one path, every fault, three changes by others | 3,241,701 |
| `Propagation_live` | runs settle | 104,175 |
| `AsyncIO` | every operation is answered, with its own result | 394,536 |
| `FileWatch` | no change is lost but for the cases given up; objects and ports | 321,788 |
| `FileCalls` | contents, attributes, lists and modes | 1,152,273 |
| `ArchiveCommit_gui`, `Propagation_copies`, `FileWatch_link` | one expected violation each | |

### 3.1 `ArchiveCommit`

* `ArchiveCommit_one`: two hosts, a text client on one and a socket server that
  keeps its caches on the other, two possible contents, two commits, and a kill,
  a lost connection or a failed command at any point, any number of times.
  `Coherent` is the invariant the source states in words (update.ml:1068-1087);
  `StoreSpec` says that the files of both hosts implement `ArchiveStore`;
  `LoadsStored` that a run starts from that state; `Protocol` is the
  strengthening used in the proof, checked here first. `RunsEnd`: every load and every
  commit ends, under the fairness of section 3.7.
* `ArchiveCommit_orphans`: a killed client's server may still be in the middle of
  a commit when the next client starts; the lock it holds keeps the client away.
  `Protocol` is checked here for its part `Alone`. What ended sessions leave behind in
  their variables is read by nobody, and the run identifies states that differ in it
  (`VIEW WithoutEnded`).
* `ArchiveCommit_two`: two clients, one of which may use `-ignorearchives`, work
  on roots that were synchronized before. `OneWriter` says that two never write on
  one host; `LoadsCoherent` that an optimistic load, which takes no lock, never
  ends with archives of two commits.

Two hosts are all that a profile can have. Two contents and two commits give
every relation between an old, a current and a new archive: a crash in the first
commit meets files that do not exist, one in the second meets files of an earlier
commit, and the recovery after it is a third actor. Contents and sessions are
interchangeable, so `ArchiveCommit_orphans` and `ArchiveCommit_two` use them as
symmetry sets; `ArchiveCommit_one`, with its liveness property, uses none.

The run of two clients at once has no faults, and the run in which clients meet
the servers of others has them one after the other. With connections that drop
while two clients are active `Coherent` does not hold, since the servers of a
dropped client give up their locks one by one; it is a hazard without a property.

### 3.2 `LockFile`

Three processes, two of them with neighbouring identifiers, so that a process
that tries the next name meets the file of another; `O_EXCL` working or not;
kills and failed `stat` calls. `OneHolder` is mutual exclusion; `ServiceSpec` is the
refinement of `LockService`. `MaxFile` bounds the files made, and three suffice for
a file left behind, a holder and a competitor.

### 3.3 `Propagation`

* `Propagation_one`: one path, which may be a file (two contents), a directory, or
  absent, with and without `copyonconflict`; three changes by other programs and
  one fault. Three changes are what a race needs: one that makes the item, one on
  the source or the target during the transfer, and one more in the window between
  the last check and the rename. (The run was also made with three changes and two
  faults, 11.2 million states, with the same result.)
  `NoLoss`: nothing disappears unless the other replica had it, it was kept, or the
  user chose so. `OriginalOrFinal`: the manual's guarantee for paths. `LogTells`: the
  commit log names what is between two renames. `ArchiveKnown`: the archive never
  claims what a replica did not have.
* `Propagation_live`: two changes and two faults, in batch mode; `Settles` says that
  every run ends, and that if runs are started again and again, then once changes and
  faults are over the replicas and the archive become equal, but for conflicts. Nothing
  is assumed to start a run again: repeat mode only does after a run that ended
  normally, and whether the user comes back after a failure is the user's affair.
* One path is enough for these: items of different paths share the commit log (its
  writer excludes others, and `WriteLog` is atomic with respect to other commands of
  its process), the count of items, and the commit. The proofs are for any number of
  paths.

### 3.4 `AsyncIO` and `FileWatch`

* `AsyncIO`: an overlapped descriptor and one with helper threads; three operations, event
  objects and loops inside another one in all, two event objects at most. Two operations
  make an identifier and a buffer that are used again while the result of another is on its
  way; the third is there to be confused with. Two operations and a loop make results that
  a loop holds while one inside it hands on another. `Matched` is the assertion of
  `handleCompletionEvent`; `OwnResult` relates what a thread is told to what was done in
  the kernel; `WaitsForLive` is about the list of event objects, which changes between a
  wait and the use of its index, and which a failing `win_register_wait` leaves with a
  closed one: the property says that this is the only way to get one, and that it takes
  a loop around the one that failed. `Answered` holds although descriptors are closed,
  unless the result is held by a loop around one that never ends (`Held`).
* `FileWatch`: two files, one of which changes twice and the other once, on either system;
  one scan from scratch; a queue of one event, so that the second overflows; ports with
  room for two objects, so that the three there are (the directory, its files, and none
  for a link) and one of another replica need two. Two changes of a file are what a
  repetition, a deletion after a creation, and a change between an event and its renewal
  need; the other file's change is what comes in between. `NoChangeLost` says that what the client has not seen as it
  is will be looked at, is recorded, or has an event that is still to be read; `Settles`
  that the client then does see it. `ObjectsOwned` and `PortsCounted` are about the C heap
  and the ports of Solaris.

The code does lose changes in three situations, found by TLC as counterexamples to
`NoChangeLost` and then excluded from it by two histories, which tell exactly when
they happen (`missed` per file, `split`):

* an event equal to the one before is left out (fsmonitor/inotify/watcher.ml:148), even
  when what the one before recorded was forgotten in between by a scan that begins (DIR)
  and the client has then looked at the file;
* the deletion of a file "created since" takes back the record (watchercommon.ml:316),
  even when the client saw the file before its creation was recorded;
* on Solaris, when the events of a deleted file are fetched without that of its directory,
  the watch of the whole directory is released (fsmonitor/solaris/watcher.ml:305).

### 3.5 `FileCalls`

Files of up to six bytes, of which the kernel copies at most four at a time, in
clusters of two: a piece that is not a whole number of chunks, one that ends inside a
cluster, and a file that shrinks below a piece or grows beyond it, twice. Two attributes
that are synchronized, one of which is recorded as it is or by a digest; two tries of ten;
two disturbances, each a change by another program or a failing call. Lists of up to two
entries; two failing calls, one change of mode and one of the list by others.

`Placed`, `Whole` and `ReadWhole` are what the comments of copy_stubs.c and props_xattr.c
promise to their callers; `Applied`, `NotRefused`, `OnlySynced` and `ModeKept` are what the
user sees; `Ends` is the termination of the loops. Several properties have more than one
mutant, one for each job or system they speak of. What their exceptions stand for:

* `Applied`: the code ignores an attribute whose length cannot be read, in every list. One
  such failure on the source is enough for the attribute to be left out of what is
  recorded, and then it is removed from the target (the clause with `faults = 0` is about
  that). On the target it takes two failures, one when the list is made or the attribute
  removed and one when it is checked, for an attribute to stay unnoticed; with one, the
  check refuses.
* `ModeKept`: the result of the `chmod` that puts the mode back is not looked at, but
  `Perm.set` comes later. Only if the Finder information cannot be set either, so that an
  exception skips `Perm.set`, does the file stay writable, hence `afaults < 2`.
* `NotRefused`: without a fault and without interference the checks refuse what the file
  system of the target does not have, names with `user.!`, and a list that gives the file
  another mode than the one asked for (where lists come with a mode). That the system
  refuses a list, for the order of its entries say, counts as a failing call.
* `Placed` and `Whole`: when the old file ends early, the rsync decompressor does not
  notice and writes what its buffer has held before (transfer.ml:473-481 ignores what
  reallyRead returns). That the file is then not taken for good is left to its
  fingerprint, which is in `Propagation`.

Met while modelling, and outside these properties: on FreeBSD and Solaris a value that
grows while it is read may be recorded cut off (`ReadWhole` is for Linux and macOS,
which tell); a list of names that grows between the two calls is an error on Linux and
macOS, without another try, and cut off on FreeBSD (props_xattr.c:634), which the model
has but no property speaks of; on Windows a region is copied in whole clusters, one more than needed
(copy_stubs.c:392, 405).

### 3.6 Findings

Each of these runs checks one statement of the sources or of the manual, and TLC
shows what the code does instead.

* `ArchiveCommit_gui`: an optimistic load keeps the archive in memory if the file is the
  one that `archiveInfoCache` names ("The archive is unchanged", update.ml:875). But
  propagation changes the archive in memory and not this cache. The trace: a complete
  commit; a propagation that changes memory on one host only; the connection is lost
  before the commit; both processes live on (socket server, graphical client, which
  offers to scan again after a fatal error, uigtk3.ml:4636-4643); the next load finds
  both files unchanged, and the run starts from two different archives. A text client
  ends with its connection, and its server then answers alone from memory, so that the
  checksums differ and the load under the locks reads the files (`LoadsAreCoherent`).
* `Propagation_copies`: with `copyonconflict`, choosing a changed source over a target
  that was deleted leaves the new contents under the name of the conflict copy and
  nothing at the path, but the archives record the path as synchronized
  (manual, line 1029). `ArchiveTrue` fails; `ArchiveKnown`, where a conflict copy
  counts, holds.
* `FileWatch_link`: for a link that is followed the client sends LINK and then, when it
  scans the directory, DIR for the same path; DIR watches the path without following
  links (watchercommon.ml:531), so the watch of the target is released for one of the
  link itself, although fswatch.ml:50 says that the target is monitored. The trace: a file
  that was looked at during the scan is changed before the scan ends; no event tells of
  it. If the directory is then checked once more (update.ml:1485-1487, fileinfo.ml:240 and
  81-95) LINK is sent again and the target is watched from there on, but what was changed
  meanwhile stays unreported; for a new directory (update.ml:1958-1965), or one in which a
  file was created or deleted, it is not sent again, and the target is not watched until
  the next scan. The model takes either (`WatchDirectory`, `Done`).

Four more observations have no run of their own:

* On Solaris, LINK and DIR for one path make one watch after the other with the same
  identifier. An event of the first that was fetched before DIR names an object whose
  address the second may have been given; processing it frees that object while it is
  associated. (TLC finds this in eight steps as a violation of `ObjectsOwned` on the
  instance of `FileWatch_link`.)
* With `-ignorearchives` `findUpdates` does no recovery, so a commit may begin with a
  new archive left by an earlier crash, against the invariant of update.ml:1068; a
  second crash leaves two new archives of different commits.
* `doArchiveCrashRecovery` asks for main archives before it makes them, and stops with
  "The archive file is missing on some hosts" (update.ml:1151) when none is missing any
  more. The next run works.
* After a stop, `completed` (uicommon.ml:709) ends the wait when one task is left, on the
  assumption that it is the dispenser. It may be an item, and the archives are then
  written while it is still being propagated. What the archives say stays true
  (`ArchiveKnown`), as `prepareCommit` sees the memory between two commands.

And in the event loop on Windows:

* When `accept` finds no connection (EAGAIN), its event object has been closed already; if
  `win_register_wait` then fails (lwt_unix_impl.ml:192), the exception leaves the loop and
  the closed object stays in the list. In the first loop this ends the program. In a loop
  inside another one only the thread that called `run` gets the exception, and the next
  wait fails the assertion of lwt_unix_impl.ml:235.
* The index that `win_wait` returns is used after threads have run. One of them may enter
  the loop again, and the loop inside it handle the same event: then `List.nth` fails an
  assertion (lwt_unix_impl.ml:246), or another socket is looked at. TLC finds this
  in the model, where it is the step `NoSuchEvent` or a `Dispatch` of another socket.
* A result that arrived before the loop was entered again is handed on when the loop
  inside ends (`Held`). If what that loop waits for depends on it, neither comes.
* Without consequence for the properties: `win_wait` computes a timeout `t2` and waits
  with `t`; when `win_check_connection` fails before its last call the event object stays
  open (`Dispatch(FALSE)`); the changes of a directory are parsed in a buffer that has
  just been released (harmless, as no thread runs in between: `DataIn`).

### 3.7 Fairness

`FairSpec` of `ArchiveCommit`: weak fairness of each client's next step, of each
host's next command, and of a process noticing that its connection is gone. A
process that is alive executes what it was sent, since the event loop of `lwt`
polls every descriptor, and a client goes on when all answers are there. There is
no fairness of starting, committing, or deleting lock files: those are up to
users. A host whose process was killed need not answer; the client then loses its
connection.

`FairSpec` of `Propagation`: weak fairness of `Proceed`, all that the processes of a
run do by themselves once it was started. There is no fairness of starting a run: repeat
mode starts the next one after a run that ended normally (`synchronizeUntilDone`,
uitext.ml:1490-1500), but the program exits after a fatal error, a failed commit or a
lost connection (`noRepeat`, uitext.ml:1699-1738), and nothing but the user starts it
again. That there are more runs is therefore a premise in `Settles`, not an assumption of
fairness. Nor is there any of `RemoveLog`: a commit log stops all later runs, on purpose,
until a user removes it. Changes by others, faults and stops are bounded.

`FairSpec` of `AsyncIO`: the loop runs, and every operation in the kernel or at the head
of a helper thread's queue ends, with success or an error, as when the peer answers or
is lost. Threads need not start anything, events need not be signaled, and a loop inside
another one need not end.

`FairSpec` of `Watchers`: the program reads the events there are and its delays end; the
client ends the scans it began, waits or is answered, and asks. Other programs, RESET,
and going on without an answer have no fairness.

`FairSpec` of `FileCalls`: the system calls return. Other programs' changes have no
fairness, and are bounded.

## 4. What is proved

TLAPS checks these theorems for all values of the constants that satisfy the
named assumptions: any number of hosts, clients, processes, paths and contents,
any bounds, any subset of the faults.

| Theorem | Module | States |
| --- | --- | --- |
| `TypeCorrect` | `ArchiveCommitProofs` | `Spec => []TypeOK` |
| `LocksAreHeld`, `MutualExclusion` | `ArchiveCommitProofs` | `[]LocksHeld`, `[]OneWriter` |
| `CrashRecovery`, `JointCommit` | `ArchiveStoreProofs` | `[]Coherent`, `[]Protocol` |
| `AtomicStore` | `ArchiveStoreProofs` | `Spec => StoreSpec`, the refinement of `ArchiveStore` |
| `LoadsAreStored`, `LoadsAreCoherent` | `ArchiveStoreProofs` | `Spec => LoadsStored`, `Spec => LoadsCoherent` |
| `TypeCorrect`, `LockExcludes` | `LockFileProofs` | `[]TypeOK`, `[]OneHolder` |
| `LockImplementsService` | `LockFileProofs` | `Spec => ServiceSpec`, the refinement of `LockService` |
| `TypeCorrect`, `LogIsKept` | `PropagationProofs` | `[]TypeOK`, `[]LogTells` |
| `OnlyFinalContents` | `PropagationProofs` | `Spec => OriginalOrFinal` |
| `ArchiveKnowsReplicas` | `PropagationProofs` | `[]ArchiveKnown` |
| `NothingIsLost` | `PropagationProofs` | `Spec => NoLoss` |
| `InductiveInvariant` | `AsyncIOProofs` | `[](IInv /\ Sockets)` |
| `ResultsMatch`, `ResultsOwn` | `AsyncIOProofs` | `[]Matched`, `[]OwnResult` |
| `SocketsLive` | `AsyncIOProofs` | `[]WaitsForLive` |
| `TypeCorrect` | `AsyncIOProofs` | `[]TypeOK` |
| `CopyInvariant`, `BytesPlaced`, `CopyWhole` | `FileCallsProofs` | `[]CopyInv`, `[]Placed`, `[]Whole` |
| `ModeIsKept` | `FileCallsProofs` | `[]ModeKept` |
| `ValuesAreWhole`, `OthersUntouched` | `FileCallsProofs` | `[]ReadWhole`, `[]OnlySynced` |
| `AclInvariant` | `FileCallsProofs` | `[]AclInv` |
| `PropertiesApplied`, `NothingRefused` | `FileCallsProofs` | `[]Applied`, `[]NotRefused` |
| `TypesKept` | `FileCallsProofs` | `[]TypeOK` |
| `TypeCorrect`, `Owned`, `PortCounts` | `WatchersProofs` | `[]TypeOK`, `[]ObjectsOwned`, `[]PortsCounted` |
| `NothingLost` | `WatchersProofs` | `[]NoChangeLost` |

**Locks.** `LocksHeld` is inductive together with `TypeOK` and `Releasing`, which says
what `undo` contains in each phase (`LockInv`). The point that needs care is a lock
that was refused: the client must not release it, so `undo` is `Hosts \ refused`.
It holds with any number of clients at once and with `-ignorearchives`.

**Recovery.** `Coherent` is not inductive: that recovery finds coherent files depends
on what the client believes. `CommitInv == LockInv /\ Coherent /\ Protocol` is. The
parts of `Protocol` say that no new archive is left over when a commit begins
(`NoLeftover`), that answers are still true when they are acted upon (`Knowledge`),
what holds while new archives appear and disappear (`Switching`), that commits are
numbered (`Ordered`), and which commands are outstanding (`Bookkeeping`); they speak of
sessions that can still act (`Live`): a client that runs, or a dead one whose servers have
a command to finish. `Alone` keeps these apart: from the moment at which a client
trusts what it has loaded, or works under its locks (`Engaged`), no server of another
session works, and before that, none on a host that has passed the check of the optimistic
load. Alone rests on `LocksHeld`: a server at work holds the lock of its host, which the next
client is refused.

The theorems assume one client at a time (`~Concurrent`: a client starts when no other
runs; servers of dead ones may run on) and `~IgnoreAllowed`; both are needed, as
sections 3.1 and 3.6 tell. The number of sessions is any. `AtomicStore` maps
the files to one state (`Stored`): the only steps that change it are the last
`CommitArchive` of a commit, which a server may also execute after its client was killed, and
the others are stutters, in particular every step of a recovery. The proof takes a
step of session `s` in two parts: what it does for `s` if `s` is live (`HandlerKept`,
`FaultKept`, `ClientKept`), and what it leaves alone of the others (`OthersSame`,
`OthersBehind`, `OthersKept`).

What is loaded depends on memory as well: a server that outlives its client keeps
`archiveInfoCache` and its archives, and an optimistic load believes them.
`LoadInv == CommitInv /\ \A s \in Sessions : MemoryFits(s)` says, phase by phase and as
long as the connection is up and nothing has failed, what is in memory: the file of
the host and a cache that names it (`Fits`) once the host has loaded or written it; a
cache that is at least true of memory (`Sound`) before; during an optimistic load, that
hosts whose answer has come hold the file they named (`AnswersFit`); during a commit, that
memory is what is being written (`WritesFit`). The cache of a server whose last client
died in a recovery may be false. That does no harm because the new client has no cache
itself: it answers with the identity of its file, so that a load in which the server answers
from its cache ends under the locks, where every host reads its file again. `LoadsAreStored`
and `LoadsAreCoherent` follow with `NoLeftover` and `Coherent`. They assume text clients
(`Client \notin Persistent`), which end with their connection: with a graphical one
`LoadsCoherent` is violated (run `ArchiveCommit_gui`). TLC checked `LoadInv` on the instances
of `ArchiveCommit_one` and `ArchiveCommit_orphans` before it was proved.

**Lock files.** `IInv` says that a file has at most one temporary name, that a name
has one user, and that the file of a holder has no temporary name left
(`NamesDiffer`, `OwnName`, `UsersDiffer`), so that no other process can be told that
it has two links. It needs that identifiers differ (`PidAssumption`).

**Propagation.** `Inv` says that an item has a direction (`Directed`), that from its
verification to the rename the temporary file is what was wanted (`Verified`), and
what the log says in each step (`Logged`); `LogIsKept` and `OnlyFinalContents` follow.
`Recorded` adds that whatever a run reads into or writes from an archive is in the
history of both replicas, which gives `ArchiveKnowsReplicas`. `Guarded` adds that
between the check of the target and its replacement the target is what was
reconciled, or was touched by others, and that what is replaced by the default
action is what the archive says; since the other replica has had that too
(`Recorded`), nothing is lost.

**Event loop.** `IInv` of `AsyncIOProofs` has two layers. The first is about what is
handed out: registered operations have different tickets and buffers, no available
buffer is registered or listed twice (`Owned`, `Available`), and the identifiers that are
not in use are in the table from `lastId` on, each once (`IdsFree`, for some size of the
table, which `acquire_id` doubles; that `lastId` is the number of identifiers in use is
part of it). The second follows each operation: it is in the kernel, on a helper
thread, in the first queue or in the second, in one of them only and there once
(`Once`); then it is registered under its identifier and its thread waits
(`Registered`); its data are in its buffer before it is performed and where they belong
after (`Progress`, `Result`). None of these is inductive alone: that two results do not
meet under one identifier rests on the table, and the table on nothing being released
twice, that is, on `Once`. `Stacked` says how the results are divided among the loops:
the numbers that the loops on the stack hold do not decrease towards the inner ones, so
that a loop that goes on finds its own results first.

`WaitsForLive` rests on `Sockets`: the event objects in the list are different, and those
that are not in `left` are open, as one that is dispatched leaves the list or is replaced
in the same step. `TypeOK` bounds identifiers and the queues: for that the invariant counts
every operation, event object and loop (`Bounds`), so that no more identifiers and buffers
are in use than there are operations, and the table is at most twice as large.

**Folds.** The code goes through lists, and the modules model that by the folds of the
community modules, which are recursive functions over sets of indices. `FoldLemmas`
proves, by well-founded induction on the subsets of a finite set, that such a recursive
function exists and is unique (`FoldExists`, `FoldUnique`) and states induction over a
finite set and over an interval (`SubsetInduction`, `IntervalInduction`). With them
the sum of the sizes of attributes (`Sum`), the filter of event objects (`Others` of
`AsyncIO`) and the entries of a list (`FilteredFold`, `DroppedFold`) are reasoned about
step by step. `FoldWithin` is for a fold whose operation is defined on good values only:
if every step leads from a good value to a good one, the fold exists and is good. That is
how the loops of the watching program are reasoned about.

**Copies.** `CopyInv` says of every byte that has been put that it belongs there, and of
every byte that waits in the buffer that it will (`Contents`); that the pieces still to
come start at an offset `s` of the target (`At`); and how the offset of the output, the
buffer and the piece relate to `s` in each phase (`Phase`). That is what "file offsets must
not have been changed at failure" (copy_stubs.c) amounts to: a call that fails leaves
`outPos = s + copied`. Sizes, chunks and clusters are any numbers; once the file was
changed by another program the target may hold zeros, or, with rsync, any bytes. The
reading loop may end early only if the file was changed.

**Modes.** `ModeSafe`: between `stat` and setting the mode back, the mode the file should
have is the one that was remembered. Before `Perm.set` the mode may be another one, but
then a call has failed; at the end it may be another one only if two have.

**Attributes.** `XattrInv` has the types, that every value read was there at some time
(`Recorded`), and `ReadWhole` and `OnlySynced` themselves; it holds for all names and
whatever fails. `XattrWork` follows the work of getXattrs, readAll and setXattrs on a file
that other programs leave alone:

* what is read are whole values of attributes the file has (`ReadsWhole`), and one that is
  not read was left out by a failing call, by a second one if the target is read once more
  and the attribute should not be there (`ReadsAll`);
* what was recorded of the source is what it has and what is read of it again, as long as
  no call failed (`Agreement`);
* attributes of the target that were not agreed on are among those that were read or will
  be removed, unless a call failed (`Removal`);
* if nothing failed at all, what was agreed on is on the target or still to be written,
  and no exception is raised (`Work`);
* and `AttrsApplied` itself: `similar` has compared the sizes, the numbers and the entries,
  so whatever happened before, what was read last is what was recorded.

It needs that different attributes have different names in the archive (`NamesDiffer`),
which holds for all but those that begin with `user.!`, for which `OnlySynced` needs instead
that the attribute such a name is taken for is synchronized as well (`OtherName`).

**Lists.** `AclInv`: the text is that of the source's list (`AclWork`), and the lists are
what the system can have; on Windows a file's own entries, then those it inherits
(`TheLists`). Setting a list from the text of a list gives one that has that text
(`SetAsAsked`), and lists that have the same text have the same entries of their own
(`TextsTell`); on Windows this rests on deleting the inherited entries from the last to
the first (`DropsInherited`, for any number of entries). A failing check has a reason:
`AclWork` names it for the stage `failed`, and what it says of the mode needs `ModeSafe`, so
`AclInv` is shown to be inductive together with it. For FreeBSD and POSIX it rests on the
assumption `BsdTexts` of `Acls`, which has no parameters: it says what `postprocess_acl_os`
computes, of all lists of up to two entries, and TLC evaluates it at the start of every run of
`FileCalls`. It is no assumption about the environment but a finite computation the
provers cannot do. With the "d" left in its place when "D" and "d" are reordered, it is
false.

**Watching.** The theorems about `Watchers` assume `~Follow`: with a link that is followed
`NoChangeLost` and, on Solaris, `ObjectsOwned` do not hold (section 3.6). `TypeInv` is about the
memory of the program. `Own` says of a set of entries that they have different objects and
names, that the objects on the heap are theirs and no others, that only they are associated
or have events waiting (`Told`), that the ports count them (`Counted`), and that they carry
the present identifier (`Stamped`). Each operation of solaris/watcher.ml is shown to keep it
for the entries that are left: releasing a watch or making one goes through all entries,
and `Own` holds after each. `Fetched` is what makes stale events harmless: of those that were
fetched with the present identifier, each is of an entry of the watch that is not
associated, so processing it frees or renews an object to which nothing else refers. That
`process_ev_list` takes the event of the directory last is needed here (`InOrder`).

`NoChangeLost` needs, for each system, where the news of a change is (`ChangeInv`). On Linux,
the last event in the queue about a file tells whether it exists (`QueueInv`), and a file that
was not seen as it is has an event the program will not leave out, or an overflow is on its
way (`Fresh`), after which the client scans everything. On Solaris, the watch lists the files
there are unless an event of the directory waits or has been fetched, every entry is
associated or has such an event (`Complete`), and without a watch the client is to scan or is
told (`Awake`). TLC checked the invariant on the instance of the run before it was proved.
The names are any finite set; there must be an address for each object (`PortAssumption`).

Only model-checked:

* liveness (`RunsEnd`, `Settles`, `Answered`, `Ends`), which needs ENABLED;
* `LoadsCoherent` with two clients at once, without faults (`ArchiveCommit_two`);
* the properties of `Watchers` for a link that is followed, where the code violates two;
* what the text functions of `Acls` compute (`BsdTexts`);
* the findings.

## 5. What is not modelled

Reconciliation of trees and its preferences, the fast check of update detection,
regions and the task dispenser's limits, the queue of equal transfers, flow
control and message framing, moves, properties within `Propagation`, backups and
merge programs. Of file system watching, subdirectories, several replicas and the
watcher for Windows (whose handler closes a handle again after RESET,
fsmonitor/windows/watcher.ml:140); of the C code, pseudo terminals (`pty.c`), the
system calls of Windows (`system_win_stubs.c`), and the hash function of older
compilers (`hash_compat.c`).
`PROJECT.json` lists every component with the reason, and every hazard with the
property that covers it or a note. The main ones left open:

* two runs that overlap in propagation (files.ml:84): no lock is held there;
* `setProp`, which changes properties without a check (files.ml:202);
* a lost connection with two active clients (update.ml:1057), see section 3.1.

Formats, names, times, text and byte arithmetic (rsync, fingerprints) are data
without interaction.

## 6. Plan

Done, in this order, because what the archives say decides what later runs delete:
`ArchiveCommit` and `ArchiveStore`, `LockFile` and `LockService`, `Propagation`, and
their proofs; then the parts that deal with the operating system: `AsyncIO` and its
proofs, `FileWatch` with `Inotify` and `EventPorts`, `FileCopy`, `Xattrs` and `Acls`, and the
proofs about these.

Next:

1. `Reconcile` (recon.ml 290-845): update trees of bounded depth, the recursion as
   recursive functions, the filters of preferences in their order; checked against a
   reference definition of "who wins" over all small trees. Properties: no update is
   dropped; a path is either an item, or equal, or unchanged; a preference never
   produces a direction that a more specific one forbids. Lemmas about the filters.
2. `TaskPool` and `Region` (lwt_util.ml 20-88, transport.ml 38-84, uicommon.ml
   702-760, abort.ml): capacity, queue, purge on a lost connection, dispenser with
   deletions last, error limits. Properties: the count never exceeds the capacity;
   no thread is forgotten; the wait ends. To prove: the counter equals the number
   of holders.
3. `TransferQueue` (copy.ml 876-919): equal contents are transferred once; each end
   of a transfer, failed or not, wakes the next. Deadlock freedom and liveness; a
   refinement of an abstract "one at a time per fingerprint".
4. `FlowControl` (remote.ml 279-470, 1572-1644): write tokens of half-duplex
   connections. To prove: at most one side may write; model-checked: no deadlock.
5. `Detection` (update.ml fast check, fpcache.ml): time stamps of bounded resolution,
   `markPossiblyUpdated`, the mount point guard. Property: a change is missed only in
   the documented case.
6. `Propagation`, extended by properties (`setProp`, with `FileCalls` as its steps),
   directories copied in part, and two runs at once.
7. `Watchers`, extended by subdirectories and the watcher for Windows on top of `AsyncIO`.
8. Proofs: `LoadsCoherent` with clients at once and no drops; the lemmas and invariants of 1 to 4.
