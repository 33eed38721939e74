------------------------------ MODULE FileCalls -----------------------------
(***************************************************************************)
(* One of the jobs Unison does on a file: to copy its contents, to         *)
(* propagate its extended attributes, or its access control list and mode. *)
(* The program is one thread, and none of them waits, so they do not       *)
(* interfere with each other; what interferes is other programs.           *)
(***************************************************************************)
EXTENDS FileCopy, Xattrs, Acls

VARIABLE job

vars == <<job, copyvars, xattrvars, aclvars>>

Ended == {"ok", "failed"}

(* The state of a job that is not the one looked at.                       *)
NoCopy ==
  /\ system = "none" /\ mode = "local" /\ fileLength = 0 /\ pc = "ok"
  /\ pieces = <<>> /\ srcLen = 0 /\ edits = 0 /\ dst = <<>> /\ outPos = 0
  /\ buffer = <<>> /\ inPos = 0 /\ copied = 0 /\ left = 0

NoXattrs ==
  /\ xsys = "none" /\ odd = {} /\ supports = [f \in Files |-> FALSE]
  /\ ignore = FALSE /\ attrs = [f \in Files |-> <<>>]
  /\ stage = "ok" /\ op = "none" /\ names = {} /\ try = NoTry /\ got = {}
  /\ listed = {} /\ agreed = None /\ loaded = {}
  /\ present = {} /\ had = {} /\ touches = [f \in Files |-> 0] /\ faults = 0

NoAcl ==
  /\ asys = "none" /\ supported = [f \in Files |-> FALSE] /\ acl = [f \in Files |-> Trivial]
  /\ above = <<>> /\ perm = "writable" /\ saved = perm /\ wanted = perm /\ asked = perm
  /\ chmods = 0 /\ edited = 0 /\ astage = "ok" /\ text = Empty /\ afaults = 0

Init ==
  \/ job = "copy" /\ CopyInit /\ NoXattrs /\ NoAcl
  \/ job = "xattrs" /\ XattrInit /\ NoCopy /\ NoAcl
  \/ job = "acl" /\ AclInit /\ NoCopy /\ NoXattrs

Copies ==
  job = "copy" /\ (CopyStep \/ Edit) /\ UNCHANGED <<job, xattrvars, aclvars>>
SetsXattrs ==
  job = "xattrs" /\ (XattrStep \/ Touch) /\ UNCHANGED <<job, copyvars, aclvars>>
SetsAcl ==
  job = "acl" /\ (AclStep \/ Chmod \/ EditAcl) /\ UNCHANGED <<job, copyvars, xattrvars>>

Next == Copies \/ SetsXattrs \/ SetsAcl

Spec == Init /\ [][Next]_vars

(* The calls return.  (Those for the list are made once each.)             *)
Fairness ==
  /\ WF_vars(job = "copy" /\ CopyStep /\ UNCHANGED <<job, xattrvars, aclvars>>)
  /\ WF_vars(job = "xattrs" /\ XattrStep /\ UNCHANGED <<job, copyvars, aclvars>>)

FairSpec == Spec /\ Fairness

-----------------------------------------------------------------------------
(* Every variable keeps its type.                                          *)
TypeOK == CopyTypeOK /\ XattrTypeOK /\ AclTypeOK

(* copy_stubs.c: "file offsets must not have been changed at failure.      *)
(* Output file offset must be changed on success", and copy.ml relies on   *)
(* it to go on by reading and writing.  Whatever the systems copy in part, *)
(* refuse or fail at, and whatever strings wait in the buffer, every byte  *)
(* of the target is the one that belongs there.  (A file that is changed   *)
(* during a local copy is copied from where the bytes are then, and what   *)
(* Windows cloned may end in zeros; the rsync decompressor does not look   *)
(* for the end of the old file, and leaves the verdict to the fingerprint  *)
(* of the result.)                                                         *)
Placed ==
  \A i \in 1..outPos :
    dst[i] = Expected(i) \/ (edits > 0 /\ (mode = "rsync" \/ dst[i] = 0))

(* A copy that ends without an error is the whole file, unless the file    *)
(* was changed meanwhile: after a short count copy_file is called again.   *)
Whole == pc = "ok" /\ edits = 0 => dst = [i \in 1..GoalLength |-> Expected(i)]

(* props_xattr.c: "The entire value is returned in full length."  On Linux *)
(* and Darwin, which tell when the buffer is too small, every value that   *)
(* unison_xattr_get returns is one the attribute had, also when it changes *)
(* between asking for the length and reading.                              *)
ReadWhole ==
  xsys \in {"linux", "darwin"} /\ op \in {"length", "content"} =>
    \A x \in got : <<File, Called(x[1]), x[2]>> \in had

SyncedAttrs(f) ==
  {<<k, attrs[f][k]>> : k \in {j \in DOMAIN attrs[f] : Synced(j) /\ attrs[f][j] # Gone}}

OwnEntries(l) ==
  [protected |-> l.protected,
   entries |-> CASE asys = "windows" -> Filtered(l.entries, FALSE)
                 [] asys = "posix" -> [i \in DOMAIN l.entries |-> l.entries[i].who]
                 [] OTHER -> l.entries]

(* Attributes that were propagated without an error are on the target as   *)
(* they were recorded of the source, unless another program changed the    *)
(* target's.  Others stay there only if two calls failed: an attribute     *)
(* whose length cannot be read is left out of a list silently, and that    *)
(* one cannot be removed is not noticed, but the list is read again.       *)
(* Without a failing call or a change of the source, what was recorded is  *)
(* what the source has.  (Names of Linux that begin with user.! are taken  *)
(* for other names.)                                                       *)
AttrsApplied ==
  stage = "ok" /\ agreed # None /\ odd = {} =>
    /\ touches["target"] = 0 => agreed.list \subseteq SyncedAttrs("target")
    /\ touches["target"] = 0 /\ faults < 2 => SyncedAttrs("target") = agreed.list
    /\ touches["source"] = 0 /\ faults = 0 => SyncedAttrs("source") = agreed.list

(* An access control list that was propagated without an error is that of  *)
(* the source, but for what the target inherits, also if other programs    *)
(* change the target's, and although errors of removing a list are not     *)
(* looked at; and the mode is the one asked for, although setting a list   *)
(* may change it.                                                          *)
ListApplied ==
  astage = "ok" /\ asys # "none" =>
    /\ supported["source"] => OwnEntries(acl["target"]) = OwnEntries(acl["source"])
    /\ chmods = 0 => perm = asked

Applied == AttrsApplied /\ ListApplied

(* The paranoid check after setting properties (Props.check) refuses       *)
(* nothing that was set without a failing call and without interference:   *)
(* "the same ACL on different files has the same representation"           *)
(* (props_acl.c), whatever the files inherit and however the system orders *)
(* permissions.  It does refuse what the target's file system does not     *)
(* have, attributes with a name that begins with user.! on Linux, which    *)
(* Unison takes for others, and a list that gives the file another mode.   *)
NotRefused ==
  /\ stage = "failed" =>
       \/ faults > 0 \/ touches["source"] + touches["target"] > 0
       \/ odd # {} \/ ~supports["target"]
  /\ astage = "failed" =>
       \/ afaults > 0 \/ chmods + edited > 0
       \/ ~supported["target"] \/ wanted # asked

(* Attributes of the system and those the user ignores are never written   *)
(* or removed, although the target's attributes that the source does not   *)
(* have are removed.                                                       *)
OnlySynced ==
  touches["target"] = 0 =>
    \A k \in DOMAIN attrs["target"] : ~Synced(k) =>
      {x \in had : x[1] = "target" /\ x[2] = k} = {<<"target", k, attrs["target"][k]>>}

(* A file that is made writable in order to set its Finder information, or *)
(* whose list is stripped with the mode stat has reported, has in the end  *)
(* the mode it was given before, also if one of the calls fails, the one   *)
(* that puts the mode back included; unless another program gives it a     *)
(* mode in between.  (If two fail, it may stay writable.)                  *)
ModeKept == astage \in Ended /\ chmods = 0 /\ afaults < 2 => perm = wanted

(* A copy ends, also when the file shrinks meanwhile: the kernel's copy    *)
(* with a count of 0, the loop of a local copy with the end of the file,   *)
(* the decompressor's without looking for it.  So does the propagation of  *)
(* attributes, also when their values keep changing.                       *)
Ends == <>(pc \in Ended /\ stage \in Ended)

=============================================================================
