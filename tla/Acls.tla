-------------------------------- MODULE Acls --------------------------------
(***************************************************************************)
(* The access control list of a file (props_acl.c), which is read as a     *)
(* text on one replica and set from that text on the other (props.ml,      *)
(* ACL), and the properties set before it that bear on the mode: the       *)
(* Finder information of Darwin (osxsupport.c) and the permissions.        *)
(*                                                                         *)
(* A list is a sequence of entries, and on Windows also a flag that the    *)
(* entries of the directory above are not inherited.  An entry of FreeBSD  *)
(* tells who it is for and three of its permissions, "p", "D" and "d"; a   *)
(* POSIX one whether the text has a comment on the effective permissions.  *)
(***************************************************************************)
EXTENDS Integers, SequencesExt

CONSTANTS
  AclSystems,   \* the systems that are considered
  MaxChmods,    \* other programs change the mode of the target that often
  MaxAclEdits,  \* and its list
  MaxAclFaults  \* so many system calls fail

ASSUME AclConstants == MaxChmods \in Nat /\ MaxAclEdits \in Nat /\ MaxAclFaults \in Nat

VARIABLES
  asys,       \* the operating system
  supported,  \* whether the file system of each file has lists
  acl,        \* the lists of the two files
  above,      \* what the target inherits (Windows)
  perm,       \* the mode of the target
  saved,      \* the mode as stat has reported it
  wanted,     \* the mode it was last given to keep: by Perm.set, with a list,
              \* or by another program
  asked,      \* the mode that is asked for
  chmods,     \* how often another program changed the mode
  edited,     \* how often another program changed the target's list
  astage,     \* what Unison does
  text,       \* the text of the source's list
  afaults     \* how many system calls failed

aclvars == <<asys, supported, acl, above, perm, saved, wanted, asked, chmods, edited,
             astage, text, afaults>>

Modes == {"readonly", "writable"}

-----------------------------------------------------------------------------
(* The lists of each system.                                               *)
UpToTwo(S) == {<<>>} \cup {<<e>> : e \in S} \cup {<<e, f>> : e \in S, f \in S}

NFS4 == [who : {"owner", "user"}, p : BOOLEAN, D : BOOLEAN, d : BOOLEAN]
POSIX == [who : {"mask", "user"}, effective : BOOLEAN]

Entries == CASE asys = "freebsd" -> NFS4 [] asys = "posix" -> POSIX [] OTHER -> [id : 1..2]

Explicit(e) == [id |-> e.id, inherited |-> FALSE]
Inherited(e) == [id |-> e.id, inherited |-> TRUE]

Lists ==
  IF asys = "windows"
  THEN {[protected |-> p,
         entries |-> [i \in DOMAIN s |-> Explicit(s[i])]
                     \o IF p THEN <<>> ELSE [i \in DOMAIN t |-> Inherited(t[i])]] :
          p \in BOOLEAN, s \in UpToTwo(Entries), t \in UpToTwo(Entries)}
  ELSE {[protected |-> FALSE, entries |-> s] : s \in UpToTwo(Entries)}

Trivial == [protected |-> FALSE, entries |-> <<>>]

(* What the target may have at first.                                      *)
FewLists ==
  IF asys = "windows" THEN {l \in Lists : Len(l.entries) <= 2}
  ELSE {Trivial, [Trivial EXCEPT !.entries = <<CHOOSE e \in Entries : TRUE>>]}

(* Those of the entries that are inherited, or the others.                 *)
Filtered(entries, inherited) ==
  FoldLeft(LAMBDA s, e : IF e.inherited = inherited THEN Append(s, e) ELSE s, <<>>, entries)

-----------------------------------------------------------------------------
(* acl_to_text_np of FreeBSD: a line for each entry.                       *)
Letter(b, c) == IF b THEN c ELSE "-"

Line(e) ==
  IF e \in NFS4
  THEN (IF e.who = "owner" THEN <<"owner", "@", ":">> ELSE <<"user", ":", "name", ":">>)
       \o <<Letter(e.p, "p"), Letter(e.D, "D"), Letter(e.d, "d"), "a", ":", "f", ":", "deny", "\n">>
  ELSE <<e.who, ":", "name", ":", "r">>
       \o (IF e.effective THEN <<"\t", "#", "effective", ":", "r">> ELSE <<>>) \o <<"\n">>

SystemText(entries) == FlattenSeq([i \in DOMAIN entries |-> Line(entries[i])])

(* postprocess_acl_os goes through the text, changing it in place: the     *)
(* letters "D" and "d" get the order of illumos, new lines become commas,  *)
(* comments and blanks go.                                                 *)
Blank == {" ", "\t"}

Swap(at, next, last) ==
  CASE at = "D" /\ last # "d" /\ next = "d" -> <<last, "d", "D">>
    [] at = "D" /\ last # "d" /\ next = "-" -> <<last, "-", "D">>
    [] at = "d" /\ last = "-" /\ next \notin {"D", "end"} -> <<"d", "-", next>>
    [] at = "d" /\ last \notin {"-", "d"} /\ next = "-" -> <<last, "-", "D">>
    [] OTHER -> <<last, at, next>>

Postprocess(s) ==
  LET Step(st, i) ==
        LET at == st.s[i]
            next == IF i < Len(s) THEN st.s[i + 1] ELSE "end"
            permissions == at \in {"D", "d"} /\ st.fields = 2
            swapped == IF permissions THEN Swap(at, next, Last(st.buf)) ELSE <<"", at, next>>
            comment == (st.comment \/ at = "#") /\ at # "\n"
            char == IF at # "\n" THEN swapped[2] ELSE IF next # "end" THEN "," ELSE " "
            kept == IF permissions THEN Front(st.buf) \o <<swapped[1]>> ELSE st.buf
        IN [s |-> IF i < Len(s) THEN [st.s EXCEPT ![i + 1] = swapped[3]] ELSE st.s,
            buf |-> IF char \in Blank \/ comment THEN kept ELSE Append(kept, char),
            fields |-> IF at \in {",", "\n"} \/ permissions THEN 0
                       ELSE IF at \in {"@", ":"} /\ ~comment THEN st.fields + 1 ELSE st.fields,
            comment |-> comment]
  IN FoldLeft(Step, [s |-> s, buf |-> <<>>, fields |-> 0, comment |-> FALSE],
              [i \in 1..Len(s) |-> i]).buf

(* The text that acl_from_text makes an entry of.                          *)
Field(e) ==
  IF e \in NFS4
  THEN (IF e.who = "owner" THEN <<"owner", "@", ":">> ELSE <<"user", ":", "name", ":">>)
       \o <<Letter(e.p, "p"), Letter(e.d, "d"), Letter(e.D, "D"), "a", ":", "f", ":", "deny">>
  ELSE <<e.who, ":", "name", ":", "r">>

CommonText(entries) ==
  FlattenSeq([i \in DOMAIN entries |->
                Field(entries[i]) \o IF i < Len(entries) THEN <<",">> ELSE <<>>])

(* The text of each list, and what acl_from_text understands.              *)
BsdLists == UpToTwo(NFS4) \cup UpToTwo(POSIX)
BsdText == [s \in BsdLists |-> Postprocess(SystemText(s))]
BsdParsed == [s \in BsdLists |-> CommonText(s)]

(* What these functions compute, which has no parameters: acl_from_text    *)
(* understands the text that postprocess_acl_os makes of a list, and the   *)
(* texts tell lists apart (but for comments on effective permissions).     *)
Texts(lists) == {[of |-> s, text |-> BsdText[s]] : s \in lists}

ASSUME BsdTexts ==
  /\ \A s \in BsdLists : BsdParsed[s] = BsdText[s]
  /\ \A x, y \in Texts(UpToTwo(NFS4)) : x.text = y.text => x.of = y.of
  /\ \A x, y \in Texts(UpToTwo(POSIX)) : x.text = y.text =>
       [i \in DOMAIN x.of |-> x.of[i].who] = [i \in DOMAIN y.of |-> y.of[i].who]

(* Mutant: from the first to the last.                                     *)
DropInheritedForward(entries) ==
  FoldLeft(LAMBDA s, i : IF i <= Len(s) /\ s[i].inherited THEN RemoveAt(s, i) ELSE s,
           entries, [i \in DOMAIN entries |-> i])

(* Windows: the inherited entries are deleted, from the last to the first. *)
DropInherited(entries) ==
  FoldLeft(LAMBDA s, i : IF i <= Len(s) /\ s[i].inherited THEN RemoveAt(s, i) ELSE s,
           entries, [i \in DOMAIN entries |-> Len(entries) + 1 - i])

NotSupported == [kind |-> "-1"]
Empty == [kind |-> "empty"]
Text(b) == [kind |-> "text", body |-> b]

(* unison_acl_to_text of Windows: a list without entries is the trivial    *)
(* one, unless it is protected.                                            *)
WindowsText(l) ==
  LET own == DropInherited(l.entries) IN
  IF own = <<>> /\ ~l.protected THEN Empty
  ELSE Text([protected |-> l.protected, entries |-> own])

(* unsn_acl_to_text_os                                                     *)
UnixText(entries) == IF asys \in {"freebsd", "posix"} THEN BsdText[entries] ELSE entries

IsTrivial(entries) == entries = <<>>

(* unison_acl_to_text of a file                                            *)
ToText(f) ==
  IF ~supported[f] THEN NotSupported
  ELSE IF asys = "windows" THEN WindowsText(acl[f])
  ELSE IF IsTrivial(acl[f].entries) THEN Empty
  ELSE Text(UnixText(acl[f].entries))

(* Mutant: a list that is not protected is not said to be unprotected.     *)
WindowsListsKeep(t, inherits) ==
  LET p == acl["target"].protected \/ (t # Empty /\ t.body.protected)
      own == IF t = Empty THEN <<>> ELSE t.body.entries
  IN  {[protected |-> p, entries |-> own \o IF p THEN <<>> ELSE inherits]}

(* unison_acl_from_text of Windows; unless the list is protected, the      *)
(* system adds what the file inherits.                                     *)
WindowsLists(t, inherits) ==
  LET p == t # Empty /\ t.body.protected
      own == IF t = Empty THEN <<>> ELSE t.body.entries
  IN  {[protected |-> p, entries |-> own \o IF p THEN <<>> ELSE inherits]}

(* unsn_acl_from_text_os                                                   *)
Parsed(b) ==
  IF asys \in {"freebsd", "posix"}
  THEN {s \in UpToTwo(Entries) \ {<<>>} : BsdParsed[s] = b} ELSE {b}

(* unison_acl_from_text: the lists a text may stand for                    *)
FromText(t, inherits) ==
  IF asys = "windows" THEN WindowsLists(t, inherits)
  ELSE IF t = Empty THEN {Trivial}
  ELSE {[protected |-> FALSE, entries |-> s] : s \in Parsed(t.body)}

-----------------------------------------------------------------------------
AclInit ==
  /\ asys \in AclSystems /\ supported \in [{"source", "target"} -> BOOLEAN]
  /\ acl \in [{"source", "target"} -> Lists] /\ acl["target"] \in FewLists
  /\ \A f \in {"source", "target"} : ~supported[f] => acl[f] = Trivial
  /\ above = IF asys = "windows" THEN Filtered(acl["target"].entries, TRUE) ELSE <<>>
  /\ perm \in Modes /\ wanted = perm /\ saved = perm /\ asked \in Modes
  /\ chmods = 0 /\ edited = 0
  /\ astage = "read" /\ text = Empty /\ afaults = 0

Target == <<acl, perm, wanted>>
Environment == <<asys, supported, above, asked, chmods, edited>>

Go(s) == astage' = s /\ UNCHANGED <<Environment, text>>

(* A system call fails.                                                    *)
AclFault == afaults < MaxAclFaults /\ afaults' = afaults + 1

Raise == Go("failed") /\ AclFault

(* The text of the source is recorded.                                     *)
ReadText ==
  /\ astage = "read"
  /\ \/ /\ text' = ToText("source") /\ UNCHANGED <<Environment, afaults>>
        /\ astage' = IF asys = "darwin" THEN "finder" ELSE "perm"
     \/ Raise
  /\ UNCHANGED <<Target, saved>>

(* setFileInfos: the Finder information of a file that is read-only cannot *)
(* be set, so it is made writable for the time being.                      *)
SetFinder ==
  /\ astage = "finder"
  /\ \/ perm = "writable" /\ Go("perm") /\ UNCHANGED <<saved, afaults>>
     \/ perm = "readonly" /\ saved' = perm /\ Go("chmod") /\ UNCHANGED afaults
     \/ Raise /\ UNCHANGED saved
  /\ UNCHANGED Target

MakeWritable ==
  /\ astage = "chmod"
  /\ \/ perm' = "writable" /\ Go("retry") /\ UNCHANGED afaults
     \/ Raise /\ UNCHANGED perm
  /\ UNCHANGED <<acl, wanted, saved>>

Retry ==
  /\ astage = "retry" /\ Go("restore")
  /\ UNCHANGED afaults \/ AclFault
  /\ UNCHANGED <<Target, saved>>

(* Mutant: only if that worked.                                            *)
RestoreIfSet ==
  /\ astage = "restore"
  /\ \/ perm' = (IF afaults > 0 THEN perm ELSE saved) /\ UNCHANGED afaults
     \/ AclFault /\ UNCHANGED perm
  /\ Go(IF afaults > 0 THEN "failed" ELSE "perm")
  /\ UNCHANGED <<acl, wanted, saved>>

(* "Whether or not that worked, we should try to set the mode back."       *)
(* Whether that worked is not looked at.  (No other call has failed until  *)
(* then.)                                                                  *)
Restore ==
  /\ astage = "restore"
  /\ \/ perm' = saved /\ UNCHANGED afaults
     \/ AclFault /\ UNCHANGED perm
  /\ Go(IF afaults > 0 THEN "failed" ELSE "perm")
  /\ UNCHANGED <<acl, wanted, saved>>

(* Perm.set; the system may replace the list.                              *)
SetPerm ==
  /\ astage = "perm"
  /\ \/ /\ perm' = asked /\ wanted' = asked /\ UNCHANGED afaults
        /\ acl' \in {acl} \cup IF asys = "windows" THEN {} ELSE {[acl EXCEPT !["target"] = Trivial]}
        /\ Go(CASE text = NotSupported -> "look"
                [] text = Empty /\ asys = "solaris" -> "stat"
                [] OTHER -> "set")
     \/ Raise /\ UNCHANGED Target
  /\ UNCHANGED saved

(* Where lists come with a mode, setting one may change it.                *)
ModeOfList == IF text # Empty /\ asys \notin {"darwin", "windows"} THEN Modes ELSE {perm}

(* Setting the list from the text, or removing it, on a file system that   *)
(* has lists.  It may be refused, for the order of the entries or for      *)
(* another reason; an error of removing it is not noticed on FreeBSD and   *)
(* Darwin.                                                                 *)
SetAcl ==
  /\ astage = "set" /\ supported["target"]
  /\ LET lists == FromText(text, above) IN
     \/ /\ \E l \in lists : acl' = [acl EXCEPT !["target"] = l]
        /\ perm' \in ModeOfList /\ wanted' = perm'
        /\ Go("look") /\ UNCHANGED afaults
     \/ lists = {} /\ Go("failed") /\ UNCHANGED <<Target, afaults>>
     \/ /\ IF text = Empty /\ asys # "windows" THEN AclFault /\ Go("look") ELSE Raise
        /\ UNCHANGED Target
  /\ UNCHANGED saved

(* On one that has none, FreeBSD raises an exception; elsewhere an error   *)
(* of the call may go unnoticed.                                           *)
SetUnsupported ==
  /\ astage = "set" /\ ~supported["target"]
  /\ \/ Go("failed")
     \/ asys \notin {"freebsd", "posix"} /\ Go("look")
  /\ UNCHANGED <<Target, saved, afaults>>

(* Solaris strips the list with the mode stat has reported.                *)
StatForStrip ==
  /\ astage = "stat"
  /\ \/ saved' = perm /\ Go("strip") /\ UNCHANGED afaults
     \/ Raise /\ UNCHANGED saved
  /\ UNCHANGED Target

StripAcl ==
  /\ astage = "strip"
  /\ \/ /\ acl' = [acl EXCEPT !["target"] = Trivial] /\ perm' = saved
        /\ Go("look") /\ UNCHANGED afaults
     \/ ~supported["target"] /\ Go("failed") /\ UNCHANGED <<acl, perm, afaults>>
     \/ Raise /\ UNCHANGED <<acl, perm>>
  /\ UNCHANGED <<wanted, saved>>

(* check, in fileinfo.ml, looks at the file, and then compares its list...  *)
LookAgain ==
  /\ astage = "look"
  /\ \/ saved' = perm /\ Go("check") /\ UNCHANGED afaults
     \/ Raise /\ UNCHANGED saved
  /\ UNCHANGED Target

(* ...with the text that was asked for, and the mode with the one asked    *)
(* for.                                                                    *)
CheckAcl ==
  /\ astage = "check"
  /\ \/ /\ Go(IF (text = NotSupported \/ ToText("target") = text) /\ saved = asked
              THEN "ok" ELSE "failed")
        /\ UNCHANGED afaults
     \/ text # NotSupported /\ Raise
  /\ UNCHANGED <<Target, saved>>

Chmod ==
  /\ chmods < MaxChmods /\ astage \notin {"ok", "failed"}
  /\ perm' \in Modes \ {perm} /\ wanted' = perm' /\ chmods' = chmods + 1
  /\ UNCHANGED <<asys, supported, acl, above, saved, asked, edited, astage, text, afaults>>

EditAcl ==
  /\ edited < MaxAclEdits /\ astage \notin {"ok", "failed"} /\ supported["target"]
  /\ acl' = [acl EXCEPT !["target"] = [Trivial EXCEPT !.entries = above]]
  /\ edited' = edited + 1
  /\ UNCHANGED <<asys, supported, above, perm, saved, wanted, asked, chmods, astage, text, afaults>>

AclStep ==
  \/ ReadText \/ SetFinder \/ MakeWritable \/ Retry \/ Restore
  \/ SetPerm \/ SetAcl \/ SetUnsupported \/ StatForStrip \/ StripAcl
  \/ LookAgain \/ CheckAcl

-----------------------------------------------------------------------------
AclTypeOK ==
  /\ astage \in {"read", "finder", "chmod", "retry", "restore", "perm", "set",
                 "stat", "strip", "look", "check", "ok", "failed"}
  /\ {perm, saved, wanted, asked} \subseteq Modes /\ afaults \in 0..MaxAclFaults
  /\ \A f \in DOMAIN acl : \A i \in DOMAIN acl[f].entries :
       acl[f].entries[i] \in
         IF asys = "windows" THEN [id : 1..2, inherited : BOOLEAN] ELSE Entries

=============================================================================
