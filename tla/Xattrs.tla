------------------------------- MODULE Xattrs -------------------------------
(***************************************************************************)
(* The extended attributes of a file: read when the replicas are compared  *)
(* (props.ml, getXattrs), read again when they are propagated (readAll),   *)
(* set on the target (setXattrs) and checked there; and the calls each     *)
(* system has for it (props_xattr.c).  Other programs change the           *)
(* attributes of the files in the meantime.                                *)
(*                                                                         *)
(* A name is a sequence of the parts it is made of, and an entry of a list *)
(* of attributes is <<name in the system, length or value>>; the name that *)
(* Unison gives it is ValOfAttrname of the first.  A value is a sequence   *)
(* too; one longer than Short is recorded by its digest, for which the     *)
(* value itself stands.                                                    *)
(***************************************************************************)
EXTENDS Integers, Sequences, FiniteSets, FiniteSetsExt

CONSTANTS
  XattrSystems,  \* the systems with attributes that are considered
  Values,        \* the values of the first attribute
  InitialValues, \* those it may have at first on each file
  FewValues,     \* the values of the others
  Short,         \* values up to this length are recorded as they are (32)
  MaxTries,      \* a value is read that often at most (10)
  MaxDisturbances \* so many times other programs change attributes, or calls fail

(* No attribute of that name.                                              *)
Gone == <<-1>>
ASSUME XattrConstants ==
  /\ MaxTries \in Nat \ {0} /\ Short \in Nat /\ MaxDisturbances \in Nat
  /\ InitialValues \in [{"source", "target"} -> SUBSET Values]
  /\ \A v \in Values \cup FewValues : v \in Seq(Nat)

VARIABLES
  xsys,      \* the operating system
  odd,       \* two names, if Unison takes one of them for the other (Linux)
  supports,  \* whether the file system of each file has attributes
  ignore,    \* whether names with "!" are ignored, as they are by default
  attrs,     \* the attributes of the two files
  stage,     \* what Unison does with them
  op,        \* the call it is in
  names,     \* the attributes the call has still to look at
  try,       \* the length asked for, to read that much, and how often
  got,       \* the entries it has
  listed,    \* the list of lengths
  agreed,    \* what was recorded of the source
  loaded,    \* the values that are going to be written
  present,   \* what the target had
  had,       \* every value the attributes ever had
  touches,   \* how often other programs changed each file's attributes
  faults     \* how many system calls failed

xattrvars == <<xsys, odd, supports, ignore, attrs, stage, op, names, try, got,
               listed, agreed, loaded, present, had, touches, faults>>

Files == {"source", "target"}

-----------------------------------------------------------------------------
(* Linux: "user." is dropped, and "!" put before the other name spaces;    *)
(* the other systems have the names as they are.                           *)
Kernel ==
  IF odd # {} THEN odd
  ELSE CASE xsys = "linux" -> {<<"user", "a">>, <<"trusted", "b">>, <<"system", "c">>}
         [] xsys = "freebsd" -> {<<"a">>, <<"!", "trusted", "b">>}
         [] OTHER -> {<<"a">>, <<"!", "trusted", "b">>, <<"system", "c">>}

ValOfAttrname(k) ==
  IF xsys # "linux" THEN k ELSE IF k[1] = "user" THEN Tail(k) ELSE <<"!">> \o k

AttrnameOfVal(u) ==
  IF xsys # "linux" THEN u ELSE IF u[1] = "!" THEN Tail(u) ELSE <<"user">> \o u

(* The attribute that Unison reads and writes by the name it has for k:    *)
(* another one, if that name begins with user.!                            *)
Called(k) == AttrnameOfVal(ValOfAttrname(k))

OddNames == {{<<"user", "!", "user", "a">>, <<"user", "a">>},
             {<<"user", "!", "trusted", "b">>, <<"trusted", "b">>}}

(* Some attributes belong to the system (none on FreeBSD).                 *)
IsSystem(k) == k[1] = "system"

(* skipIgnoredXattr, with the preferences xattrignore and xattrignorenot.  *)
Ignored(k) == ignore /\ ValOfAttrname(k)[1] = "!"
Kept(entries) == {x \in entries : ~Ignored(x[1])}

Synced(k) == ~IsSystem(k) /\ ~Ignored(k)

(* Entries that are one attribute to Unison; attrlist_mem.                 *)
SameName(x, y) == ValOfAttrname(x[1]) = ValOfAttrname(y[1])
Member(x, entries) == \E y \in entries : SameName(x, y) /\ x[2] = y[2]

(* The file a stage reads.                                                 *)
File == IF stage \in {"source", "load"} THEN "source" ELSE "target"

Value(k) == attrs[File][k]
Present == {k \in Kernel : Value(k) # Gone}

(* Attributes are gone through in the order of their names.                *)
First(S) == CHOOSE x \in S : TRUE

NoTry == [len |-> 0, tries |-> 0]

(* An attribute of the system is always there.                             *)
ValuesOf(k, values) ==
  IF IsSystem(k) THEN FewValues
  ELSE {Gone} \cup IF k[Len(k)] = "a" THEN values ELSE FewValues

XattrInit ==
  /\ xsys \in XattrSystems
  /\ odd \in {{}} \cup IF xsys = "linux" THEN OddNames ELSE {}
  /\ ignore \in BOOLEAN /\ supports \in [Files -> BOOLEAN]
  /\ attrs \in [Files -> [Kernel -> Values \cup FewValues \cup {Gone}]]
  /\ \A f \in Files, k \in Kernel :
       attrs[f][k] \in IF supports[f] THEN ValuesOf(k, InitialValues[f]) ELSE {Gone}
  /\ stage = "source" /\ op = "list" /\ names = {} /\ try = NoTry
  /\ got = {} /\ listed = {}
  /\ agreed = [list |-> {}, size |-> 0] /\ loaded = {} /\ present = {}
  /\ had = {<<f, k, attrs[f][k]>> : f \in Files, k \in Kernel}
  /\ touches = [f \in Files |-> 0] /\ faults = 0

-----------------------------------------------------------------------------
System == <<xsys, odd, supports, ignore>>
Files2 == <<System, attrs, had, touches>>
Results == <<agreed, loaded, present>>
Progress == <<names, try, got, listed>>

(* An exception: the propagation of the properties fails.                  *)
Raises ==
  /\ stage' = "failed" /\ op' = "none"
  /\ UNCHANGED <<Files2, Results, Progress>>

(* A system call fails, for whatever reason.                               *)
Disturbances == touches["source"] + touches["target"] + faults

Fault == Disturbances < MaxDisturbances /\ faults' = faults + 1

(* unsn_length_xattr_os                                                    *)
Length(k) == Len(Value(k))

(* unsn_get_xattr_os: what a buffer of that size gets.  If the value has   *)
(* become longer, Linux and Darwin refuse, and the other systems give the  *)
(* beginning of it.                                                        *)
Refusing == {"linux", "darwin"}
Fits(k, size) == Length(k) <= size \/ xsys \notin Refusing
Content(k, size) == SubSeq(Value(k), 1, Min({Length(k), size}))

Total(entries) == FoldSet(LAMBDA x, n : x[2] + n, 0, entries)

(* The size of a list of names.                                            *)
Size(S) == Total({<<k, Len(k)>> : k \in S})

(* XattrNotSupported: None is recorded of the source, and nothing done; if *)
(* the target has no attributes, nothing is written, and the check fails.  *)
None == [list |-> {}, size |-> -1]

NoAttributes ==
  /\ op = "list" /\ ~supports[File]
  /\ CASE stage = "source" -> stage' = "ok" /\ op' = "none" /\ agreed' = None
       [] stage = "before" -> stage' = "check" /\ UNCHANGED <<op, agreed>>
       [] OTHER -> stage' = "failed" /\ op' = "none" /\ UNCHANGED agreed
  /\ UNCHANGED <<Files2, loaded, present, Progress, faults>>

(* unsn_list_xattr_aux asks for the size of the list of names...           *)
ListSize ==
  /\ op = "list" /\ supports[File]
  /\ \/ /\ op' = IF Present = {} THEN "lengths" ELSE "names"
        /\ try' = [NoTry EXCEPT !.len = Size(Present)]
        /\ names' = {} /\ got' = {}
        /\ UNCHANGED <<Files2, Results, stage, listed, faults>>
     \/ Fault /\ Raises

(* ...and reads it; if the list has become longer, Linux and Darwin refuse *)
(* that too, and FreeBSD gives the beginning of it.  Solaris reads a       *)
(* directory, and takes an error for the end of it.                        *)
ListIs(S) ==
  /\ names' = {k \in S : ~IsSystem(k)}
  /\ op' = "lengths" /\ got' = {} /\ try' = NoTry
  /\ UNCHANGED <<Files2, Results, stage, listed>>

ListNames ==
  LET fits == Size(Present) <= try.len \/ xsys = "solaris" IN
  /\ op = "names"
  /\ \/ fits /\ ListIs(Present) /\ UNCHANGED faults
     \/ ~fits /\ xsys \in Refusing /\ Raises /\ UNCHANGED faults
     \/ /\ ~fits /\ xsys \notin Refusing /\ UNCHANGED faults
        /\ \E S \in SUBSET Present : Size(S) <= try.len /\ ListIs(S)
     \/ Fault /\ IF xsys = "solaris" THEN \E S \in SUBSET Present : ListIs(S) ELSE Raises

(* Then the length of each is asked.  One for which that fails, as it is   *)
(* gone or for any other reason, is left out silently; on Solaris opening  *)
(* it may also raise an exception.                                         *)
ListLength ==
  /\ op = "lengths"
  /\ \E k \in names :
       \/ /\ Value(k) # Gone /\ names' = names \ {k} /\ got' = got \cup {<<k, Length(k)>>}
          /\ UNCHANGED <<Files2, Results, stage, op, try, listed, faults>>
       \/ /\ IF Value(k) = Gone THEN xsys # "solaris" /\ UNCHANGED faults ELSE Fault
          /\ names' = names \ {k}
          /\ UNCHANGED <<Files2, Results, stage, op, try, got, listed>>
       \/ /\ xsys = "solaris" /\ Raises
          /\ IF Value(k) = Gone THEN UNCHANGED faults ELSE Fault

(* Mutant: getXattrs does not leave out what is ignored.                   *)
ListedAll ==
  /\ op = "lengths" /\ names = {}
  /\ op' = "length" /\ got' = {}
  /\ listed' = got /\ names' = {x[1] : x \in listed'}
  /\ UNCHANGED <<Files2, Results, stage, try, faults>>

(* Then the value of each attribute that is not ignored is read (in the    *)
(* order of the names).                                                    *)
Listed ==
  /\ op = "lengths" /\ names = {}
  /\ op' = "length" /\ got' = {}
  /\ listed' = Kept(got) /\ names' = {x[1] : x \in listed'}
  /\ UNCHANGED <<Files2, Results, stage, try, faults>>

(* The value of k has been read.                                           *)
Got(k, v) ==
  /\ got' = got \cup {<<k, v>>} /\ names' = names \ {k} /\ try' = NoTry
  /\ UNCHANGED <<Files2, Results, stage, listed>>

(* Mutant: tries without end.                                              *)
GetLengthForever ==
  LET k == First(names)
      value == Value(Called(k))
  IN
  /\ op = "length" /\ names # {}
  /\ \/ value = Gone /\ Raises /\ UNCHANGED faults
     \/ value = <<>> /\ Got(k, <<>>) /\ UNCHANGED <<op, faults>>
     \/ /\ value \notin {Gone, <<>>} /\ op' = "content"
        /\ try' = [len |-> Len(value), tries |-> try.tries + 1]
        /\ UNCHANGED <<Files2, Results, stage, got, names, listed, faults>>
     \/ Fault /\ Raises

(* unison_xattr_get asks for the length, at every try...                   *)
GetLength ==
  LET k == First(names)
      value == Value(Called(k))
  IN
  /\ op = "length" /\ names # {}
  /\ \/ (value = Gone \/ try.tries = MaxTries) /\ Raises /\ UNCHANGED faults
     \/ value = <<>> /\ try.tries < MaxTries /\ Got(k, <<>>) /\ UNCHANGED <<op, faults>>
     \/ /\ value \notin {Gone, <<>>} /\ try.tries < MaxTries /\ op' = "content"
        /\ try' = [len |-> Len(value), tries |-> try.tries + 1]
        /\ UNCHANGED <<Files2, Results, stage, got, names, listed, faults>>
     \/ Fault /\ Raises

(* Mutant: the error of a buffer that is too small is not looked at.       *)
GetContentOnce ==
  LET k == Called(First(names)) IN
  /\ op = "content"
  /\ \/ Value(k) = Gone /\ Raises /\ UNCHANGED faults
     \/ /\ Value(k) # Gone /\ Got(First(names), Content(k, try.len))
        /\ op' = "length" /\ UNCHANGED faults
     \/ Fault /\ Raises

(* ...and reads that much, or asks again.                                  *)
GetContent ==
  LET k == Called(First(names)) IN
  /\ op = "content"
  /\ \/ Value(k) = Gone /\ Raises /\ UNCHANGED faults
     \/ /\ Value(k) # Gone /\ Fits(k, try.len) /\ Got(First(names), Content(k, try.len))
        /\ op' = "length" /\ UNCHANGED faults
     \/ /\ Value(k) # Gone /\ ~Fits(k, try.len) /\ op' = "length"
        /\ UNCHANGED <<Files2, Results, stage, Progress, faults>>
     \/ Fault /\ Raises

AllRead == op = "length" /\ names = {}

-----------------------------------------------------------------------------
(* getXattrs of the source is recorded, and which values are recorded by   *)
(* their digest goes by the lengths that were listed.  Those that are not  *)
(* in the cache any more are read again.                                   *)
Hashed == {x \in got : \E y \in listed : y[1] = x[1] /\ y[2] > Short}

Record ==
  /\ stage = "source" /\ AllRead
  /\ agreed' = [list |-> got, size |-> Total(listed)]
  /\ stage' = "load" /\ got' = {} /\ listed' = {}
  /\ \E cached \in SUBSET Hashed :
       /\ names' = {x[1] : x \in Hashed \ cached}
       /\ loaded' = cached \cup (got \ Hashed)
  /\ UNCHANGED <<Files2, op, try, present, faults>>

(* readAll: a value whose digest is another one is not written.            *)
Load ==
  /\ stage = "load" /\ AllRead
  /\ IF got \subseteq agreed.list
     THEN /\ loaded' = loaded \cup got /\ stage' = "before" /\ op' = "list" /\ got' = {}
          /\ UNCHANGED <<Files2, agreed, present, names, try, listed>>
     ELSE Raises
  /\ UNCHANGED faults

(* setXattrs first reads what the target has...                            *)
ReadTarget ==
  /\ stage = "before" /\ AllRead
  /\ present' = got /\ got' = {} /\ listed' = {}
  /\ stage' = "set" /\ op' = "set"
  /\ UNCHANGED <<Files2, agreed, loaded, names, try, faults>>

(* unison_xattr_set and unison_xattr_remove, which pass over the           *)
(* attributes of the system.                                               *)
SetTarget(k, v) ==
  IF IsSystem(k) THEN UNCHANGED Files2
  ELSE /\ attrs' = [attrs EXCEPT !["target"][k] = v]
       /\ had' = had \cup {<<"target", k, v>>}
       /\ UNCHANGED <<System, touches>>

(* ...writes what is not there: a call that fails may leave the attribute  *)
(* truncated on Solaris...                                                 *)
ToWrite == {x \in Kept(loaded) : ~Member(x, present)}

SetOne ==
  LET x == First(ToWrite) IN
  /\ stage = "set" /\ op = "set" /\ ToWrite # {}
  /\ \/ /\ SetTarget(Called(x[1]), x[2])
        /\ loaded' = loaded \ {x}
        /\ UNCHANGED <<stage, op, agreed, present, Progress, faults>>
     \/ Fault /\ Raises
     \/ /\ Fault /\ xsys = "solaris" /\ stage' = "failed" /\ op' = "none"
        /\ \E n \in 0..Len(x[2]) : SetTarget(Called(x[1]), SubSeq(x[2], 1, n))
        /\ UNCHANGED <<Results, Progress>>

AllSet ==
  /\ stage = "set" /\ op = "set" /\ ToWrite = {}
  /\ op' = "remove"
  /\ names' = {x[1] : x \in {y \in present : \A z \in Kept(agreed.list) : ~SameName(y, z)}}
  /\ UNCHANGED <<Files2, Results, stage, try, got, listed, faults>>

(* ...and removes the others.  That one cannot be removed is not noticed,  *)
(* unless it is an exception of Solaris.                                   *)
RemoveOne ==
  LET k == First(names) IN
  /\ op = "remove" /\ names # {}
  /\ \/ /\ names' = names \ {k}
        /\ SetTarget(Called(k), Gone) /\ UNCHANGED faults
        /\ UNCHANGED <<Results, stage, op, try, got, listed>>
     \/ /\ names' = names \ {k} /\ Fault
        /\ UNCHANGED <<Files2, Results, stage, op, try, got, listed>>
     \/ xsys = "solaris" /\ Fault /\ Raises

(* Then the attributes of the target are read once more.                   *)
StartCheck ==
  /\ op = "remove" /\ names = {}
  /\ stage' = "check" /\ op' = "list"
  /\ UNCHANGED <<Files2, Results, Progress, faults>>

(* Mutant: the sums only.                                                  *)
SimilarSize == Total(listed) = agreed.size

(* similar compares the sum of the lengths, the number of the attributes,  *)
(* and looks for each that was asked for.                                  *)
Similar ==
  /\ Total(listed) = agreed.size
  /\ Cardinality(got) = Cardinality(agreed.list)
  /\ \A x \in agreed.list : Member(x, got)

Check ==
  /\ stage = "check" /\ AllRead
  /\ stage' = IF Similar THEN "ok" ELSE "failed"
  /\ op' = "none"
  /\ UNCHANGED <<Files2, Results, Progress, faults>>

(* Another program changes an attribute of one of the files.               *)
Touch ==
  /\ stage \notin {"ok", "failed"} /\ Disturbances < MaxDisturbances
  /\ supports[File]
  /\ \E k \in Kernel : \E v \in ValuesOf(k, Values) :
       /\ ~IsSystem(k) /\ v # Value(k)
       /\ attrs' = [attrs EXCEPT ![File][k] = v]
       /\ had' = had \cup {<<File, k, v>>}
       /\ touches' = [touches EXCEPT ![File] = @ + 1]
  /\ UNCHANGED <<System, stage, op, Progress, Results, faults>>

XattrStep ==
  \/ NoAttributes \/ ListSize \/ ListNames \/ ListLength \/ Listed \/ GetLength \/ GetContent
  \/ Record \/ Load \/ ReadTarget \/ SetOne \/ AllSet \/ RemoveOne
  \/ StartCheck \/ Check

-----------------------------------------------------------------------------
(* What a value may be truncated to.                                       *)
Beginnings == UNION {{SubSeq(v, 1, n) : n \in 0..Len(v)} : v \in Values \cup FewValues}

XattrTypeOK ==
  /\ stage \in {"source", "load", "before", "set", "check", "ok", "failed"}
  /\ op \in {"list", "names", "lengths", "length", "content", "set", "remove", "none"}
  /\ try.tries \in 0..MaxTries /\ faults \in 0..MaxDisturbances
  /\ \A f \in Files : \A k \in DOMAIN attrs[f] :
       attrs[f][k] \in {Gone} \cup Beginnings

=============================================================================
