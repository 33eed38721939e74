--------------------------- MODULE LockFileProofs ---------------------------
(***************************************************************************)
(* The lock file is a lock, for any number of processes with different     *)
(* identifiers, whether O_EXCL works or not, and whatever is killed; and   *)
(* it implements the atomic lock of LockService.                           *)
(***************************************************************************)
EXTENDS LockFile, TLAPS

(* Between Create and Unlink a process has a temporary file.               *)
Active(p) == pc[p] \in {"link", "stat", "unlink"}
(* The process has been told, or is about to be, that it has the lock.     *)
Claims(p) == pc[p] = "held" \/ (pc[p] = "unlink" /\ res[p])

(* Every file has at most one temporary name, every name one user, and the *)
(* file of a holder has no temporary name left.                            *)
NamesDiffer ==
  \A m, n \in Names : temp[m] = temp[n] /\ temp[m] # 0 => m = n
OwnName ==
  \A p \in Procs :
    /\ Active(p) => name[p] \in Names /\ temp[name[p]] # 0 /\ file[p] = temp[name[p]]
    /\ ~excl /\ (Active(p) \/ pc[p] = "create") => name[p] = Pid[p]
    /\ pc[p] = "held" => \A n \in Names : temp[n] # file[p]
UsersDiffer ==
  \A p, q \in Procs : Active(p) /\ Active(q) /\ name[p] = name[q] => p = q
Made == /\ \A n \in Names : temp[n] <= made
        /\ \A p \in Procs : file[p] <= made
ClaimsTrue == \A p \in Procs : Claims(p) => lock # 0 /\ lock = file[p]

HoldersDiffer == \A p, q \in Procs : pc[p] = "held" /\ pc[q] = "held" => p = q

IInv == /\ TypeOK /\ NamesDiffer /\ OwnName /\ UsersDiffer /\ Made /\ ClaimsTrue
        /\ HoldersDiffer

(* Two processes that are past Create never have the same file, so only    *)
(* one can have the lock.                                                  *)
LEMMA FilesDiffer ==
  ASSUME IInv, NEW p \in Procs, NEW q \in Procs,
         Active(p) \/ pc[p] = "held", Active(q) \/ pc[q] = "held",
         file[p] = file[q]
  PROVE  p = q
  BY DEF IInv, NamesDiffer, OwnName, UsersDiffer, HoldersDiffer, Active

LEMMA OneClaim ==
  ASSUME IInv, NEW p \in Procs, NEW q \in Procs, Claims(p), Claims(q)
  PROVE  p = q
  BY FilesDiffer DEF IInv, ClaimsTrue, Claims, Active

LEMMA InitIInv == Init => IInv
  BY BoundAssumption
     DEF Init, IInv, TypeOK, NamesDiffer, OwnName, UsersDiffer, Made, ClaimsTrue,
         HoldersDiffer, Active, Claims, Names

(* One process moves, the others stay where they are.                      *)
LEMMA GotoMoves ==
  ASSUME TypeOK, NEW p \in Procs, NEW step, Goto(p, step)
  PROVE  pc'[p] = step /\ \A q \in Procs : q # p => pc'[q] = pc[q]
  BY DEF TypeOK, Goto

LEMMA NextIInv ==
  ASSUME IInv, [Next]_vars
  PROVE  IInv'
<1> USE BoundAssumption, PidAssumption
<1>t. TypeOK  BY DEF IInv
<1>d. NamesDiffer /\ OwnName /\ UsersDiffer /\ Made /\ ClaimsTrue /\ HoldersDiffer
  BY DEF IInv
<1>s. TypeOK'
  <2> USE <1>t DEF TypeOK, Goto
  <2>1. ASSUME NEW p \in Procs, Acquire(p) PROVE TypeOK'  BY <2>1 DEF Acquire
  <2>2. ASSUME NEW p \in Procs, NextName(p) PROVE TypeOK'
    BY <2>2 DEF NextName, Names
  <2>3. ASSUME NEW p \in Procs, Create(p) PROVE TypeOK'
    <3>1. temp[name[p]] \in 0 .. MaxFile  BY <2>3 DEF Create
    <3> QED BY <2>3, <3>1 DEF Create
  <2>4. ASSUME NEW p \in Procs, Link(p) PROVE TypeOK'
    <3>1. name[p] \in Names  BY <2>4, <1>d DEF Link, OwnName, Active
    <3>2. temp[name[p]] \in 0 .. MaxFile  BY <3>1
    <3> QED BY <2>4, <3>2 DEF Link
  <2>5. ASSUME NEW p \in Procs, Stat(p) PROVE TypeOK'
    <3>1. PICK b \in BOOLEAN : res' = [res EXCEPT ![p] = b]
      <4>1. Linked(p) \in BOOLEAN  BY DEF Linked
      <4> QED BY <2>5, <4>1, Zenon DEF Stat
    <3> QED BY <2>5, <3>1 DEF Stat
  <2>6. ASSUME NEW p \in Procs, Unlink(p) PROVE TypeOK'
    <3>1. temp' \in [Names -> 0 .. MaxFile]
      <4>1. 0 \in 0 .. MaxFile  BY BoundAssumption
      <4>2. temp' = [temp EXCEPT ![name[p]] = 0]  BY <2>6 DEF Unlink
      <4> QED BY <4>1, <4>2
    <3>2. pc' \in [Procs -> {"idle", "create", "link", "stat", "unlink", "held"}]
      BY <2>6 DEF Unlink
    <3> QED BY <2>6, <3>1, <3>2 DEF Unlink
  <2>7. ASSUME NEW p \in Procs, Release(p) PROVE TypeOK'  BY <2>7 DEF Release
  <2>8. ASSUME NEW p \in Procs, Kill(p) PROVE TypeOK'  BY <2>8 DEF Kill
  <2>9. CASE Delete  BY <2>9 DEF Delete
  <2>10. CASE UNCHANGED vars  BY <2>10 DEF vars
  <2> QED BY <2>1, <2>2, <2>3, <2>4, <2>5, <2>6, <2>7, <2>8, <2>9, <2>10 DEF Next
<1>1. ASSUME NEW p \in Procs, Acquire(p) PROVE IInv'
  <2>1. pc'[p] = "create" /\ \A q \in Procs : q # p => pc'[q] = pc[q]
    BY <1>1, <1>t, GotoMoves DEF Acquire
  <2>2. name'[p] = Pid[p] /\ \A q \in Procs : q # p => name'[q] = name[q]
    BY <1>1, <1>t DEF Acquire, TypeOK
  <2> QED BY <1>1, <1>d, <1>s, <2>1, <2>2
          DEF Acquire, IInv, NamesDiffer, OwnName, UsersDiffer, Made, ClaimsTrue,
              HoldersDiffer, Active, Claims
<1>2. ASSUME NEW p \in Procs, NextName(p) PROVE IInv'
  <2>1. \A q \in Procs : q # p => name'[q] = name[q]
    BY <1>2, <1>t DEF NextName, TypeOK
  <2> QED BY <1>2, <1>d, <1>s, <2>1
          DEF NextName, IInv, NamesDiffer, OwnName, UsersDiffer, Made, ClaimsTrue,
              HoldersDiffer, Active, Claims
<1>3. ASSUME NEW p \in Procs, Create(p) PROVE IInv'
  <2>1. pc'[p] = "link" /\ \A q \in Procs : q # p => pc'[q] = pc[q]
    BY <1>3, <1>t, GotoMoves DEF Create
  <2>2. \A q \in Procs : q # p => file'[q] = file[q]
    BY <1>3, <1>t DEF Create, TypeOK
  <2>3. ClaimsTrue' /\ HoldersDiffer'
    BY <1>3, <1>d, <2>1, <2>2 DEF Create, ClaimsTrue, HoldersDiffer, Claims
  <2>4. /\ name[p] \in Names /\ name' = name /\ excl' = excl
        /\ ~excl => name[p] = Pid[p]
        /\ \A n \in Names : n # name[p] => temp'[n] = temp[n]
    BY <1>3, <1>t, <1>d DEF Create, TypeOK, OwnName
  <2>5. CASE temp[name[p]] = 0 /\ made' = made + 1
             /\ temp' = [temp EXCEPT ![name[p]] = made + 1]
             /\ file' = [file EXCEPT ![p] = made + 1]
    <3>1. temp'[name[p]] = made + 1 /\ file'[p] = made + 1
      BY <1>t, <2>4, <2>5 DEF TypeOK
    <3>2. /\ \A n \in Names : temp[n] \in Int /\ temp[n] < made + 1
          /\ \A q \in Procs : file[q] \in Int /\ file[q] < made + 1
          /\ made \in Nat
      BY <1>t, <1>d DEF TypeOK, Made
    <3>3. NamesDiffer'
      BY <1>d, <2>4, <3>1, <3>2 DEF NamesDiffer
    <3>4. Made'
      BY <2>2, <2>4, <2>5, <3>1, <3>2 DEF Made
    <3>5. UsersDiffer'
      BY <1>d, <2>1, <2>4, <2>5 DEF UsersDiffer, OwnName, Active
    <3>6. ASSUME NEW q \in Procs
          PROVE /\ Active(q)' => /\ name'[q] \in Names /\ temp'[name'[q]] # 0
                                 /\ file'[q] = temp'[name'[q]]
                /\ ~excl' /\ (Active(q)' \/ pc'[q] = "create") => name'[q] = Pid[q]
                /\ pc'[q] = "held" => \A n \in Names : temp'[n] # file'[q]
      <4>1. CASE q = p  BY <2>1, <2>4, <3>1, <3>2, <4>1
      <4>2. CASE q # p
        BY <1>d, <2>1, <2>2, <2>4, <2>5, <3>1, <3>2, <4>2 DEF OwnName, Active
      <4> QED BY <4>1, <4>2
    <3>7. OwnName'  BY <3>6 DEF OwnName
    <3> QED BY <1>s, <2>3, <3>3, <3>4, <3>5, <3>7 DEF IInv
  <2>6. CASE temp[name[p]] # 0 /\ ~excl /\ UNCHANGED <<temp, made>>
             /\ file' = [file EXCEPT ![p] = temp[name[p]]]
    <3>1. file'[p] = temp[name[p]]
      BY <1>t, <2>6 DEF TypeOK
    <3>2. \A q \in Procs : Active(q) => name[q] = Pid[q]
      BY <1>d, <2>6 DEF OwnName
    <3>3. NamesDiffer' /\ Made'
      BY <1>d, <2>2, <2>4, <2>6, <3>1 DEF NamesDiffer, Made
    <3>4. UsersDiffer'
      BY <2>1, <2>4, <2>6, <3>2 DEF UsersDiffer, Active
    <3>5. OwnName'
      BY <1>d, <2>1, <2>2, <2>4, <2>6, <3>1 DEF OwnName, Active
    <3> QED BY <1>s, <2>3, <3>3, <3>4, <3>5 DEF IInv
  <2> QED BY <1>3, <2>5, <2>6 DEF Create
<1>4. ASSUME NEW p \in Procs, Link(p) PROVE IInv'
  <2>1. pc[p] = "link" /\ pc'[p] = "stat" /\ \A q \in Procs : q # p => pc'[q] = pc[q]
    BY <1>4, <1>t, GotoMoves DEF Link
  <2> QED BY <1>4, <1>d, <1>s, <2>1
          DEF Link, IInv, NamesDiffer, OwnName, UsersDiffer, Made, ClaimsTrue,
              HoldersDiffer, Active, Claims
<1>5. ASSUME NEW p \in Procs, Stat(p) PROVE IInv'
  <2>1. pc[p] = "stat" /\ pc'[p] = "unlink" /\ \A q \in Procs : q # p => pc'[q] = pc[q]
    BY <1>5, <1>t, GotoMoves DEF Stat
  <2>2. /\ res'[p] => lock # 0 /\ lock = file[p]
        /\ \A q \in Procs : q # p => res'[q] = res[q]
    BY <1>5, <1>t, <1>d, <2>1 DEF Stat, TypeOK, Linked, OwnName, Active
  <2> QED BY <1>5, <1>d, <1>s, <2>1, <2>2
          DEF Stat, IInv, NamesDiffer, OwnName, UsersDiffer, Made, ClaimsTrue,
              HoldersDiffer, Active, Claims
<1>6. ASSUME NEW p \in Procs, Unlink(p) PROVE IInv'
  <2>1. /\ pc[p] = "unlink" /\ pc'[p] \in {"held", "idle"}
        /\ pc'[p] = "held" => Claims(p)
        /\ \A q \in Procs : q # p => pc'[q] = pc[q]
    BY <1>6, <1>t, GotoMoves DEF Unlink, Claims
  <2>2. /\ name[p] \in Names /\ temp'[name[p]] = 0 /\ file[p] = temp[name[p]]
        /\ temp[name[p]] # 0
        /\ \A n \in Names : n # name[p] => temp'[n] = temp[n]
    BY <1>6, <1>t, <1>d, <2>1 DEF Unlink, TypeOK, OwnName, Active
  <2>3. NamesDiffer' /\ UsersDiffer'
    BY <1>6, <1>d, <2>1, <2>2 DEF Unlink, NamesDiffer, UsersDiffer, Active
  <2>4. Made'
    BY <1>6, <1>t, <1>d, <2>2 DEF Unlink, Made, TypeOK
  <2>5. ClaimsTrue'
    BY <1>6, <1>d, <2>1 DEF Unlink, ClaimsTrue, Claims
  <2>6. HoldersDiffer'
    BY <2>1, OneClaim DEF HoldersDiffer, Claims
  <2>7. ASSUME NEW q \in Procs
        PROVE /\ Active(q)' => /\ name'[q] \in Names /\ temp'[name'[q]] # 0
                               /\ file'[q] = temp'[name'[q]]
              /\ ~excl' /\ (Active(q)' \/ pc'[q] = "create") => name'[q] = Pid[q]
              /\ pc'[q] = "held" => \A n \in Names : temp'[n] # file'[q]
    <3>1. CASE q = p
      BY <1>6, <1>d, <2>1, <2>2, <3>1 DEF Unlink, NamesDiffer, Active
    <3>2. CASE q # p
      <4>1. Active(q) => name[q] # name[p]
        BY <1>d, <2>1, <3>2 DEF UsersDiffer, Active
      <4>2. pc[q] = "held" => file[q] # 0
        BY <1>d DEF ClaimsTrue, Claims
      <4> QED BY <1>6, <1>d, <2>1, <2>2, <3>2, <4>1, <4>2 DEF Unlink, OwnName, Active
    <3> QED BY <3>1, <3>2
  <2>8. OwnName'  BY <2>7 DEF OwnName
  <2> QED BY <1>s, <2>3, <2>4, <2>5, <2>6, <2>8 DEF IInv
<1>7. ASSUME NEW p \in Procs, Release(p) PROVE IInv'
  <2>1. pc[p] = "held" /\ pc'[p] = "idle" /\ \A q \in Procs : q # p => pc'[q] = pc[q]
    BY <1>7, <1>t, GotoMoves DEF Release
  <2>2. \A q \in Procs : ~Claims(q)'
    BY <1>7, <2>1, OneClaim DEF Release, Claims
  <2> QED BY <1>7, <1>d, <1>s, <2>1, <2>2
          DEF Release, IInv, NamesDiffer, OwnName, UsersDiffer, Made, ClaimsTrue,
              HoldersDiffer, Active
<1>8. ASSUME NEW p \in Procs, Kill(p) PROVE IInv'
  <2>1. pc'[p] = "idle" /\ \A q \in Procs : q # p => pc'[q] = pc[q]
    BY <1>8, <1>t, GotoMoves DEF Kill
  <2> QED BY <1>8, <1>d, <1>s, <2>1
          DEF Kill, IInv, NamesDiffer, OwnName, UsersDiffer, Made, ClaimsTrue,
              HoldersDiffer, Active, Claims
<1>9. CASE Delete
  BY <1>9, <1>d, <1>s
     DEF Delete, IInv, NamesDiffer, OwnName, UsersDiffer, Made, ClaimsTrue,
         HoldersDiffer, Active, Claims
<1>10. CASE UNCHANGED vars
  BY <1>10, <1>d, <1>s
     DEF vars, IInv, NamesDiffer, OwnName, UsersDiffer, Made, ClaimsTrue,
         HoldersDiffer, Active, Claims
<1> QED BY <1>1, <1>2, <1>3, <1>4, <1>5, <1>6, <1>7, <1>8, <1>9, <1>10 DEF Next

(* Two processes never hold the lock at the same time, and the one that    *)
(* does has the lock file (OneHolder; Lock.acquire).                       *)
THEOREM LockExcludes == Spec => []OneHolder
<1>1. IInv /\ [Next]_vars => IInv'  BY NextIInv
<1>2. IInv => OneHolder
  BY DEF IInv, ClaimsTrue, HoldersDiffer, Claims, OneHolder
<1> QED BY <1>1, <1>2, InitIInv, PTL DEF Spec
-----------------------------------------------------------------------------
(* The refinement.  The file of the lock is that of one process at most,   *)
(* which is its owner.                                                     *)
LEMMA OneOwner ==
  ASSUME IInv, NEW p \in Procs, NEW q \in Procs, Owns(p), Owns(q)
  PROVE  p = q
  BY FilesDiffer DEF Owns, Active

LEMMA OwnerIs ==
  ASSUME IInv, NEW p \in Procs, Owns(p)
  PROVE  Owner = p
<1>1. \A q \in Procs : Owns(q) => q = p  BY OneOwner
<1>2. lock # 0  BY DEF Owns
<1> QED BY <1>1, <1>2 DEF Owner

LEMMA NextOwnerIs ==
  ASSUME NEW p \in Procs, Owns(p)', \A q \in Procs : Owns(q)' => q = p
  PROVE  Owner' = p
<1>1. lock' # 0  BY DEF Owns
<1> QED BY <1>1 DEF Owner

LEMMA OwnerStays ==
  ASSUME IInv, lock' = lock, \A q \in Procs : Owns(q)' <=> Owns(q)
  PROVE  Owner' = Owner
<1>1. CASE \E p \in Procs : Owns(p)
  <2>1. PICK p \in Procs : Owns(p)  BY <1>1
  <2>2. Owner = p  BY <2>1, OwnerIs
  <2>3. \A q \in Procs : Owns(q)' => q = p  BY <2>1, OneOwner
  <2>4. Owner' = p  BY <2>1, <2>3, NextOwnerIs
  <2> QED BY <2>2, <2>4
<1>2. CASE ~ \E p \in Procs : Owns(p)  BY <1>2 DEF Owner
<1> QED BY <1>1, <1>2

(* Each step of the protocol is a step of the lock, or none.               *)
LEMMA NextService ==
  ASSUME IInv, [Next]_vars
  PROVE  [Service!Next]_Owner
<1> USE DEF Service!Next, Service!Acquire, Service!Release, Service!Orphan,
            Service!Delete
<1>t. TypeOK  BY DEF IInv
<1>d. OwnName /\ ClaimsTrue  BY DEF IInv
<1>1. ASSUME NEW p \in Procs, Acquire(p) PROVE Owner' = Owner
  <2>1. pc'[p] = "create" /\ \A q \in Procs : q # p => pc'[q] = pc[q]
    BY <1>1, <1>t, GotoMoves DEF Acquire
  <2>2. \A q \in Procs : Owns(q)' <=> Owns(q)  BY <1>1, <2>1 DEF Acquire, Owns
  <2> QED BY <1>1, <2>2, OwnerStays DEF Acquire
<1>2. ASSUME NEW p \in Procs, NextName(p) PROVE Owner' = Owner
  <2>1. \A q \in Procs : Owns(q)' <=> Owns(q)  BY <1>2 DEF NextName, Owns
  <2> QED BY <1>2, <2>1, OwnerStays DEF NextName
<1>3. ASSUME NEW p \in Procs, Create(p) PROVE Owner' = Owner
  <2>1. pc'[p] = "link" /\ \A q \in Procs : q # p => pc'[q] = pc[q]
    BY <1>3, <1>t, GotoMoves DEF Create
  <2>2. \A q \in Procs : q # p => file'[q] = file[q]
    BY <1>3, <1>t DEF Create, TypeOK
  <2>3. \A q \in Procs : Owns(q)' <=> Owns(q)
    BY <1>3, <2>1, <2>2 DEF Create, Owns
  <2> QED BY <1>3, <2>3, OwnerStays DEF Create
<1>4. ASSUME NEW p \in Procs, Link(p) PROVE [Service!Next]_Owner
  <2>1. pc[p] = "link" /\ pc'[p] = "stat" /\ \A q \in Procs : q # p => pc'[q] = pc[q]
    BY <1>4, <1>t, GotoMoves DEF Link
  <2>2. /\ temp[name[p]] = file[p] /\ file[p] # 0 /\ file' = file /\ res' = res
        /\ lock' = IF lock = 0 THEN file[p] ELSE lock
    BY <1>4, <2>1, <1>d DEF Link, OwnName, Active
  <2>3. CASE lock' # file[p]
    <3>1. lock' = lock  BY <2>2, <2>3
    <3>2. \A q \in Procs : Owns(q)' <=> Owns(q)  BY <2>1, <2>2, <2>3, <3>1 DEF Owns
    <3> QED BY <3>1, <3>2, OwnerStays
  <2>4. CASE lock' = file[p]
    <3>1. \A q \in Procs : file[q] = file[p] /\ (Active(q) \/ pc[q] = "held") => q = p
      BY <2>1, FilesDiffer DEF Active
    <3>2. Owner' = p
      <4>1. \A q \in Procs : Owns(q)' => q = p
        BY <2>1, <2>2, <2>4, <3>1 DEF Owns, Active
      <4> QED BY <4>1, <2>1, <2>2, <2>4, NextOwnerIs DEF Owns
    <3>3. lock = 0 \/ \A q \in Procs : ~Owns(q)
      BY <2>1, <2>2, <2>4, <3>1 DEF Owns, Active
    <3>4. Owner \in {Nobody, Dead}  BY <3>3 DEF Owner
    <3> QED BY <3>2, <3>4
  <2> QED BY <2>3, <2>4
<1>5. ASSUME NEW p \in Procs, Stat(p) PROVE [Service!Next]_Owner
  <2>1. pc[p] = "stat" /\ pc'[p] = "unlink" /\ \A q \in Procs : q # p => pc'[q] = pc[q]
    BY <1>5, <1>t, GotoMoves DEF Stat
  <2>2. \A q \in Procs : q # p => (res'[q] <=> res[q])
    BY <1>5, <1>t DEF Stat, TypeOK
  <2>3. lock' = lock /\ file' = file  BY <1>5 DEF Stat
  <2>4. \A q \in Procs : q # p => (Owns(q)' <=> Owns(q))
    BY <2>1, <2>2, <2>3 DEF Owns
  <2>5. CASE Owns(p) => res'[p]
    <3>1. Owns(p)' <=> Owns(p)  BY <2>1, <2>3, <2>5 DEF Owns
    <3> QED BY <2>3, <2>4, <3>1, OwnerStays
  <2>6. CASE Owns(p) /\ ~res'[p]
    <3>1. Owner = p  BY <2>6, OwnerIs
    <3>2. \A q \in Procs : ~Owns(q)'
      BY <2>1, <2>4, <2>6, OneOwner DEF Owns
    <3>3. lock' # 0  BY <2>3, <2>6 DEF Owns
    <3>4. Owner' = Dead  BY <3>2, <3>3 DEF Owner
    <3> QED BY <3>1, <3>4
  <2> QED BY <2>5, <2>6
<1>6. ASSUME NEW p \in Procs, Unlink(p) PROVE Owner' = Owner
  <2>1. /\ pc[p] = "unlink" /\ pc'[p] = IF res[p] THEN "held" ELSE "idle"
        /\ \A q \in Procs : q # p => pc'[q] = pc[q]
    BY <1>6, <1>t, GotoMoves DEF Unlink
  <2>2. \A q \in Procs : Owns(q)' <=> Owns(q)  BY <1>6, <2>1 DEF Unlink, Owns
  <2> QED BY <1>6, <2>2, OwnerStays DEF Unlink
<1>7. ASSUME NEW p \in Procs, Release(p) PROVE Service!Release(p)
  <2>1. Owns(p)  BY <1>7, <1>d DEF Release, ClaimsTrue, Claims, Owns
  <2>2. Owner = p  BY <2>1, OwnerIs
  <2>3. Owner' = Nobody  BY <1>7 DEF Release, Owner
  <2> QED BY <2>2, <2>3
<1>8. ASSUME NEW p \in Procs, Kill(p) PROVE [Service!Next]_Owner
  <2>1. pc'[p] = "idle" /\ \A q \in Procs : q # p => pc'[q] = pc[q]
    BY <1>8, <1>t, GotoMoves DEF Kill
  <2>2. lock' = lock /\ ~Owns(p)' /\ \A q \in Procs : q # p => (Owns(q)' <=> Owns(q))
    BY <1>8, <2>1 DEF Kill, Owns
  <2>3. CASE ~Owns(p)  BY <2>2, <2>3, OwnerStays
  <2>4. CASE Owns(p)
    <3>1. Owner = p  BY <2>4, OwnerIs
    <3>2. lock' # 0 /\ \A q \in Procs : ~Owns(q)'
      BY <2>2, <2>4, OneOwner DEF Owns
    <3>3. Owner' = Dead  BY <3>2 DEF Owner
    <3> QED BY <3>1, <3>3
  <2> QED BY <2>3, <2>4
<1>9. CASE Delete
  <2>1. lock # 0 /\ lock' = 0 /\ \A p \in Procs : ~Owns(p)  BY <1>9 DEF Delete, Owns
  <2>2. Owner = Dead /\ Owner' = Nobody  BY <2>1 DEF Owner
  <2> QED BY <2>2
<1>10. CASE UNCHANGED vars
  <2>1. lock' = lock /\ \A q \in Procs : Owns(q)' <=> Owns(q)
    BY <1>10 DEF vars, Owns
  <2> QED BY <2>1, OwnerStays
<1> QED BY <1>1, <1>2, <1>3, <1>4, <1>5, <1>6, <1>7, <1>8, <1>9, <1>10 DEF Next

(* To the other processes, acquiring and releasing the lock are single     *)
(* steps (ServiceSpec): the lock of ArchiveCommit (LockArchive,            *)
(* UnlockArchive) is the file of src/lock.ml.                              *)
THEOREM LockImplementsService == Spec => ServiceSpec
<1>1. Init => Service!Init  BY DEF Init, Service!Init, Owner
<1>2. IInv /\ [Next]_vars => IInv'  BY NextIInv
<1>3. IInv /\ [Next]_vars => [Service!Next]_Owner  BY NextService
<1> QED BY <1>1, <1>2, <1>3, InitIInv, PTL DEF Spec, ServiceSpec, Service!Spec

(* The lock file, the program counters and the names keep their types; the *)
(* invariant that the other proofs rest on contains this.                  *)
THEOREM TypeCorrect == Spec => []TypeOK
<1>1. IInv => TypeOK  BY DEF IInv
<1>2. IInv /\ [Next]_vars => IInv'  BY NextIInv
<1> QED BY <1>1, <1>2, InitIInv, PTL DEF Spec
=============================================================================
