--------------------------- MODULE WatchersProofs ---------------------------
(***************************************************************************)
(* The theorems about Watchers: the types, the objects of the event ports  *)
(* and their counts, and that no change is lost.  All are about a directory*)
(* whose path is not a link to follow (~Follow): with a link that is       *)
(* followed a change can be lost (the run FileWatch_link), and on Solaris  *)
(* an object can be freed while it is associated.                          *)
(*                                                                         *)
(* The first part is about the operators of EventPorts that fold over the  *)
(* entries of a watch or the events of a fetch: Own is what each of their  *)
(* steps keeps.  The second is about what is recorded and about the events *)
(* that have been fetched.  TypeInv, in the third, gives the first three   *)
(* theorems; ChangeInv, which says for each system where the news of a     *)
(* change is on its way to the client, gives the last.                     *)
(***************************************************************************)
EXTENDS Watchers, FoldLemmas

Entry == [port : Ports, obj : Addresses, name : Names \cup {Root}]

(* The records of the variable fen                                         *)
Fen == [heap : [Addresses -> {"free", "clear", "exception"}],
        cookie : [Addresses -> Nat], id : Nat,
        watched : BOOLEAN, follow : BOOLEAN, entries : SUBSET Entry,
        ports : UNION {[D -> Nat] : D \in SUBSET Ports},
        assoc : SUBSET [port : Ports, obj : Addresses, node : Nodes],
        queue : SUBSET [port : Ports, obj : Addresses, kind : FenKinds],
        fault : BOOLEAN]

Faultless(p) == p.fault = FALSE

(* x is about the object of the entry e.                                   *)
Of(x, e) == x.port = e.port /\ x.obj = e.obj

On(E, q) == {e \in E : e.port = q}

Injective(E) == \A d, e \in E : d.obj = e.obj \/ d.name = e.name => d = e

Counted(p, E) ==
  /\ 1 \in DOMAIN p.ports
  /\ \A q \in DOMAIN p.ports :
       p.ports[q] = Cardinality(On(E, q)) + Others(q) /\ p.ports[q] \in 1 .. MaxEv
  /\ \A e \in E : e.port \in DOMAIN p.ports

Told(p, E) ==
  /\ \A x \in p.assoc : \E e \in E : Of(x, e) /\ x.node = e.name
  /\ \A x \in p.queue : \E e \in E : Of(x, e)
  /\ \A x, y \in p.queue : Of(x, y) => x = y
  /\ \A x \in p.assoc, y \in p.queue : ~Of(x, y)

Stamped(p, E) ==
  /\ \A a \in Addresses : p.cookie[a] <= p.id
  /\ \A e \in E : p.cookie[e.obj] = p.id

(* The objects of p are those of the entries E, and nothing else is        *)
(* associated, waits, or is counted.                                       *)
Own(p, E) ==
  /\ p \in Fen /\ Faultless(p)
  /\ E \subseteq Entry /\ IsFiniteSet(E) /\ Injective(E)
  /\ \A a \in Addresses : p.heap[a] = "free" <=> \A e \in E : e.obj # a
  /\ Told(p, E) /\ Counted(p, E) /\ Stamped(p, E)

(* What the operations on objects leave alone                              *)
Keeps(p, r) == r.id = p.id /\ r.watched = p.watched /\ r.follow = p.follow /\ r.entries = p.entries

LEMMA OnFinite ==
  ASSUME NEW E, IsFiniteSet(E), NEW q
  PROVE  IsFiniteSet(On(E, q)) /\ Cardinality(On(E, q)) \in Nat
<1>1. On(E, q) \in SUBSET E  BY DEF On
<1> QED BY <1>1, FS_Subset, FS_CardinalityType

LEMMA OnWithout ==
  ASSUME NEW E, IsFiniteSet(E), NEW e \in E, NEW q
  PROVE  Cardinality(On(E \ {e}, q)) =
           IF q = e.port THEN Cardinality(On(E, q)) - 1 ELSE Cardinality(On(E, q))
<1>1. CASE q = e.port
  <2>1. On(E \ {e}, q) = On(E, q) \ {e} /\ e \in On(E, q)  BY <1>1 DEF On
  <2> QED BY <1>1, <2>1, OnFinite, FS_RemoveElement
<1>2. CASE q # e.port
  <2>1. On(E \ {e}, q) = On(E, q)  BY <1>2 DEF On
  <2> QED BY <1>2, <2>1
<1> QED BY <1>1, <1>2

LEMMA OnWith ==
  ASSUME NEW E, IsFiniteSet(E), NEW e, e \notin E, NEW q
  PROVE  Cardinality(On(E \cup {e}, q)) =
           IF q = e.port THEN Cardinality(On(E, q)) + 1 ELSE Cardinality(On(E, q))
<1>1. CASE q = e.port
  <2>1. On(E \cup {e}, q) = On(E, q) \cup {e} /\ e \notin On(E, q)  BY <1>1 DEF On
  <2>2. IsFiniteSet(On(E, q)) /\ Cardinality(On(E, q)) \in Nat  BY OnFinite
  <2>3. Cardinality(On(E, q) \cup {e}) = Cardinality(On(E, q)) + 1  BY <2>1, <2>2, FS_AddElement
  <2> QED BY <1>1, <2>1, <2>3
<1>2. CASE q # e.port
  <2>1. On(E \cup {e}, q) = On(E, q)  BY <1>2 DEF On
  <2> QED BY <1>2, <2>1
<1> QED BY <1>1, <1>2

(* The last entry on a port of its own                                     *)
LEMMA LastOn ==
  ASSUME NEW E, IsFiniteSet(E), NEW e \in E, Cardinality(On(E, e.port)) + Others(e.port) <= 1
  PROVE  e.port # 1 /\ On(E, e.port) = {e}
<1>1. e \in On(E, e.port)  BY DEF On
<1>2. On(E, e.port) # {} /\ IsFiniteSet(On(E, e.port)) /\ Cardinality(On(E, e.port)) \in Nat
  BY <1>1, OnFinite
<1>3. Cardinality(On(E, e.port)) # 0  BY <1>2, FS_EmptySet
<1>4. Others(e.port) \in {0, 1}  BY DEF Others
<1>5. Cardinality(On(E, e.port)) = 1 /\ Others(e.port) = 0  BY <1>2, <1>3, <1>4
<1>6. \E x : On(E, e.port) = {x}  BY <1>2, <1>5, FS_Singleton
<1> QED BY <1>1, <1>5, <1>6 DEF Others

LEMMA DissociateDoes ==
  ASSUME NEW p \in Fen, Faultless(p), NEW q, NEW a \in Addresses, p.heap[a] # "free",
         NEW r, r = Dissociate(p, q, a)
  PROVE  /\ r \in Fen /\ Faultless(r) /\ Keeps(p, r)
         /\ r.heap = p.heap /\ r.cookie = p.cookie /\ r.ports = p.ports
         /\ \A x : x \in r.assoc <=> x \in p.assoc /\ (x.port # q \/ x.obj # a)
         /\ \A x : x \in r.queue <=> x \in p.queue /\ (x.port # q \/ x.obj # a)
  BY DEF Dissociate, Fen, Keeps, Faultless

LEMMA FreeObjectDoes ==
  ASSUME NEW p \in Fen, Faultless(p), NEW a \in Addresses, p.heap[a] # "free",
         NEW r, r = FreeObject(p, a)
  PROVE  /\ r \in Fen /\ Faultless(r) /\ Keeps(p, r)
         /\ \A b \in Addresses : r.heap[b] = IF b = a THEN "free" ELSE p.heap[b]
         /\ \A b \in Addresses : r.cookie[b] = IF b = a THEN 0 ELSE p.cookie[b]
         /\ r.ports = p.ports
         /\ r.assoc = p.assoc /\ r.queue = p.queue
  BY DEF FreeObject, Fen, Keeps, Faultless

LEMMA ReleasePortDoes ==
  ASSUME NEW p \in Fen, NEW q \in DOMAIN p.ports, p.ports[q] \in Nat \ {0},
         NEW r, r = ReleasePort(p, q)
  PROVE  /\ r \in Fen /\ (Faultless(p) => Faultless(r)) /\ Keeps(p, r)
         /\ r.heap = p.heap /\ r.cookie = p.cookie
         /\ IF p.ports[q] > 1
            THEN /\ DOMAIN r.ports = DOMAIN p.ports
                 /\ \A s \in DOMAIN p.ports : r.ports[s] = p.ports[s] - (IF s = q THEN 1 ELSE 0)
                 /\ r.assoc = p.assoc /\ r.queue = p.queue
            ELSE /\ DOMAIN r.ports = DOMAIN p.ports \ {q}
                 /\ \A s \in DOMAIN r.ports : r.ports[s] = p.ports[s]
                 /\ \A x : x \in r.assoc <=> x \in p.assoc /\ x.port # q
                 /\ \A x : x \in r.queue <=> x \in p.queue /\ x.port # q
<1>1. PICK D \in SUBSET Ports : p.ports \in [D -> Nat]  BY DEF Fen
<1>2. CASE p.ports[q] > 1
  <2>1. r = [p EXCEPT !.ports[q] = @ - 1]  BY <1>2 DEF ReleasePort
  <2>2. [p.ports EXCEPT ![q] = @ - 1] \in [D -> Nat]  BY <1>1, <1>2
  <2> QED BY <1>1, <1>2, <2>1, <2>2 DEF Fen, Keeps, Faultless
<1>3. CASE ~(p.ports[q] > 1)
  <2> DEFINE ports == [s \in DOMAIN p.ports \ {q} |-> p.ports[s]]
  <2>1. r = [p EXCEPT !.ports = ports, !.assoc = {x \in @ : x.port # q}, !.queue = {x \in @ : x.port # q}]
    BY <1>3 DEF ReleasePort, ClosePort
  <2>2. ports \in [D \ {q} -> Nat] /\ D \ {q} \in SUBSET Ports  BY <1>1
  <2>3. DOMAIN ports = DOMAIN p.ports \ {q} /\ \A s \in DOMAIN ports : ports[s] = p.ports[s]
    OBVIOUS
  <2> HIDE DEF ports
  <2>4. (Faultless(p) => Faultless(r)) /\ Keeps(p, r) /\ r.heap = p.heap /\ r.cookie = p.cookie /\ r.ports = ports
    BY <2>1 DEF Fen, Keeps, Faultless
  <2>5. ports \in UNION {[C -> Nat] : C \in SUBSET Ports}  BY <2>2
  <2>6. r \in Fen  BY <2>1, <2>5, ZenonT(30) DEF Fen
  <2>7. DOMAIN r.ports = DOMAIN p.ports \ {q} /\ \A s \in DOMAIN r.ports : r.ports[s] = p.ports[s]
    BY <2>3, <2>4
  <2>8. \A x : x \in r.assoc <=> x \in p.assoc /\ x.port # q  BY <2>1 DEF Fen
  <2>9. \A x : x \in r.queue <=> x \in p.queue /\ x.port # q  BY <2>1 DEF Fen
  <2> QED BY <1>3, <2>4, <2>6, <2>7, <2>8, <2>9
<1> QED BY <1>2, <1>3

(* An object that is neither associated nor has events is freed.           *)
LEMMA Freed ==
  ASSUME NEW p, NEW E, Own(p, E), NEW e \in E, \A x \in p.assoc \cup p.queue : ~Of(x, e),
         NEW r, r = ReleasePort(FreeObject(p, e.obj), e.port)
  PROVE  Own(r, E \ {e}) /\ Keeps(p, r)
<1>1. /\ p \in Fen /\ Faultless(p)
      /\ E \subseteq Entry /\ IsFiniteSet(E) /\ Injective(E)
      /\ \A a \in Addresses : p.heap[a] = "free" <=> \A d \in E : d.obj # a
      /\ Told(p, E) /\ Counted(p, E) /\ Stamped(p, E)
  BY DEF Own
<1>2. e.obj \in Addresses /\ e.port \in Ports /\ p.heap[e.obj] # "free"  BY <1>1 DEF Entry
<1>3. PICK f : f = FreeObject(p, e.obj)  OBVIOUS
<1>4. /\ f \in Fen /\ Faultless(f) /\ Keeps(p, f)
      /\ \A b \in Addresses : f.heap[b] = IF b = e.obj THEN "free" ELSE p.heap[b]
      /\ \A b \in Addresses : f.cookie[b] = IF b = e.obj THEN 0 ELSE p.cookie[b]
      /\ f.ports = p.ports
      /\ f.assoc = p.assoc /\ f.queue = p.queue
  BY <1>1, <1>2, <1>3, FreeObjectDoes
<1>5. e.port \in DOMAIN f.ports /\ f.ports[e.port] \in Nat \ {0}
      /\ f.ports[e.port] = Cardinality(On(E, e.port)) + Others(e.port)
  BY <1>1, <1>4, PortAssumption DEF Counted
<1>6. /\ r \in Fen /\ (Faultless(f) => Faultless(r)) /\ Keeps(f, r) /\ r.heap = f.heap /\ r.cookie = f.cookie
      /\ IF f.ports[e.port] > 1
         THEN /\ DOMAIN r.ports = DOMAIN f.ports
              /\ \A s \in DOMAIN f.ports : r.ports[s] = f.ports[s] - (IF s = e.port THEN 1 ELSE 0)
              /\ r.assoc = f.assoc /\ r.queue = f.queue
         ELSE /\ DOMAIN r.ports = DOMAIN f.ports \ {e.port}
              /\ \A s \in DOMAIN r.ports : r.ports[s] = f.ports[s]
              /\ \A x : x \in r.assoc <=> x \in f.assoc /\ x.port # e.port
              /\ \A x : x \in r.queue <=> x \in f.queue /\ x.port # e.port
  <2>1. r = ReleasePort(f, e.port)  BY <1>3
  <2> QED BY <1>4, <1>5, <2>1, ReleasePortDoes
<1>7. r \in Fen /\ Faultless(r) /\ Keeps(p, r)  BY <1>4, <1>6 DEF Keeps
<1>8. E \ {e} \subseteq Entry /\ IsFiniteSet(E \ {e}) /\ Injective(E \ {e})
  BY <1>1, FS_RemoveElement DEF Injective
<1>9. \A a \in Addresses : r.heap[a] = "free" <=> \A d \in E \ {e} : d.obj # a
  <2> TAKE a \in Addresses
  <2>2. r.heap[a] = IF a = e.obj THEN "free" ELSE p.heap[a]  BY <1>4, <1>6
  <2>3. \A d \in E : d.obj = e.obj => d = e  BY <1>1 DEF Injective
  <2>4. CASE a = e.obj  BY <2>2, <2>3, <2>4
  <2>5. CASE a # e.obj
    <3>1. (\A d \in E \ {e} : d.obj # a) <=> (\A d \in E : d.obj # a)  BY <2>5
    <3> QED BY <1>1, <2>2, <2>5, <3>1
  <2> QED BY <2>4, <2>5
<1>10. Told(r, E \ {e})
  <2>1. r.assoc \subseteq p.assoc /\ r.queue \subseteq p.queue  BY <1>4, <1>6
  <2>2. \A x \in p.assoc : x \in r.assoc => \E d \in E \ {e} : Of(x, d) /\ x.node = d.name
    BY <1>1 DEF Told
  <2>3. \A x \in p.queue : x \in r.queue => \E d \in E \ {e} : Of(x, d)
    BY <1>1 DEF Told
  <2> QED BY <1>1, <2>1, <2>2, <2>3 DEF Told
<1>11. Counted(r, E \ {e})
  <2>1. /\ 1 \in DOMAIN p.ports
        /\ \A q \in DOMAIN p.ports :
             p.ports[q] = Cardinality(On(E, q)) + Others(q) /\ p.ports[q] \in 1 .. MaxEv
        /\ \A d \in E : d.port \in DOMAIN p.ports
    BY <1>1 DEF Counted
  <2>2. \A q : Cardinality(On(E, q)) \in Nat /\ Others(q) \in {0, 1}  BY <1>1, OnFinite DEF Others
  <2>3. \A q : Cardinality(On(E \ {e}, q)) =
          IF q = e.port THEN Cardinality(On(E, q)) - 1 ELSE Cardinality(On(E, q))
    BY <1>1, OnWithout
  <2>4. CASE f.ports[e.port] > 1
    <3>2. DOMAIN r.ports = DOMAIN p.ports  BY <1>4, <1>6, <2>4
    <3>3. \A q \in DOMAIN p.ports : r.ports[q] = p.ports[q] - (IF q = e.port THEN 1 ELSE 0)
      BY <1>4, <1>6, <2>4
    <3>4. MaxEv \in Nat /\ p.ports[e.port] > 1  BY <1>4, <2>4, PortAssumption
    <3>5. ASSUME NEW q \in DOMAIN p.ports
          PROVE  r.ports[q] = Cardinality(On(E \ {e}, q)) + Others(q) /\ r.ports[q] \in 1 .. MaxEv
      <4>1. CASE q = e.port
        <5>1. r.ports[q] = p.ports[q] - 1 /\ p.ports[q] = Cardinality(On(E, q)) + Others(q)
          BY <2>1, <3>3, <4>1
        <5>2. Cardinality(On(E \ {e}, q)) = Cardinality(On(E, q)) - 1  BY <2>3, <4>1
        <5>3. p.ports[q] \in 1 .. MaxEv /\ p.ports[q] > 1  BY <2>1, <3>4, <4>1
        <5> QED BY <2>2, <3>4, <5>1, <5>2, <5>3
      <4>2. CASE q # e.port
        <5>1. p.ports[q] \in Int  BY <2>1, <3>4
        <5>2. r.ports[q] = p.ports[q]  BY <3>3, <4>2, <5>1
        <5> QED BY <2>1, <2>3, <4>2, <5>2
      <4> QED BY <4>1, <4>2
    <3> QED BY <2>1, <3>2, <3>5 DEF Counted
  <2>5. CASE ~(f.ports[e.port] > 1)
    <3>1. /\ DOMAIN r.ports = DOMAIN p.ports \ {e.port}
          /\ \A q \in DOMAIN r.ports : r.ports[q] = p.ports[q]
      BY <1>4, <1>6, <2>5
    <3>2. Cardinality(On(E, e.port)) + Others(e.port) <= 1  BY <1>5, <2>2, <2>5
    <3>3. e.port # 1 /\ On(E, e.port) = {e}  BY <1>1, <3>2, LastOn
    <3>4. \A d \in E \ {e} : d.port # e.port  BY <3>3 DEF On
    <3> QED BY <2>1, <2>3, <3>1, <3>3, <3>4 DEF Counted
  <2> QED BY <2>4, <2>5
<1>12. Stamped(r, E \ {e})
  <2>1. r.id = p.id /\ p.id \in Nat  BY <1>1, <1>7 DEF Keeps, Fen
  <2>2. \A a \in Addresses : r.cookie[a] = IF a = e.obj THEN 0 ELSE p.cookie[a]  BY <1>4, <1>6
  <2>3. \A a \in Addresses : r.cookie[a] <= r.id  BY <1>1, <2>1, <2>2 DEF Stamped
  <2>4. \A d \in E \ {e} : d.obj \in Addresses /\ d.obj # e.obj  BY <1>1 DEF Injective, Entry
  <2>5. \A d \in E \ {e} : r.cookie[d.obj] = r.id  BY <1>1, <2>1, <2>2, <2>4 DEF Stamped
  <2> QED BY <2>3, <2>5 DEF Stamped
<1> QED BY <1>7, <1>8, <1>9, <1>10, <1>11, <1>12 DEF Own

LEMMA Dissociated ==
  ASSUME NEW p, NEW E, Own(p, E), NEW e \in E, NEW r, r = Dissociate(p, e.port, e.obj)
  PROVE  Own(r, E) /\ Keeps(p, r) /\ \A x \in r.assoc \cup r.queue : ~Of(x, e)
<1>1. /\ p \in Fen /\ Faultless(p)
      /\ E \subseteq Entry /\ IsFiniteSet(E) /\ Injective(E)
      /\ \A a \in Addresses : p.heap[a] = "free" <=> \A d \in E : d.obj # a
      /\ Told(p, E) /\ Counted(p, E) /\ Stamped(p, E)
  BY DEF Own
<1>2. e.obj \in Addresses /\ p.heap[e.obj] # "free"  BY <1>1 DEF Entry
<1>3. /\ r \in Fen /\ Faultless(r) /\ Keeps(p, r) /\ r.heap = p.heap /\ r.cookie = p.cookie
      /\ r.ports = p.ports
      /\ \A x : x \in r.assoc <=> x \in p.assoc /\ (x.port # e.port \/ x.obj # e.obj)
      /\ \A x : x \in r.queue <=> x \in p.queue /\ (x.port # e.port \/ x.obj # e.obj)
  BY <1>1, <1>2, DissociateDoes
<1>4. \A x \in r.assoc \cup r.queue : ~Of(x, e)  BY <1>3 DEF Of
<1>5. Told(r, E)
  <2>1. r.assoc \subseteq p.assoc /\ r.queue \subseteq p.queue  BY <1>3
  <2> QED BY <1>1, <2>1 DEF Told
<1>6. Counted(r, E)  BY <1>1, <1>3 DEF Counted
<1>7. Stamped(r, E)  BY <1>1, <1>3 DEF Stamped, Keeps
<1> QED BY <1>1, <1>3, <1>4, <1>5, <1>6, <1>7 DEF Own

(* release_watch, for one object                                           *)
Without(p, e) == ReleasePort(FreeObject(Dissociate(p, e.port, e.obj), e.obj), e.port)

LEMMA Unwatched ==
  ASSUME NEW p, NEW E, Own(p, E), NEW e \in E, NEW r, r = Without(p, e)
  PROVE  Own(r, E \ {e}) /\ Keeps(p, r)
<1>1. PICK d : d = Dissociate(p, e.port, e.obj)  OBVIOUS
<1>2. Own(d, E) /\ Keeps(p, d) /\ \A x \in d.assoc \cup d.queue : ~Of(x, e)
  BY <1>1, Dissociated
<1>3. r = ReleasePort(FreeObject(d, e.obj), e.port)  BY <1>1 DEF Without
<1>4. Own(r, E \ {e}) /\ Keeps(d, r)  BY <1>2, <1>3, Freed
<1> QED BY <1>2, <1>4 DEF Keeps

LEMMA LeastOf ==
  ASSUME NEW n \in Nat, NEW S \in SUBSET (1 .. n), S # {}
  PROVE  \E a \in S : \A b \in S : a <= b
<1> DEFINE R == {x \in S \X S : x[1] >= x[2]}
<1>1. \A x, y \in S : <<x, y>> \in R <=> x >= y  OBVIOUS
<1>2. \E m \in S : \A x \in S : <<x, m>> \in R
  <2>1. IsFiniteSet(1 .. n)  BY FS_Interval
  <2>0. IsFiniteSet(S)  BY <2>1, FS_Subset
  <2> HIDE DEF R
  <2>t. \A x, y \in S : x >= y \/ y >= x  OBVIOUS
  <2>2. \A x, y \in S : <<x, y>> \in R \/ <<y, x>> \in R  BY <1>1, <2>t
  <2>3. \A x, y, z \in S : <<x, y>> \in R /\ <<y, z>> \in R => <<x, z>> \in R  BY <1>1
  <2> QED BY <2>0, <2>2, <2>3, GreatestInSet
<1> QED BY <1>1, <1>2

(* The files and the directory are as many as there are addresses, at      *)
(* most, and there is a port for each of them and for another one.         *)
LEMMA SizesKnown ==
  /\ IsFiniteSet(Names) /\ Cardinality(Names) \in Nat
  /\ IsFiniteSet(Names \cup {Root}) /\ Cardinality(Names \cup {Root}) = Cardinality(Names) + 1
  /\ MaxObject \in Nat /\ Addresses = 1 .. MaxObject /\ IsFiniteSet(Addresses)
  /\ Cardinality(Addresses) = MaxObject /\ MaxObject > Cardinality(Names)
  /\ Cardinality(Names) + 2 \in Nat /\ Ports = 1 .. Cardinality(Names) + 2 /\ IsFiniteSet(Ports)
  /\ Cardinality(Ports) = Cardinality(Names) + 2 /\ 1 \in Ports
<1>1. IsFiniteSet(Names) /\ Root \notin Names /\ MaxObject \in Nat /\ MaxObject > Cardinality(Names)
  BY WatchAssumption, PortAssumption
<1>2. Cardinality(Names) \in Nat  BY <1>1, FS_CardinalityType
<1>3. IsFiniteSet(Names \cup {Root}) /\ Cardinality(Names \cup {Root}) = Cardinality(Names) + 1
  BY <1>1, FS_AddElement
<1>4. IsFiniteSet(Addresses) /\ Cardinality(Addresses) = MaxObject
  BY <1>1, <1>2, FS_Interval DEF Addresses
<1>5. IsFiniteSet(Ports) /\ Cardinality(Ports) = Cardinality(Names) + 2
  BY <1>2, FS_Interval DEF Ports
<1> QED BY <1>1, <1>2, <1>3, <1>4, <1>5 DEF Addresses, Ports

(* Entries of different names, and one name that has none: they are not    *)
(* more than the files.                                                    *)
LEMMA FewEntries ==
  ASSUME NEW E \in SUBSET Entry, IsFiniteSet(E), Injective(E),
         NEW n \in Names \cup {Root}, \A e \in E : e.name # n
  PROVE  Cardinality(E) \in Nat /\ Cardinality(E) <= Cardinality(Names)
<1> DEFINE M == (Names \cup {Root}) \ {n}
           f == [e \in E |-> e.name]
<1>1. IsFiniteSet(M) /\ Cardinality(M) = Cardinality(Names)
  <2> DEFINE A == Names \cup {Root}
  <2>1. IsFiniteSet(A) /\ Cardinality(A) = Cardinality(Names) + 1 /\ Cardinality(Names) \in Nat
    BY SizesKnown
  <2>2. n \in A  OBVIOUS
  <2> HIDE DEF A
  <2>3. IsFiniteSet(A \ {n}) /\ Cardinality(A \ {n}) = Cardinality(A) - 1
    BY <2>1, <2>2, FS_RemoveElement
  <2>4. Cardinality(A \ {n}) = Cardinality(Names)  BY <2>1, <2>3
  <2> QED BY <2>3, <2>4 DEF A
<1>2. f \in Injection(E, M)
  <2>1. f \in [E -> M]  BY DEF Entry
  <2>2. \A d, e \in E : f[d] = f[e] => d = e  BY DEF Injective
  <2> QED BY <2>1, <2>2 DEF Injection, IsInjective
<1> HIDE DEF f, M
<1> QED BY <1>1, <1>2, FS_Injection, FS_CardinalityType

LEMMA FewPlaces ==
  ASSUME NEW E, IsFiniteSet(E), NEW f \in [E -> Nat], NEW T, T = {f[e] : e \in E}
  PROVE  IsFiniteSet(T) /\ Cardinality(T) \in Nat /\ Cardinality(T) <= Cardinality(E)
<1>1. f \in Surjection(E, T)  BY DEF Surjection
<1> QED BY <1>1, FS_Surjection, FS_CardinalityType

LEMMA SpareAddress ==
  ASSUME NEW p, NEW E, Own(p, E), NEW n \in Names \cup {Root}, \A e \in E : e.name # n
  PROVE  NewAddress(p) \in Addresses /\ p.heap[NewAddress(p)] = "free"
<1>1. /\ E \in SUBSET Entry /\ IsFiniteSet(E) /\ Injective(E)
      /\ \A a \in Addresses : p.heap[a] = "free" <=> \A d \in E : d.obj # a
  BY DEF Own
<1> DEFINE f == [e \in E |-> e.obj]
           T == {f[e] : e \in E}
<1>2. f \in [E -> Nat] /\ T \subseteq Addresses  BY <1>1, SizesKnown DEF Entry
<1>3. T = {f[e] : e \in E}  OBVIOUS
<1>4. Cardinality(T) \in Nat /\ Cardinality(T) <= Cardinality(E)
  <2> HIDE DEF f, T
  <2> QED BY <1>1, <1>2, <1>3, FewPlaces
<1>5. Cardinality(E) \in Nat /\ Cardinality(E) <= Cardinality(Names)  BY <1>1, FewEntries
<1>6. T # Addresses
  <2> HIDE DEF T, f
  <2> QED BY <1>4, <1>5, SizesKnown
<1>7. PICK a \in Addresses : a \notin T  BY <1>2, <1>6
<1>8. a \in Free(p)  BY <1>1, <1>7 DEF Free
<1>9. Free(p) \in SUBSET (1 .. MaxObject)  BY SizesKnown DEF Free
<1>10. \E b \in Free(p) : \A c \in Free(p) : b <= c  BY <1>8, <1>9, LeastOf, SizesKnown
<1>11. NewAddress(p) \in Free(p)  BY <1>10 DEF NewAddress
<1> QED BY <1>11 DEF Free

LEMMA SparePort ==
  ASSUME NEW p, NEW E, Own(p, E), NEW n \in Names \cup {Root}, \A e \in E : e.name # n,
         NEW q, q = AllocatePort(p)
  PROVE  q \in Ports /\ (q \in DOMAIN p.ports => p.ports[q] < MaxEv)
<1>1. /\ p \in Fen /\ E \in SUBSET Entry /\ IsFiniteSet(E) /\ Injective(E) /\ Counted(p, E)
  BY DEF Own
<1>2. DOMAIN p.ports \subseteq Ports  BY <1>1 DEF Fen
<1>3. CASE Room(p) # {}
  <2>1. q \in Room(p)  BY <1>3 DEF AllocatePort
  <2> QED BY <1>2, <2>1 DEF Room
<1>4. CASE Room(p) = {}
  <2> DEFINE f == [e \in E |-> e.port]
             T == {f[e] : e \in E}
  <2>1. f \in [E -> Nat] /\ T \subseteq Ports  BY <1>1, SizesKnown DEF Entry
  <2>2. T = {f[e] : e \in E}  OBVIOUS
  <2>3. IsFiniteSet(T) /\ Cardinality(T) \in Nat /\ Cardinality(T) <= Cardinality(E)
    <3> HIDE DEF f, T
    <3> QED BY <1>1, <2>1, <2>2, FewPlaces
  <2>4. Cardinality(E) \in Nat /\ Cardinality(E) <= Cardinality(Names)  BY <1>1, FewEntries
  <2>5. DOMAIN p.ports \subseteq T \cup {1}
    <3> SUFFICES ASSUME NEW s \in DOMAIN p.ports, s # 1 PROVE s \in T
      OBVIOUS
    <3>1. Cardinality(On(E, s)) + Others(s) \in 1 .. MaxEv  BY <1>1 DEF Counted
    <3>2. Cardinality(On(E, s)) # 0  BY <3>1 DEF Others
    <3>3. On(E, s) # {}  BY <3>2, FS_EmptySet
    <3> QED BY <3>3 DEF On
  <2> HIDE DEF T, f
  <2>6. IsFiniteSet(T \cup {1}) /\ Cardinality(T \cup {1}) <= Cardinality(T) + 1
        /\ Cardinality(T \cup {1}) \in Nat
    <3>1. IsFiniteSet(T \cup {1})
          /\ Cardinality(T \cup {1}) = IF 1 \in T THEN Cardinality(T) ELSE Cardinality(T) + 1
      BY <2>3, FS_AddElement
    <3> QED BY <2>3, <3>1
  <2>7. T \cup {1} # Ports
    <3>1. Cardinality(T \cup {1}) <= Cardinality(Names) + 1 /\ Cardinality(Names) \in Nat
      BY <2>3, <2>4, <2>6, SizesKnown
    <3>2. Cardinality(Ports) = Cardinality(Names) + 2  BY SizesKnown
    <3>3. Cardinality(T \cup {1}) # Cardinality(Ports)  BY <2>6, <3>1, <3>2
    <3> QED BY <3>3
  <2>8. Ports \ DOMAIN p.ports # {}  BY <2>1, <2>5, <2>7, SizesKnown
  <2>9. Ports \ DOMAIN p.ports \in SUBSET (1 .. Cardinality(Names) + 2)  BY SizesKnown
  <2>10. \E a \in Ports \ DOMAIN p.ports : \A b \in Ports \ DOMAIN p.ports : a <= b
    BY <2>8, <2>9, LeastOf, SizesKnown
  <2>11. NewPort(p) \in Ports \ DOMAIN p.ports  BY <2>10 DEF NewPort
  <2> QED BY <1>4, <2>11 DEF AllocatePort
<1> QED BY <1>3, <1>4

LEMMA AssociateDoes ==
  ASSUME NEW p \in Fen, NEW n, NEW node \in Nodes, n \in Names \cup {Root},
         NEW q, q = AllocatePort(p), q \in Ports,
         NEW a, a = NewAddress(p), a \in Addresses,
         NEW r, r = Associate(p, n, node)
  PROVE  /\ r \in Fen /\ (Faultless(p) => Faultless(r))
         /\ r.id = p.id /\ r.watched = p.watched /\ r.follow = p.follow
         /\ r.entries = p.entries \cup {[port |-> q, obj |-> a, name |-> n]}
         /\ \A b \in Addresses : r.heap[b] = IF b = a THEN "clear" ELSE p.heap[b]
         /\ \A b \in Addresses : r.cookie[b] = IF b = a THEN p.id ELSE p.cookie[b]
         /\ DOMAIN r.ports = DOMAIN p.ports \cup {q}
         /\ \A s \in DOMAIN r.ports :
              r.ports[s] = IF s \in DOMAIN p.ports THEN p.ports[s] + (IF s = q THEN 1 ELSE 0) ELSE 1
         /\ \A x : x \in r.assoc <=> \/ x \in p.assoc /\ (x.obj # a \/ x.port # q)
                                   \/ x = [port |-> q, obj |-> a, node |-> node]
         /\ r.queue = p.queue
<1> DEFINE ports == [s \in DOMAIN p.ports \cup {q} |->
                       IF s \in DOMAIN p.ports THEN p.ports[s] + (IF s = q THEN 1 ELSE 0) ELSE 1]
           new == [port |-> q, obj |-> a, name |-> n]
           link == [port |-> q, obj |-> a, node |-> node]
<1>1. r = [p EXCEPT !.heap[a] = "clear", !.cookie[a] = p.id, !.ports = ports,
                    !.assoc = {x \in @ : x.obj # a \/ x.port # q} \cup {link},
                    !.entries = @ \cup {new}]
  BY DEF Associate
<1>2. PICK D \in SUBSET Ports : p.ports \in [D -> Nat]  BY DEF Fen
<1>3. ports \in [D \cup {q} -> Nat] /\ D \cup {q} \in SUBSET Ports  BY <1>2
<1>4. ports \in UNION {[C -> Nat] : C \in SUBSET Ports}  BY <1>3
<1>5. /\ DOMAIN ports = DOMAIN p.ports \cup {q}
      /\ \A s \in DOMAIN ports :
           ports[s] = IF s \in DOMAIN p.ports THEN p.ports[s] + (IF s = q THEN 1 ELSE 0) ELSE 1
  OBVIOUS
<1>6. new \in Entry /\ link \in [port : Ports, obj : Addresses, node : Nodes]  BY DEF Entry
<1> HIDE DEF ports, new, link
<1>7. r \in Fen
  <2> DEFINE heap == [p.heap EXCEPT ![a] = "clear"]
             cookie == [p.cookie EXCEPT ![a] = p.id]
             assoc == {x \in p.assoc : x.obj # a \/ x.port # q} \cup {link}
             entries == p.entries \cup {new}
  <2>1. r = [p EXCEPT !.heap = heap, !.cookie = cookie, !.ports = ports, !.assoc = assoc,
                      !.entries = entries]
    BY <1>1 DEF Fen
  <2>2. heap \in [Addresses -> {"free", "clear", "exception"}]  BY DEF Fen
  <2>3. cookie \in [Addresses -> Nat]  BY DEF Fen
  <2>4. assoc \in SUBSET [port : Ports, obj : Addresses, node : Nodes]  BY <1>6 DEF Fen
  <2>5. entries \in SUBSET Entry  BY <1>6 DEF Fen
  <2> HIDE DEF heap, cookie, assoc, entries
  <2> QED BY <1>4, <2>1, <2>2, <2>3, <2>4, <2>5, ZenonT(30) DEF Fen
<1>8. /\ Faultless(p) => Faultless(r)
      /\ r.id = p.id /\ r.watched = p.watched /\ r.follow = p.follow
      /\ r.entries = p.entries \cup {new} /\ r.ports = ports /\ r.queue = p.queue
  BY <1>1 DEF Fen, Faultless
<1>9. /\ \A b \in Addresses : r.heap[b] = IF b = a THEN "clear" ELSE p.heap[b]
      /\ \A b \in Addresses : r.cookie[b] = IF b = a THEN p.id ELSE p.cookie[b]
  BY <1>1 DEF Fen
<1>10. \A x : x \in r.assoc <=> (x \in p.assoc /\ (x.obj # a \/ x.port # q)) \/ x = link
  BY <1>1 DEF Fen
<1>11. /\ DOMAIN r.ports = DOMAIN p.ports \cup {q}
       /\ \A s \in DOMAIN r.ports :
            r.ports[s] = IF s \in DOMAIN p.ports THEN p.ports[s] + (IF s = q THEN 1 ELSE 0) ELSE 1
  BY <1>5, <1>8
<1> QED BY <1>7, <1>8, <1>9, <1>10, <1>11 DEF new, link

(* r has one entry more than p, e for the file n.                          *)
Added(p, E, n, r, e) ==
  /\ e \in Entry /\ e.name = n /\ Own(r, E \cup {e})
  /\ r.id = p.id /\ r.watched = p.watched /\ r.follow = p.follow
  /\ r.entries = p.entries \cup {e} /\ r.queue = p.queue
  /\ \E x \in r.assoc : Of(x, e)
  /\ \A x \in p.assoc : x \in r.assoc

(* associate, for a file that has no entry                                 *)
LEMMA Associated ==
  ASSUME NEW p, NEW E, Own(p, E), NEW n, n \in Names \cup {Root}, \A e \in E : e.name # n,
         NEW r, r = Associate(p, n, n)
  PROVE  \E e : Added(p, E, n, r, e)
<1>1. /\ p \in Fen /\ Faultless(p)
      /\ E \subseteq Entry /\ IsFiniteSet(E) /\ Injective(E)
      /\ \A a \in Addresses : p.heap[a] = "free" <=> \A d \in E : d.obj # a
      /\ Told(p, E) /\ Counted(p, E) /\ Stamped(p, E)
  BY DEF Own
<1>2. PICK q, a : q = AllocatePort(p) /\ a = NewAddress(p)  OBVIOUS
<1>3. a \in Addresses /\ p.heap[a] = "free" /\ \A d \in E : d.obj # a
  BY <1>1, <1>2, SpareAddress
<1>4. q \in Ports /\ (q \in DOMAIN p.ports => p.ports[q] < MaxEv)  BY <1>2, SparePort
<1> DEFINE e == [port |-> q, obj |-> a, name |-> n]
           x0 == [port |-> q, obj |-> a, node |-> n]
<1>5. e \in Entry /\ e.port = q /\ e.obj = a /\ e.name = n  BY <1>3, <1>4 DEF Entry
<1>6. Of(x0, e) /\ x0.node = e.name  BY DEF Of
<1>7. /\ r \in Fen /\ Faultless(r)
      /\ r.id = p.id /\ r.watched = p.watched /\ r.follow = p.follow
      /\ r.entries = p.entries \cup {e}
      /\ \A b \in Addresses : r.heap[b] = IF b = a THEN "clear" ELSE p.heap[b]
      /\ \A b \in Addresses : r.cookie[b] = IF b = a THEN p.id ELSE p.cookie[b]
      /\ DOMAIN r.ports = DOMAIN p.ports \cup {q}
      /\ \A s \in DOMAIN r.ports :
           r.ports[s] = IF s \in DOMAIN p.ports THEN p.ports[s] + (IF s = q THEN 1 ELSE 0) ELSE 1
      /\ \A x : x \in r.assoc <=> (x \in p.assoc /\ (x.obj # a \/ x.port # q)) \/ x = x0
      /\ r.queue = p.queue
  <2>1. n \in Nodes  BY DEF Nodes
  <2> QED BY <1>1, <1>2, <1>3, <1>4, <2>1, AssociateDoes
<1> HIDE DEF e, x0
<1>8. e \notin E /\ \A d \in E : e.obj # d.obj /\ e.name # d.name  BY <1>3, <1>5
<1>9. E \cup {e} \subseteq Entry /\ IsFiniteSet(E \cup {e}) /\ Injective(E \cup {e})
  <2>1. IsFiniteSet(E \cup {e})  BY <1>1, FS_AddElement
  <2>2. Injective(E \cup {e})  BY <1>1, <1>8 DEF Injective
  <2> QED BY <1>1, <1>5, <2>1, <2>2
<1>10. \A b \in Addresses : r.heap[b] = "free" <=> \A d \in E \cup {e} : d.obj # b
  BY <1>1, <1>3, <1>5, <1>7
<1>15. \A x \in p.assoc \cup p.queue : x.obj # a
  <2>1. \A x \in p.assoc \cup p.queue : \E d \in E : Of(x, d)  BY <1>1 DEF Told
  <2> QED BY <1>3, <2>1 DEF Of
<1>11. Told(r, E \cup {e})
  <2>1. \A x \in p.assoc \cup p.queue : ~Of(x, x0)
    <3>1. x0.obj = a  BY DEF x0
    <3> QED BY <1>15, <3>1 DEF Of
  <2>2. \A x \in r.assoc : x \in p.assoc \/ x = x0  BY <1>7
  <2>3. \A x \in r.assoc : \E d \in E \cup {e} : Of(x, d) /\ x.node = d.name
    BY <1>1, <1>6, <2>2 DEF Told
  <2>4. \A y \in p.queue : ~Of(x0, y)  BY <2>1 DEF Of
  <2>5. \A x \in r.assoc, y \in r.queue : ~Of(x, y)  BY <1>1, <1>7, <2>2, <2>4 DEF Told
  <2> QED BY <1>1, <1>7, <2>3, <2>5 DEF Told
<1>12. Counted(r, E \cup {e})
  <2>1. /\ 1 \in DOMAIN p.ports
        /\ \A s \in DOMAIN p.ports :
             p.ports[s] = Cardinality(On(E, s)) + Others(s) /\ p.ports[s] \in 1 .. MaxEv
        /\ \A d \in E : d.port \in DOMAIN p.ports
    BY <1>1 DEF Counted
  <2>2. MaxEv \in Nat \ {0}  BY PortAssumption
  <2>3. \A s : Cardinality(On(E, s)) \in Nat /\ Others(s) \in {0, 1}  BY <1>1, OnFinite DEF Others
  <2>4. \A s : Cardinality(On(E \cup {e}, s)) =
          IF s = q THEN Cardinality(On(E, s)) + 1 ELSE Cardinality(On(E, s))
    BY <1>1, <1>5, <1>8, OnWith
  <2>5. ASSUME NEW s \in DOMAIN r.ports
        PROVE  r.ports[s] = Cardinality(On(E \cup {e}, s)) + Others(s) /\ r.ports[s] \in 1 .. MaxEv
    <3>1. CASE s \in DOMAIN p.ports /\ s = q
      <4>1. r.ports[s] = p.ports[s] + 1 /\ p.ports[s] < MaxEv  BY <1>4, <1>7, <3>1
      <4>2. p.ports[s] = Cardinality(On(E, s)) + Others(s) /\ p.ports[s] \in 1 .. MaxEv  BY <2>1, <3>1
      <4>3. Cardinality(On(E \cup {e}, s)) = Cardinality(On(E, s)) + 1  BY <2>4, <3>1
      <4> QED BY <2>2, <2>3, <4>1, <4>2, <4>3
    <3>2. CASE s \in DOMAIN p.ports /\ s # q
      <4>1. p.ports[s] = Cardinality(On(E, s)) + Others(s) /\ p.ports[s] \in 1 .. MaxEv  BY <2>1, <3>2
      <4>2. r.ports[s] = p.ports[s]  BY <1>7, <2>2, <3>2, <4>1
      <4> QED BY <2>4, <3>2, <4>1, <4>2
    <3>3. CASE s \notin DOMAIN p.ports
      <4>1. s = q /\ r.ports[s] = 1 /\ s # 1  BY <1>7, <2>1, <3>3
      <4>2. On(E, s) = {}  BY <2>1, <3>3 DEF On
      <4>3. Cardinality(On(E, s)) = 0  BY <4>2, FS_EmptySet
      <4>4. Cardinality(On(E \cup {e}, s)) = 1  BY <2>4, <4>1, <4>3
      <4> QED BY <2>2, <4>1, <4>4 DEF Others
    <3> QED BY <3>1, <3>2, <3>3
  <2>6. 1 \in DOMAIN r.ports /\ \A d \in E \cup {e} : d.port \in DOMAIN r.ports  BY <1>5, <1>7, <2>1
  <2> QED BY <2>5, <2>6 DEF Counted
<1>13. Stamped(r, E \cup {e})
  <2>1. p.id \in Nat /\ r.id = p.id  BY <1>1, <1>7 DEF Fen
  <2>2. \A b \in Addresses : r.cookie[b] <= r.id  BY <1>1, <1>7, <2>1 DEF Stamped
  <2>3. r.cookie[e.obj] = r.id  BY <1>3, <1>5, <1>7
  <2>4. \A d \in E : d.obj \in Addresses /\ d.obj # a  BY <1>1, <1>3 DEF Entry
  <2>5. \A d \in E : r.cookie[d.obj] = r.id  BY <1>1, <1>7, <2>1, <2>4 DEF Stamped
  <2> QED BY <2>2, <2>3, <2>5 DEF Stamped
<1>14. Own(r, E \cup {e})  BY <1>7, <1>9, <1>10, <1>11, <1>12, <1>13 DEF Own
<1>16. x0 \in r.assoc /\ \A x \in p.assoc : x \in r.assoc  BY <1>7, <1>15
<1>17. Added(p, E, n, r, e)  BY <1>5, <1>6, <1>7, <1>14, <1>16 DEF Added
<1> QED BY <1>17

(* What only matters to the watch may change.                              *)
LEMMA Alike ==
  ASSUME NEW p, NEW E, Own(p, E), NEW r, r \in Fen, Faultless(r),
         r.heap = p.heap, r.cookie = p.cookie, r.ports = p.ports,
         r.assoc = p.assoc, r.queue = p.queue, r.id = p.id \/ (E = {} /\ r.id >= p.id)
  PROVE  Own(r, E)
<1>1. Told(r, E) /\ Counted(r, E)  BY DEF Own, Told, Counted
<1>2. Stamped(r, E)
  <2>1. p.id \in Nat /\ r.id \in Nat /\ p.id <= r.id /\ \A a \in Addresses : p.cookie[a] \in Nat
    BY DEF Own, Fen
  <2> QED BY <2>1 DEF Own, Stamped
<1> QED BY <1>1, <1>2 DEF Own

NotWatched(p) == p.watched = FALSE

(* Every entry's file is associated.                                       *)
Armed(p) == \A e \in p.entries : \E x \in p.assoc : Of(x, e)

(* The entries are those of the directory and the files F.                 *)
Lists(p, F) == \A n : n \in F \cup {Root} <=> \E e \in p.entries : e.name = n

Choice(s) == CHOOSE x \in s : TRUE

(* release_watch: nothing is left.                                         *)
LEMMA ReleaseWatchDoes ==
  ASSUME NEW p, Own(p, p.entries), NEW r, r = ReleaseWatch(p)
  PROVE  Own(r, {}) /\ r.entries = {} /\ NotWatched(r) /\ r.id = p.id /\ r.follow = p.follow
<1> DEFINE E == p.entries
           base == [p EXCEPT !.watched = FALSE, !.entries = {}]
           F == [x \in E \X Fen |-> Without(x[2], x[1])]
           Good(s) == {q \in Fen : Own(q, E \ s) /\ Keeps(base, q)}
           G == [s \in SUBSET E |-> Good(s)]
           ch == [s \in SUBSET E |-> Choice(s)]
           iter == CHOOSE it : it = [s \in SUBSET E |->
                     IF s = {} THEN base ELSE Without(it[s \ {Choice(s)}], Choice(s))]
<1>1. r = iter[E]  BY DEF ReleaseWatch, FoldSet, MapThenFoldSet, Without, Choice
<1>2. \A s : s # {} => Choice(s) \in s  BY DEF Choice
<1>3. IsFiniteSet(E) /\ Chooses(ch, E)  BY <1>2 DEF Chooses, Own
<1>4. base \in Good({})
  <2>1. base \in Fen /\ (Faultless(p) => Faultless(base)) /\ base.heap = p.heap /\ base.ports = p.ports
        /\ base.assoc = p.assoc /\ base.queue = p.queue /\ base.cookie = p.cookie /\ base.id = p.id
    BY DEF Own, Fen, Faultless
  <2> HIDE DEF base
  <2>2. Told(base, E) /\ Counted(base, E) /\ Stamped(base, E)
    BY <2>1 DEF Own, Told, Counted, Stamped
  <2>3. Own(base, E)  BY <2>1, <2>2 DEF Own
  <2>4. E \ {} = E /\ Keeps(base, base)  BY DEF Keeps
  <2> QED BY <2>1, <2>3, <2>4
<1>5. ASSUME NEW s \in SUBSET E, s # {}, NEW y \in Good(s \ {Choice(s)})
      PROVE  Without(y, Choice(s)) \in Good(s)
  <2> DEFINE e == Choice(s)
             D == E \ (s \ {e})
             z == Without(y, e)
  <2>1. e \in s /\ e \in E  BY <1>2, <1>5
  <2>2. y \in Fen /\ Own(y, D) /\ Keeps(base, y)  BY <1>5
  <2>3. e \in D /\ D \ {e} = E \ s  BY <2>1
  <2> HIDE DEF base, e, E, D
  <2>4. Own(z, D \ {e}) /\ Keeps(y, z)
    <3> HIDE DEF z
    <3>1. z = Without(y, e)  BY DEF z
    <3> QED BY <2>2, <2>3, <3>1, Unwatched
  <2> HIDE DEF z
  <2>5. z \in Fen /\ Keeps(base, z)  BY <2>2, <2>4 DEF Own, Keeps
  <2>6. z \in Good(s)  BY <2>3, <2>4, <2>5
  <2> QED BY <2>6 DEF z, e
<1>6. PICK g : IsFold(g, E, F, base, ch, Fen)
  <2>1. G \in [SUBSET E -> SUBSET Fen] /\ base \in G[{}]  BY <1>4
  <2>2. \A s \in SUBSET E : s # {} => \A y \in G[s \ {ch[s]}] : F[<<ch[s], y>>] \in G[s]
    <3> TAKE s \in SUBSET E
    <3> HAVE s # {}
    <3> TAKE y \in G[s \ {ch[s]}]
    <3>1. s \ {Choice(s)} \in SUBSET E /\ Choice(s) \in E  BY <1>2
    <3>2. ch[s] = Choice(s) /\ G[s] = Good(s) /\ G[s \ {Choice(s)}] = Good(s \ {Choice(s)})  BY <3>1
    <3> HIDE DEF G, ch
    <3>3. y \in Good(s \ {Choice(s)})  BY <3>2
    <3>4. y \in Fen  BY <3>3
    <3>5. F[<<Choice(s), y>>] = Without(y, Choice(s))  BY <3>1, <3>4
    <3> HIDE DEF F, Good
    <3>6. Without(y, Choice(s)) \in Good(s)  BY <1>5, <3>3
    <3> QED BY <3>2, <3>5, <3>6
  <2> HIDE DEF E, G, F, base, ch
  <2>3. Within(G, F, base, ch, E, Fen)  BY <2>1, <2>2 DEF Within
  <2> QED BY <1>3, <2>3, FoldWithin
<1>7. \A s \in SUBSET E :
        g[s] = IF s = {} THEN base ELSE Without(g[s \ {Choice(s)}], Choice(s))
  <2> TAKE s \in SUBSET E
  <2>1. CASE s = {}  BY <1>6, <2>1 DEF IsFold
  <2>2. CASE s # {}
    <3>1. ch[s] = Choice(s) /\ Choice(s) \in E /\ s \ {Choice(s)} \in SUBSET E  BY <1>2, <2>2
    <3>2. g[s \ {Choice(s)}] \in Fen  BY <1>6, <3>1 DEF IsFold
    <3>3. F[<<Choice(s), g[s \ {Choice(s)}]>>] = Without(g[s \ {Choice(s)}], Choice(s))  BY <3>1, <3>2
    <3> HIDE DEF F, ch, E, base, G
    <3> QED BY <1>6, <2>2, <3>1, <3>3 DEF IsFold
  <2> QED BY <2>1, <2>2
<1>8. iter = [s \in SUBSET E |-> IF s = {} THEN base ELSE Without(iter[s \ {Choice(s)}], Choice(s))]
  <2> HIDE DEF E, base, F, G, ch
  <2>1. g = [s \in SUBSET E |-> IF s = {} THEN base ELSE Without(g[s \ {Choice(s)}], Choice(s))]
    BY <1>6, <1>7 DEF IsFold
  <2> QED BY <2>1
<1> DEFINE Q == {s \in SUBSET E : iter[s] \in Good(s)}
<1>9. E \in Q
  <2>1. {} \in Q
    <3> HIDE DEF iter, base
    <3>1. iter[{}] = base  BY <1>8
    <3> QED BY <1>4, <3>1
  <2>2. \A s \in SUBSET E : s # {} => \E x \in s : s \ {x} \in Q => s \in Q
    <3> TAKE s \in SUBSET E
    <3> HAVE s # {}
    <3>1. Choice(s) \in s  BY <1>2
    <3> HIDE DEF E, base, iter, Good
    <3>2. iter[s] = Without(iter[s \ {Choice(s)}], Choice(s))  BY <1>8
    <3>3. s \ {Choice(s)} \in Q => s \in Q  BY <1>5, <3>2
    <3> QED BY <3>1, <3>3
  <2> HIDE DEF Q, E
  <2> QED BY <1>3, <2>1, <2>2, SubsetInduction
<1>10. Own(r, E \ E) /\ Keeps(base, r)
  <2> HIDE DEF iter, E, base
  <2> QED BY <1>1, <1>9
<1>11. NotWatched(base) /\ base.entries = {} /\ base.id = p.id /\ base.follow = p.follow
  BY DEF Own, Fen, NotWatched
<1>12. E \ E = {}  OBVIOUS
<1> HIDE DEF base, E
<1> QED BY <1>10, <1>11, <1>12 DEF Keeps, NotWatched

(* associate, for one file of a watch that is being made                   *)
LEMMA ChildAdded ==
  ASSUME NEW p, Own(p, p.entries), Armed(p), p.queue = {}, NEW F, Lists(p, F),
         NEW n \in Names, n \notin F, NEW r, r = Associate(p, n, n)
  PROVE  /\ Own(r, r.entries) /\ Armed(r) /\ r.queue = {} /\ Lists(r, F \cup {n})
         /\ r.id = p.id /\ r.watched = p.watched /\ r.follow = p.follow
<1>1. \A e \in p.entries : e.name # n  BY WatchAssumption DEF Lists
<1>2. PICK e : Added(p, p.entries, n, r, e)  BY <1>1, Associated
<1>3. Armed(r)  BY <1>2 DEF Armed, Added
<1>4. Lists(r, F \cup {n})  BY <1>2 DEF Lists, Added
<1> QED BY <1>2, <1>3, <1>4 DEF Added

(* r has a watch of the directory and its files, or that of p.             *)
NewWatch(p, r) ==
  /\ Own(r, r.entries) /\ r.watched = TRUE /\ r.follow = FALSE /\ r.id = p.id
  /\ IF NotWatched(p) THEN Armed(r) /\ Lists(r, fs) /\ r.queue = {} ELSE r = p

(* add_watch: unless there is a watch, the directory and its files get one.*)
LEMMA AddWatchDoes ==
  ASSUME ~Follow, fs \subseteq Names, NEW p, Own(p, p.entries), p.follow = FALSE,
         NEW r, r = AddWatch(p, FALSE)
  PROVE  NewWatch(p, r)
<1>1. CASE ~NotWatched(p)
  <2>1. p.watched = TRUE  BY <1>1 DEF NotWatched, Own, Fen
  <2>2. r = p  BY <2>1 DEF AddWatch
  <2> QED BY <1>1, <2>1, <2>2 DEF NewWatch
<1>2. CASE NotWatched(p)
  <2> DEFINE none == [ReleaseWatch(p) EXCEPT !.watched = TRUE, !.follow = FALSE]
             base == Associate(none, Root, Root)
             F == [x \in fs \X Fen |-> Associate(x[2], x[1], x[1])]
             Good(s) == {q \in Fen : /\ Own(q, q.entries) /\ Armed(q) /\ Lists(q, s) /\ q.queue = {}
                                     /\ q.id = p.id /\ q.watched = TRUE /\ q.follow = FALSE}
             G == [s \in SUBSET fs |-> Good(s)]
             ch == [s \in SUBSET fs |-> Choice(s)]
             iter == CHOOSE it : it = [s \in SUBSET fs |->
                       IF s = {} THEN base ELSE Associate(it[s \ {Choice(s)}], Choice(s), Choice(s))]
  <2>1. r = iter[fs]
    <3>1. ~(p.watched /\ p.follow = FALSE)  BY <1>2 DEF NotWatched
    <3> QED BY <3>1 DEF AddWatch, FoldSet, MapThenFoldSet, Choice
  <2>2. \A s : s # {} => Choice(s) \in s  BY DEF Choice
  <2>3. IsFiniteSet(fs) /\ Chooses(ch, fs)
    <3>1. Chooses(ch, fs)  BY <2>2 DEF Chooses
    <3>2. IsFiniteSet(fs)  BY WatchAssumption, FS_Subset
    <3> QED BY <3>1, <3>2
  <2>4. base \in Good({})
    <3>1. PICK q : q = ReleaseWatch(p)  OBVIOUS
    <3>2. Own(q, {}) /\ q.entries = {} /\ q.id = p.id  BY <3>1, ReleaseWatchDoes
    <3>3. /\ none \in Fen /\ (Faultless(q) => Faultless(none))
          /\ none.watched = TRUE /\ none.follow = FALSE /\ none.id = q.id /\ none.entries = {}
          /\ none.heap = q.heap /\ none.cookie = q.cookie /\ none.ports = q.ports
          /\ none.assoc = q.assoc /\ none.queue = q.queue
      BY <3>1, <3>2 DEF Own, Fen, Faultless
    <3>4. Faultless(q)  BY <3>2 DEF Own
    <3>5. PICK z : z = none  OBVIOUS
    <3>6. /\ z \in Fen /\ Faultless(z) /\ z.watched = TRUE /\ z.follow = FALSE /\ z.id = p.id
          /\ z.entries = {} /\ z.heap = q.heap /\ z.cookie = q.cookie /\ z.ports = q.ports
          /\ z.assoc = q.assoc /\ z.queue = q.queue /\ z.id = q.id /\ base = Associate(z, Root, Root)
      BY <3>2, <3>3, <3>4, <3>5
    <3> HIDE DEF none, base
    <3>7. Own(z, {})  BY <3>2, <3>6, Alike
    <3>8. z.queue = {}  BY <3>7 DEF Own, Told
    <3>9. PICK e : Added(z, {}, Root, base, e)
      <4>1. \A e \in {} : e.name # Root  OBVIOUS
      <4>2. Root \in Names \cup {Root} /\ base = Associate(z, Root, Root)  BY <3>6
      <4> QED BY <3>7, <4>1, <4>2, Associated
    <3>10. base.entries = {e} /\ {} \cup {e} = {e}  BY <3>6, <3>9 DEF Added
    <3>11. Own(base, base.entries) /\ base \in Fen  BY <3>9, <3>10 DEF Own, Added
    <3>12. Armed(base) /\ Lists(base, {})  BY <3>9, <3>10 DEF Armed, Lists, Added
    <3>13. base.queue = {} /\ base.id = p.id /\ base.watched = TRUE /\ base.follow = FALSE
      BY <3>6, <3>8, <3>9 DEF Added
    <3> QED BY <3>11, <3>12, <3>13
  <2>5. ASSUME NEW s \in SUBSET fs, s # {}, NEW y \in Good(s \ {Choice(s)})
        PROVE  Associate(y, Choice(s), Choice(s)) \in Good(s)
    <3> DEFINE n == Choice(s)
               D == s \ {n}
    <3>1. n \in s /\ n \in Names /\ n \notin D /\ D \cup {n} = s  BY <2>2, <2>5
    <3>2. /\ Own(y, y.entries) /\ Armed(y) /\ Lists(y, D) /\ y.queue = {}
          /\ y.id = p.id /\ y.watched = TRUE /\ y.follow = FALSE
      BY <2>5
    <3>3. PICK z : z = Associate(y, n, n)  OBVIOUS
    <3> HIDE DEF n, D
    <3>4. /\ Own(z, z.entries) /\ Armed(z) /\ z.queue = {} /\ Lists(z, D \cup {n})
          /\ z.id = y.id /\ z.watched = y.watched /\ z.follow = y.follow
      BY <3>1, <3>2, <3>3, ChildAdded
    <3>5. z \in Fen  BY <3>4 DEF Own
    <3>6. z \in Good(s)  BY <3>1, <3>2, <3>4, <3>5
    <3> QED BY <3>3, <3>6 DEF n
  <2>6. PICK g : IsFold(g, fs, F, base, ch, Fen)
    <3>1. G \in [SUBSET fs -> SUBSET Fen] /\ base \in G[{}]  BY <2>4
    <3>2. \A s \in SUBSET fs : s # {} => \A y \in G[s \ {ch[s]}] : F[<<ch[s], y>>] \in G[s]
      <4> TAKE s \in SUBSET fs
      <4> HAVE s # {}
      <4> TAKE y \in G[s \ {ch[s]}]
      <4>1. s \ {Choice(s)} \in SUBSET fs /\ Choice(s) \in fs  BY <2>2
      <4>2. ch[s] = Choice(s) /\ G[s] = Good(s) /\ G[s \ {Choice(s)}] = Good(s \ {Choice(s)})  BY <4>1
      <4> HIDE DEF G, ch
      <4>3. y \in Good(s \ {Choice(s)})  BY <4>2
      <4>4. y \in Fen  BY <4>3
      <4>5. F[<<Choice(s), y>>] = Associate(y, Choice(s), Choice(s))  BY <4>1, <4>4
      <4> HIDE DEF F, Good
      <4>6. Associate(y, Choice(s), Choice(s)) \in Good(s)  BY <2>5, <4>3
      <4> QED BY <4>2, <4>5, <4>6
    <3> HIDE DEF G, F, base, ch
    <3>3. Within(G, F, base, ch, fs, Fen)  BY <3>1, <3>2 DEF Within
    <3> QED BY <2>3, <3>3, FoldWithin
  <2>7. \A s \in SUBSET fs :
          g[s] = IF s = {} THEN base ELSE Associate(g[s \ {Choice(s)}], Choice(s), Choice(s))
    <3> TAKE s \in SUBSET fs
    <3>1. CASE s = {}  BY <2>6, <3>1 DEF IsFold
    <3>2. CASE s # {}
      <4>1. ch[s] = Choice(s) /\ Choice(s) \in fs /\ s \ {Choice(s)} \in SUBSET fs  BY <2>2, <3>2
      <4>2. g[s \ {Choice(s)}] \in Fen  BY <2>6, <4>1 DEF IsFold
      <4>3. F[<<Choice(s), g[s \ {Choice(s)}]>>] = Associate(g[s \ {Choice(s)}], Choice(s), Choice(s))  BY <4>1, <4>2
      <4> HIDE DEF F, ch, base, G
      <4> QED BY <2>6, <3>2, <4>1, <4>3 DEF IsFold
    <3> QED BY <3>1, <3>2
  <2>8. iter = [s \in SUBSET fs |->
                  IF s = {} THEN base ELSE Associate(iter[s \ {Choice(s)}], Choice(s), Choice(s))]
    <3> HIDE DEF base, F, G, ch
    <3>1. g = [s \in SUBSET fs |->
                 IF s = {} THEN base ELSE Associate(g[s \ {Choice(s)}], Choice(s), Choice(s))]
      BY <2>6, <2>7 DEF IsFold
    <3> QED BY <3>1
  <2> DEFINE Q == {s \in SUBSET fs : iter[s] \in Good(s)}
  <2>9. fs \in Q
    <3>1. {} \in Q
      <4> HIDE DEF iter, base
      <4>1. iter[{}] = base  BY <2>8
      <4> QED BY <2>4, <4>1
    <3>2. \A s \in SUBSET fs : s # {} => \E x \in s : s \ {x} \in Q => s \in Q
      <4> TAKE s \in SUBSET fs
      <4> HAVE s # {}
      <4>1. Choice(s) \in s  BY <2>2
      <4> HIDE DEF base, iter, Good
      <4>2. iter[s] = Associate(iter[s \ {Choice(s)}], Choice(s), Choice(s))  BY <2>8
      <4>3. s \ {Choice(s)} \in Q => s \in Q  BY <2>5, <4>2
      <4> QED BY <4>1, <4>3
    <3> HIDE DEF Q
    <3> QED BY <2>3, <3>1, <3>2, SubsetInduction
  <2>10. r \in Good(fs)
    <3> HIDE DEF iter, base, Good
    <3> QED BY <2>1, <2>9
  <2> QED BY <1>2, <2>10 DEF NewWatch
<1> QED BY <1>1, <1>2

-----------------------------------------------------------------------------
(* Events.  Has: the event e is of an entry of the watch; Idle: its object *)
(* is not associated and no event waits.                                   *)
Has(p, e) == \E d \in p.entries : Of(e, d) /\ d.name = e.name
Idle(p, e) == \A x \in p.assoc \cup p.queue : ~Of(x, e)

(* r is p with the object of e associated.                                 *)
Rearmed(p, e, r) ==
  /\ Own(r, r.entries) /\ Keeps(p, r) /\ r.queue = p.queue
  /\ \A x \in p.assoc : x \in r.assoc
  /\ \A x \in r.assoc : x \in p.assoc \/ Of(x, e)
  /\ \E x \in r.assoc : Of(x, e)
  /\ \A a \in Addresses : a # e.obj => r.heap[a] = p.heap[a]

LEMMA ReassociateDoes ==
  ASSUME NEW p, Own(p, p.entries), NEW e, Has(p, e), Idle(p, e), NEW r, r = Reassociate(p, e)
  PROVE  Rearmed(p, e, r)
<1>1. PICK d \in p.entries : Of(e, d) /\ d.name = e.name  BY DEF Has
<1>2. /\ p \in Fen /\ Faultless(p)
      /\ p.entries \subseteq Entry /\ IsFiniteSet(p.entries) /\ Injective(p.entries)
      /\ \A a \in Addresses : p.heap[a] = "free" <=> \A c \in p.entries : c.obj # a
      /\ Told(p, p.entries) /\ Counted(p, p.entries) /\ Stamped(p, p.entries)
  BY DEF Own
<1>3. e.port = d.port /\ e.obj = d.obj /\ e.port \in Ports /\ e.obj \in Addresses
      /\ e.name \in Nodes /\ p.heap[e.obj] # "free"
  BY <1>1, <1>2 DEF Of, Entry, Nodes
<1> DEFINE x0 == [port |-> e.port, obj |-> e.obj, node |-> e.name]
           heap == [p.heap EXCEPT ![e.obj] = "clear"]
           assoc == p.assoc \cup {x0}
<1>4. r = [p EXCEPT !.fault = @ \/ p.heap[e.obj] = "free", !.heap = heap, !.assoc = assoc]
  BY <1>2, <1>3 DEF Reassociate, Fen
<1>5. x0 \in [port : Ports, obj : Addresses, node : Nodes] /\ Of(x0, e) /\ Of(x0, d) /\ x0.node = d.name
  BY <1>1, <1>3 DEF Of
<1>6. heap \in [Addresses -> {"free", "clear", "exception"}]
      /\ \A a \in Addresses : heap[a] = IF a = e.obj THEN "clear" ELSE p.heap[a]
  BY <1>2 DEF Fen
<1>7. assoc \in SUBSET [port : Ports, obj : Addresses, node : Nodes]  BY <1>2, <1>5 DEF Fen
<1>8. \A x : x \in assoc <=> x \in p.assoc \/ x = x0  OBVIOUS
<1> HIDE DEF x0, heap, assoc
<1>9. r \in Fen /\ Faultless(r)
  <2> DEFINE fault == p.fault \/ p.heap[e.obj] = "free"
  <2>1. fault = FALSE  BY <1>2, <1>3 DEF Faultless
  <2>2. r = [p EXCEPT !.fault = fault, !.heap = heap, !.assoc = assoc]  BY <1>4
  <2>3. r = [p EXCEPT !.fault = FALSE, !.heap = heap, !.assoc = assoc]
    <3> HIDE DEF fault
    <3> QED BY <2>1, <2>2
  <2>4. p \in Fen /\ heap \in [Addresses -> {"free", "clear", "exception"}]  BY <1>2, <1>6
  <2>6. r \in Fen  BY ONLY <1>7, <2>3, <2>4 DEF Fen
  <2>5. r.fault = FALSE  BY <1>2, <2>3 DEF Fen
  <2> QED BY <2>5, <2>6 DEF Faultless
<1>10. /\ r.heap = heap /\ r.assoc = assoc /\ r.queue = p.queue /\ r.ports = p.ports
       /\ r.cookie = p.cookie /\ Keeps(p, r)
  BY <1>2, <1>4 DEF Fen, Keeps
<1>11. \A a \in Addresses : r.heap[a] = "free" <=> \A c \in r.entries : c.obj # a
  BY <1>1, <1>2, <1>3, <1>6, <1>10 DEF Keeps
<1>12. Told(r, r.entries)
  <2>1. r.entries = p.entries  BY <1>10 DEF Keeps
  <2>2. \A y \in p.queue : ~Of(x0, y)  BY <1>5 DEF Idle, Of
  <2>3. \A x \in r.assoc : \E c \in r.entries : Of(x, c) /\ x.node = c.name
    BY <1>2, <1>5, <1>8, <1>10, <2>1 DEF Told
  <2>4. \A x \in r.assoc, y \in r.queue : ~Of(x, y)  BY <1>2, <1>8, <1>10, <2>2 DEF Told
  <2> QED BY <1>2, <1>10, <2>1, <2>3, <2>4 DEF Told
<1>13. Counted(r, r.entries) /\ Stamped(r, r.entries)  BY <1>2, <1>10 DEF Counted, Stamped, Keeps
<1>14. Own(r, r.entries)  BY <1>2, <1>9, <1>10, <1>11, <1>12, <1>13 DEF Own, Keeps
<1>15. \A a \in Addresses : a # e.obj => r.heap[a] = p.heap[a]  BY <1>6, <1>10
<1>16. /\ \A x \in p.assoc : x \in r.assoc
       /\ \A x \in r.assoc : x \in p.assoc \/ Of(x, e)
       /\ \E x \in r.assoc : Of(x, e)
  BY <1>5, <1>8, <1>10
<1> QED BY <1>10, <1>14, <1>15, <1>16 DEF Rearmed

(* Nothing is left of the watch.                                           *)
Released(p, r) ==
  Own(r, {}) /\ r.entries = {} /\ NotWatched(r) /\ r.id = p.id /\ r.follow = p.follow

(* cleanup_watch, for an event of the watch there is                       *)
LEMMA CleanupDoes ==
  ASSUME NEW p, Own(p, p.entries), ~NotWatched(p), NEW e, Has(p, e), Idle(p, e),
         NEW r, r = CleanupWatch(p, e)
  PROVE  IF e.name # Root /\ Reassociates(p, e) THEN Rearmed(p, e, r) ELSE Released(p, r)
<1>1. PICK d \in p.entries : Of(e, d) /\ d.name = e.name  BY DEF Has
<1>2. p.watched = TRUE /\ p \in Fen /\ p.entries \subseteq Entry /\ Injective(p.entries)
  BY DEF NotWatched, Own, Fen
<1>3. \E x \in p.entries : x.port = e.port /\ x.obj = e.obj  BY <1>1 DEF Of
<1>4. CASE e.name # Root /\ Reassociates(p, e)
  <2>1. r = Reassociate(p, e)  BY <1>2, <1>3, <1>4 DEF CleanupWatch
  <2> QED BY <1>4, <2>1, ReassociateDoes
<1>5. CASE ~(e.name # Root /\ Reassociates(p, e))
  <2> DEFINE rest == {x \in p.entries : x.port # e.port \/ x.obj # e.obj}
             q == [p EXCEPT !.entries = rest]
  <2>1. r = ReleaseWatch(ReleasePort(FreeObject(q, e.obj), e.port))
    BY <1>2, <1>3, <1>5 DEF CleanupWatch
  <2>2. rest = p.entries \ {d}  BY <1>1, <1>2 DEF Injective, Of
  <2>3. rest \in SUBSET Entry  BY <1>2
  <2> HIDE DEF rest
  <2>4. /\ q \in Fen /\ (Faultless(p) => Faultless(q)) /\ q.entries = rest /\ q.id = p.id
        /\ q.follow = p.follow /\ q.heap = p.heap /\ q.cookie = p.cookie /\ q.ports = p.ports
        /\ q.assoc = p.assoc /\ q.queue = p.queue
    BY <1>2, <2>3 DEF Fen, Faultless
  <2> HIDE DEF q
  <2>5. Own(q, p.entries)
    <3>1. Faultless(q)  BY <2>4 DEF Own
    <3> QED BY <2>4, <3>1, Alike
  <2>6. \A x \in q.assoc \cup q.queue : ~Of(x, d)  BY <1>1, <2>4 DEF Idle, Of
  <2>7. PICK z : z = ReleasePort(FreeObject(q, e.obj), e.port)  OBVIOUS
  <2>8. z = ReleasePort(FreeObject(q, d.obj), d.port)  BY <1>1, <2>7 DEF Of
  <2>9. Own(z, p.entries \ {d}) /\ Keeps(q, z)  BY <2>5, <2>6, <2>8, Freed
  <2>10. z.entries = p.entries \ {d}  BY <2>2, <2>4, <2>9 DEF Keeps
  <2>11. Own(z, z.entries) /\ r = ReleaseWatch(z)  BY <2>1, <2>7, <2>9, <2>10
  <2>12. Own(r, {}) /\ r.entries = {} /\ NotWatched(r) /\ r.id = z.id /\ r.follow = z.follow
    BY <2>11, ReleaseWatchDoes
  <2>13. Released(p, r)  BY <2>4, <2>9, <2>12 DEF Released, Keeps
  <2> QED BY <1>5, <2>13
<1> QED BY <1>4, <1>5

(* A finite set in some order                                              *)
LEMMA SetToSeqIs ==
  ASSUME NEW S, IsFiniteSet(S), NEW t, t = SetToSeq(S)
  PROVE  /\ t \in Seq(S) /\ DOMAIN t = 1 .. Len(t)
         /\ \A x \in S : \E i \in DOMAIN t : t[i] = x
         /\ \A i, j \in DOMAIN t : t[i] = t[j] => i = j
<1> DEFINE n == Cardinality(S)
<1>1. n \in Nat /\ ExistsBijection(1 .. n, S)  BY FS_CardinalityType
<1>2. \E f \in [1 .. n -> S] : IsInjective(f)
  BY <1>1 DEF ExistsBijection, Bijection, Injection, IsInjective
<1>3. t \in [1 .. n -> S] /\ IsInjective(t)  BY <1>2 DEF SetToSeq
<1>4. t \in Injection(1 .. n, S)  BY <1>3 DEF Injection
<1>5. t \in Surjection(1 .. n, S)
  <2>1. IsFiniteSet(1 .. n) /\ Cardinality(1 .. n) = n  BY <1>1, FS_Interval
  <2> QED BY <1>4, <2>1, FS_Injection
<1>6. t \in Seq(S) /\ Len(t) = n  BY <1>1, <1>3
<1>7. DOMAIN t = 1 .. n  BY <1>3
<1> QED BY <1>3, <1>5, <1>6, <1>7 DEF Surjection, IsInjective

(* t goes through the set C.                                               *)
Orders(t, C) ==
  /\ Len(t) \in Nat /\ DOMAIN t = 1 .. Len(t)
  /\ \A i \in DOMAIN t : t[i] \in C
  /\ \A x \in C : \E i \in DOMAIN t : t[i] = x
  /\ \A i, j \in DOMAIN t : t[i] = t[j] => i = j

(* Two disjoint ones, one after the other                                  *)
LEMMA InOrder ==
  ASSUME NEW A, NEW B, IsFiniteSet(A), IsFiniteSet(B), A \cap B = {},
         NEW t, t = SetToSeq(A) \o SetToSeq(B)
  PROVE  Orders(t, A \cup B)
<1>1. PICK a, b : a = SetToSeq(A) /\ b = SetToSeq(B)  OBVIOUS
<1>2. /\ a \in Seq(A) /\ DOMAIN a = 1 .. Len(a) /\ Len(a) \in Nat
      /\ \A x \in A : \E i \in DOMAIN a : a[i] = x
      /\ \A i, j \in DOMAIN a : a[i] = a[j] => i = j
  <2>1. /\ a \in Seq(A) /\ DOMAIN a = 1 .. Len(a)
        /\ \A x \in A : \E i \in DOMAIN a : a[i] = x
        /\ \A i, j \in DOMAIN a : a[i] = a[j] => i = j
    BY <1>1, SetToSeqIs
  <2> QED BY <2>1
<1>3. /\ b \in Seq(B) /\ DOMAIN b = 1 .. Len(b) /\ Len(b) \in Nat
      /\ \A x \in B : \E i \in DOMAIN b : b[i] = x
      /\ \A i, j \in DOMAIN b : b[i] = b[j] => i = j
  <2>1. /\ b \in Seq(B) /\ DOMAIN b = 1 .. Len(b)
        /\ \A x \in B : \E i \in DOMAIN b : b[i] = x
        /\ \A i, j \in DOMAIN b : b[i] = b[j] => i = j
    BY <1>1, SetToSeqIs
  <2> QED BY <2>1
<1> DEFINE C == A \cup B
<1>4. a \in Seq(C) /\ b \in Seq(C)  BY <1>2, <1>3
<1> HIDE DEF C
<1>5. /\ t \in Seq(C) /\ Len(t) = Len(a) + Len(b)
      /\ \A i \in 1 .. Len(a) + Len(b) : t[i] = IF i <= Len(a) THEN a[i] ELSE b[i - Len(a)]
  <2>1. t = a \o b  BY <1>1
  <2> QED BY <1>4, <2>1, ConcatProperties
<1>6. Len(t) \in Nat /\ DOMAIN t = 1 .. Len(t)  BY <1>5
<1>7. \A i \in DOMAIN t : \/ i \in DOMAIN a /\ t[i] = a[i] /\ t[i] \in A
                          \/ i - Len(a) \in DOMAIN b /\ t[i] = b[i - Len(a)] /\ t[i] \in B /\ i \in Nat
  <2> TAKE i \in DOMAIN t
  <2>1. i \in 1 .. Len(a) + Len(b)  BY <1>5, <1>6
  <2>2. CASE i <= Len(a)
    <3>1. i \in DOMAIN a  BY <1>2, <2>1, <2>2
    <3> QED BY <1>2, <1>5, <2>1, <2>2, <3>1
  <2>3. CASE ~(i <= Len(a))
    <3>1. i - Len(a) \in DOMAIN b  BY <1>2, <1>3, <2>1, <2>3
    <3> QED BY <1>2, <1>3, <1>5, <2>1, <2>3, <3>1
  <2> QED BY <2>2, <2>3
<1>8. \A x \in A : \E i \in DOMAIN t : t[i] = x
  <2> TAKE x \in A
  <2>1. PICK i \in DOMAIN a : a[i] = x  BY <1>2
  <2>2. i \in 1 .. Len(a) + Len(b) /\ i <= Len(a)  BY <1>2, <1>3, <2>1
  <2> QED BY <1>5, <1>6, <2>1, <2>2
<1>9. \A x \in B : \E i \in DOMAIN t : t[i] = x
  <2> TAKE x \in B
  <2>1. PICK i \in DOMAIN b : b[i] = x  BY <1>3
  <2> DEFINE k == i + Len(a)
  <2>2. k \in 1 .. Len(a) + Len(b) /\ ~(k <= Len(a)) /\ k - Len(a) = i  BY <1>2, <1>3, <2>1
  <2> HIDE DEF k
  <2> QED BY <1>5, <1>6, <2>1, <2>2
<1>10. ASSUME NEW i \in DOMAIN t, NEW j \in DOMAIN t, t[i] = t[j] PROVE i = j
  <2>1. CASE i \in DOMAIN a /\ t[i] = a[i] /\ t[i] \in A
    <3>1. j \in DOMAIN a /\ t[j] = a[j]  BY <1>7, <1>10, <2>1
    <3> QED BY <1>2, <1>10, <2>1, <3>1
  <2>2. CASE i - Len(a) \in DOMAIN b /\ t[i] = b[i - Len(a)] /\ t[i] \in B /\ i \in Nat
    <3>1. j - Len(a) \in DOMAIN b /\ t[j] = b[j - Len(a)] /\ j \in Nat  BY <1>7, <1>10, <2>2
    <3>2. i - Len(a) = j - Len(a)  BY <1>3, <1>10, <2>2, <3>1
    <3> QED BY <1>2, <2>2, <3>1, <3>2
  <2> QED BY <1>7, <2>1, <2>2
<1> QED BY <1>6, <1>7, <1>8, <1>9, <1>10 DEF Orders

-----------------------------------------------------------------------------
(* What is recorded.                                                       *)
RecSet == [children : [Names -> {"none", "created", "modified"}], old : SUBSET Names,
           changed : BOOLEAN, waiting : BOOLEAN, active : BOOLEAN]

RecOK(r) == r \in RecSet /\ \A n \in r.old : r.children[n] # "none"

Changed(r) == r.changed = TRUE

(* signal_change forgets nothing, but that a file had been created when it *)
(* is deleted.                                                             *)
LEMMA SignalChangeDoes ==
  ASSUME NEW r, RecOK(r), NEW n \in Names \cup {Root}, NEW kind, NEW q, q = SignalChange(r, n, kind)
  PROVE  /\ RecOK(q) /\ (Changed(r) => Changed(q)) /\ (n = Root => Changed(q))
         /\ \A m \in Names : m # n => q.children[m] = r.children[m]
         /\ n \in Names =>
              /\ ~(r.children[n] = "created" /\ kind = "delete") => q.children[n] # "none"
              /\ q.children[n] = "created" => r.children[n] = "created" \/ kind = "create"
<1>1. r \in RecSet /\ Root \notin Names  BY WatchAssumption DEF RecOK
<1>2. \A z \in RecSet : /\ SignalImpending(z) \in RecSet
                        /\ SignalImpending(z).children = z.children
                        /\ SignalImpending(z).old = z.old
                        /\ (Changed(z) => Changed(SignalImpending(z)))
  BY DEF SignalImpending, RecSet, Changed
<1>3. CASE n = Root
  <2> DEFINE z == [r EXCEPT !.changed = TRUE]
  <2>1. q = SignalImpending(z)  BY <1>3 DEF SignalChange
  <2>2. z \in RecSet /\ z.children = r.children /\ z.old = r.old /\ Changed(z)
    BY <1>1 DEF RecSet, Changed
  <2> HIDE DEF z
  <2> QED BY <1>1, <1>2, <1>3, <2>1, <2>2 DEF RecOK
<1>4. CASE n # Root /\ r.children[n] = "created" /\ kind = "delete" /\ start # n
  <2> DEFINE z == [r EXCEPT !.children[n] = "none", !.old = @ \ {n}]
  <2>1. q = z  BY <1>4 DEF SignalChange
  <2>2. /\ z \in RecSet /\ (Changed(r) => Changed(z)) /\ z.old = r.old \ {n}
        /\ \A m \in Names : z.children[m] = IF m = n THEN "none" ELSE r.children[m]
    BY <1>1 DEF RecSet, Changed
  <2> HIDE DEF z
  <2>3. RecOK(q)
    <3>1. \A m \in q.old : m \in Names  BY <2>1, <2>2 DEF RecSet
    <3> QED BY <2>1, <2>2, <3>1 DEF RecOK
  <2> QED BY <1>4, <2>1, <2>2, <2>3
<1>5. CASE n # Root /\ ~(r.children[n] = "created" /\ kind = "delete" /\ start # n)
  <2> DEFINE new == IF r.children[n] # "none" THEN r.children[n]
                    ELSE IF kind = "create" /\ start # Root THEN "created" ELSE "modified"
             z == [r EXCEPT !.old = @ \ {n}, !.children[n] = new]
  <2>1. q = SignalImpending(z)  BY <1>1, <1>5 DEF SignalChange, RecSet
  <2>2. new \in {"created", "modified"} /\ (new = "created" => r.children[n] = "created" \/ kind = "create")
    BY <1>1, <1>5 DEF RecSet
  <2> HIDE DEF new
  <2>3. /\ z \in RecSet /\ (Changed(r) => Changed(z)) /\ z.old = r.old \ {n}
        /\ \A m \in Names : z.children[m] = IF m = n THEN new ELSE r.children[m]
    BY <1>1, <2>2 DEF RecSet, Changed
  <2> HIDE DEF z
  <2>4. q \in RecSet /\ q.children = z.children /\ q.old = z.old /\ (Changed(z) => Changed(q))
    BY <1>2, <2>1, <2>3
  <2>5. RecOK(q)
    <3>1. \A m \in q.old : m \in Names  BY <2>4 DEF RecSet
    <3> QED BY <1>1, <2>3, <2>4, <3>1 DEF RecOK
  <2> QED BY <1>1, <1>5, <2>2, <2>3, <2>4, <2>5
<1> QED BY <1>3, <1>4, <1>5

-----------------------------------------------------------------------------
(* The events that have been fetched: those of the file there is now are   *)
(* of its watch, one for each of its objects, which are not associated.    *)
Fetched ==
  /\ \A y \in batch : y.id <= fen.id
  /\ \A y \in batch : y.id = fen.id => Idle(fen, y) /\ \E d \in fen.entries : Of(y, d)
  /\ \A y, z \in batch : y.id = fen.id /\ z.id = fen.id /\ Of(y, z) => y = z

LEMMA LookupIs ==
  ASSUME Own(fen, fen.entries), Fetched, batch \subseteq Events
  PROVE  /\ \A e \in Lookup(fen) :
              /\ Has(fen, e) /\ Idle(fen, e) /\ e.name \in Names \cup {Root}
              /\ e.obj \in Addresses /\ e.kind \in FenKinds
         /\ \A d, e \in Lookup(fen) : d.obj = e.obj => d = e
         /\ \A y \in batch, d \in fen.entries : y.id = fen.id /\ Of(y, d) =>
              \E e \in Lookup(fen) : e.name = d.name /\ Of(e, d)
<1>1. fen.entries \subseteq Entry /\ Injective(fen.entries)  BY DEF Own
<1> DEFINE Made(y, d) == [port |-> y.port, obj |-> y.obj, kind |-> y.kind, name |-> d.name]
<1>2. \A e : e \in Lookup(fen) <=>
        \E y \in batch, d \in fen.entries : y.id = fen.id /\ Of(y, d) /\ e = Made(y, d)
  <2>1. \A y \in batch, d \in fen.entries :
          y.id = fen.id /\ Of(y, d) => <<y, d>> \in {z \in About(fen) : z[1].id = fen.id}
    BY DEF About, Of
  <2>2. \A z \in {z \in About(fen) : z[1].id = fen.id} :
          z[1] \in batch /\ z[2] \in fen.entries /\ z[1].id = fen.id /\ Of(z[1], z[2])
    BY DEF About, Of
  <2>3. \A y, d : Named(<<y, d>>) = Made(y, d)  BY DEF Named
  <2>4. \A z : Named(z) = Made(z[1], z[2])  BY DEF Named
  <2> HIDE DEF Made
  <2> QED BY <2>1, <2>2, <2>3, <2>4 DEF Lookup
<1>3. ASSUME NEW y \in batch, NEW d \in fen.entries, y.id = fen.id, Of(y, d), NEW e, e = Made(y, d)
      PROVE  /\ Has(fen, e) /\ Idle(fen, e) /\ e.name \in Names \cup {Root}
             /\ e.obj \in Addresses /\ e.kind \in FenKinds /\ e.name = d.name /\ Of(e, d)
  <2>1. e.port = y.port /\ e.obj = y.obj /\ e.kind = y.kind /\ e.name = d.name  BY <1>3
  <2> HIDE DEF Made
  <2>2. Has(fen, e) /\ Of(e, d)  BY <1>3, <2>1 DEF Has, Of
  <2>3. Idle(fen, e)  BY <1>3, <2>1 DEF Fetched, Idle, Of
  <2> QED BY <1>1, <1>3, <2>1, <2>2, <2>3 DEF Entry, Events
<1>4. ASSUME NEW y \in batch, NEW d \in fen.entries, y.id = fen.id, Of(y, d),
             NEW z \in batch, NEW c \in fen.entries, z.id = fen.id, Of(z, c), y.obj = z.obj
      PROVE  y = z /\ d = c
  <2>1. d = c  BY <1>1, <1>4 DEF Injective, Of
  <2>2. Of(y, z)  BY <1>4, <2>1 DEF Of
  <2> QED BY <1>4, <2>1, <2>2 DEF Fetched
<1>5. \A d, e \in Lookup(fen) : d.obj = e.obj => d = e
  <2> TAKE d, e \in Lookup(fen)
  <2> HAVE d.obj = e.obj
  <2>1. PICK y \in batch, f \in fen.entries : y.id = fen.id /\ Of(y, f) /\ d = Made(y, f)  BY <1>2
  <2>2. PICK z \in batch, g \in fen.entries : z.id = fen.id /\ Of(z, g) /\ e = Made(z, g)  BY <1>2
  <2>3. y.obj = z.obj  BY <2>1, <2>2
  <2> HIDE DEF Made
  <2> QED BY <1>4, <2>1, <2>2, <2>3
<1> HIDE DEF Made
<1> QED BY <1>2, <1>3, <1>5

(* What is left of the watch when the events D have been processed         *)
FenAfter(p, D) ==
  /\ Own(p, p.entries) /\ p.id = fen.id /\ p.follow = fen.follow
  /\ IF NotWatched(p)
     THEN p.entries = {} /\ (NotWatched(fen) \/ \E e \in D : e.name = Root \/ ~Reassociates(fen, e))
     ELSE /\ ~NotWatched(fen) /\ p.entries = fen.entries /\ p.queue = fen.queue
          /\ \A x \in fen.assoc : x \in p.assoc
          /\ \A e \in D : e.name # Root /\ \E x \in p.assoc : Of(x, e)
          /\ \A e \in Lookup(fen) : e \notin D => Idle(p, e) /\ p.heap[e.obj] = fen.heap[e.obj]

(* and what has been recorded then                                         *)
RecAfter(r, D) ==
  /\ RecOK(r) /\ (Changed(rec) => Changed(r))
  /\ \A e \in D : e.name = Root => Changed(r)
  /\ (\A n \in Names : rec.children[n] # "created") =>
       /\ \A n \in Names : r.children[n] # "created"
       /\ \A n \in Names : rec.children[n] # "none" => r.children[n] # "none"
       /\ \A e \in D : e.name \in Names => r.children[e.name] # "none"

LEMMA CleanupStep ==
  ASSUME Own(fen, fen.entries), Fetched, batch \subseteq Events,
         NEW p, NEW D, FenAfter(p, D), NEW e \in Lookup(fen), e \notin D,
         NEW r, r = CleanupWatch(p, e)
  PROVE  FenAfter(r, D \cup {e})
<1>1. /\ Own(p, p.entries) /\ p.id = fen.id /\ p.follow = fen.follow
      /\ NotWatched(p) => /\ p.entries = {}
                         /\ (NotWatched(fen) \/ \E d \in D : d.name = Root \/ ~Reassociates(fen, d))
      /\ ~NotWatched(p) =>
           /\ ~NotWatched(fen) /\ p.entries = fen.entries /\ p.queue = fen.queue
           /\ \A x \in fen.assoc : x \in p.assoc
           /\ \A d \in D : d.name # Root /\ \E x \in p.assoc : Of(x, d)
           /\ \A d \in Lookup(fen) : d \notin D => Idle(p, d) /\ p.heap[d.obj] = fen.heap[d.obj]
  BY DEF FenAfter
<1>2. /\ Has(fen, e) /\ Idle(fen, e) /\ e.name \in Names \cup {Root}
      /\ e.obj \in Addresses /\ e.kind \in FenKinds
      /\ \A d \in Lookup(fen) : d.obj \in Addresses /\ (d.obj = e.obj => d = e)
  BY LookupIs
<1>3. CASE NotWatched(p)
  <2>1. r = p  BY <1>3 DEF CleanupWatch, NotWatched
  <2>2. NotWatched(fen) \/ \E d \in D \cup {e} : d.name = Root \/ ~Reassociates(fen, d)
    BY <1>1, <1>3
  <2> QED BY <1>1, <1>3, <2>1, <2>2 DEF FenAfter
<1>4. CASE ~NotWatched(p)
  <2>1. Has(p, e) /\ Idle(p, e) /\ p.heap[e.obj] = fen.heap[e.obj]  BY <1>1, <1>2, <1>4 DEF Has
  <2>2. Reassociates(p, e) <=> Reassociates(fen, e)  BY <2>1 DEF Reassociates
  <2>3. IF e.name # Root /\ Reassociates(p, e) THEN Rearmed(p, e, r) ELSE Released(p, r)
    BY <1>1, <1>4, <2>1, CleanupDoes
  <2>4. CASE e.name # Root /\ Reassociates(p, e)
    <3>1. /\ Own(r, r.entries) /\ Keeps(p, r) /\ r.queue = p.queue
          /\ \A x \in p.assoc : x \in r.assoc
          /\ \A x \in r.assoc : x \in p.assoc \/ Of(x, e)
          /\ \E x \in r.assoc : Of(x, e)
          /\ \A a \in Addresses : a # e.obj => r.heap[a] = p.heap[a]
      BY <2>3, <2>4 DEF Rearmed
    <3>2. r.id = fen.id /\ r.follow = fen.follow /\ ~NotWatched(r) /\ r.entries = fen.entries
          /\ r.queue = fen.queue
      BY <1>1, <1>4, <3>1 DEF Keeps, NotWatched
    <3>3. \A x \in fen.assoc : x \in r.assoc  BY <1>1, <1>4, <3>1
    <3>4. \A d \in D \cup {e} : d.name # Root /\ \E x \in r.assoc : Of(x, d)
      BY <1>1, <1>4, <2>4, <3>1
    <3>5. ASSUME NEW d \in Lookup(fen), d \notin D \cup {e}
          PROVE  Idle(r, d) /\ r.heap[d.obj] = fen.heap[d.obj]
      <4>1. d.obj \in Addresses /\ d.obj # e.obj /\ Idle(p, d) /\ p.heap[d.obj] = fen.heap[d.obj]
        BY <1>1, <1>2, <1>4, <3>5
      <4>2. \A x : Of(x, e) => ~Of(x, d)  BY <4>1 DEF Of
      <4>3. Idle(r, d)  BY <3>1, <4>1, <4>2 DEF Idle
      <4> QED BY <3>1, <4>1, <4>3
    <3> QED BY <1>1, <1>4, <3>1, <3>2, <3>3, <3>4, <3>5 DEF FenAfter
  <2>5. CASE ~(e.name # Root /\ Reassociates(p, e))
    <3>1. Own(r, {}) /\ r.entries = {} /\ NotWatched(r) /\ r.id = p.id /\ r.follow = p.follow
      BY <2>3, <2>5 DEF Released
    <3>2. Own(r, r.entries)  BY <3>1
    <3>3. \E d \in D \cup {e} : d.name = Root \/ ~Reassociates(fen, d)  BY <2>2, <2>5
    <3> QED BY <1>1, <3>1, <3>2, <3>3 DEF FenAfter
  <2> QED BY <2>4, <2>5
<1> QED BY <1>3, <1>4

LEMMA SignalStep ==
  ASSUME NEW r, NEW D, RecAfter(r, D), NEW e, e.name \in Names \cup {Root}, e.kind \in FenKinds,
         NEW q, q = SignalChange(r, e.name, e.kind)
  PROVE  RecAfter(q, D \cup {e})
<1>1. RecOK(r)  BY DEF RecAfter
<1>2. /\ RecOK(q) /\ (Changed(r) => Changed(q)) /\ (e.name = Root => Changed(q))
      /\ \A m \in Names : m # e.name => q.children[m] = r.children[m]
      /\ e.name \in Names =>
           /\ ~(r.children[e.name] = "created" /\ e.kind = "delete") => q.children[e.name] # "none"
           /\ q.children[e.name] = "created" => r.children[e.name] = "created" \/ e.kind = "create"
  BY <1>1, SignalChangeDoes
<1>3. e.kind # "create"  BY DEF FenKinds
<1>4. (Changed(rec) => Changed(q)) /\ \A d \in D \cup {e} : d.name = Root => Changed(q)
  BY <1>2 DEF RecAfter
<1>5. ASSUME \A n \in Names : rec.children[n] # "created"
      PROVE  /\ \A n \in Names : q.children[n] # "created"
             /\ \A n \in Names : rec.children[n] # "none" => q.children[n] # "none"
             /\ \A d \in D \cup {e} : d.name \in Names => q.children[d.name] # "none"
  <2>1. /\ \A n \in Names : r.children[n] # "created"
        /\ \A n \in Names : rec.children[n] # "none" => r.children[n] # "none"
        /\ \A d \in D : d.name \in Names => r.children[d.name] # "none"
    BY <1>5 DEF RecAfter
  <2>2. \A n \in Names : r.children[n] # "none" => q.children[n] # "none"  BY <1>2, <2>1
  <2>3. e.name \in Names => q.children[e.name] # "none"  BY <1>2, <2>1
  <2> QED BY <1>2, <1>3, <2>1, <2>2, <2>3
<1> QED BY <1>2, <1>4, <1>5 DEF RecAfter

(* process_ev_list: all the events of the watch are processed.             *)
LEMMA EventsProcessed ==
  ASSUME Own(fen, fen.entries), Fetched, batch \subseteq Events, RecOK(rec),
         NotWatched(fen) => fen.entries = {},
         NEW own, own = {e \in Lookup(fen) : e.name = Root},
         NEW t, t = SetToSeq(Lookup(fen) \ own) \o SetToSeq(own),
         NEW r, r = FoldLeft(ProcessEvent, [fen |-> fen, rec |-> rec], t)
  PROVE  FenAfter(r.fen, Lookup(fen)) /\ RecAfter(r.rec, Lookup(fen))
<1> DEFINE es == Lookup(fen)
           S == DOMAIN t
           Y == [fen : Fen, rec : RecSet]
           base == [fen |-> fen, rec |-> rec]
           T(s) == {t[i] : i \in s}
           Good(s) == {y \in Y : FenAfter(y.fen, T(s)) /\ RecAfter(y.rec, T(s))}
           F == [x \in S \X Y |-> ProcessEvent(x[2], t[x[1]])]
           G == [s \in SUBSET S |-> Good(s)]
           ch == Greatest(S)
           iter == CHOOSE it : it = [s \in SUBSET S |->
                     IF s = {} THEN base ELSE ProcessEvent(it[s \ {Max(s)}], t[Max(s)])]
<1>1. r = iter[S]  BY DEF FoldLeft, MapThenFoldSet
<1>2. /\ \A e \in es : /\ Has(fen, e) /\ Idle(fen, e) /\ e.name \in Names \cup {Root}
                       /\ e.obj \in Addresses /\ e.kind \in FenKinds
      /\ \A d, e \in es : d.obj = e.obj => d = e
  BY LookupIs
<1>3. IsFiniteSet(es)
  <2> DEFINE f == [e \in es |-> e.obj]
  <2>1. f \in Injection(es, Addresses)
    <3>1. f \in [es -> Addresses]  BY <1>2
    <3>2. \A d, e \in es : f[d] = f[e] => d = e  BY <1>2
    <3> HIDE DEF es
    <3> QED BY <3>1, <3>2 DEF Injection, IsInjective
  <2> HIDE DEF f, es
  <2> QED BY <2>1, SizesKnown, FS_Injection
<1>4. /\ Len(t) \in Nat /\ S = 1 .. Len(t)
      /\ \A i \in S : t[i] \in es
      /\ \A x \in es : \E i \in S : t[i] = x
      /\ \A i, j \in S : t[i] = t[j] => i = j
  <2> DEFINE A == es \ own
  <2>1. own \subseteq es /\ A \subseteq es /\ A \cap own = {} /\ A \cup own = es  OBVIOUS
  <2>2. t = SetToSeq(A) \o SetToSeq(own)  OBVIOUS
  <2> HIDE DEF A, es
  <2>3. IsFiniteSet(A) /\ IsFiniteSet(own)  BY <1>3, <2>1, FS_Subset
  <2>4. Orders(t, A \cup own)  BY <2>1, <2>2, <2>3, InOrder
  <2> QED BY <2>1, <2>4 DEF Orders
<1> HIDE DEF S
<1>5. IsFiniteSet(S) /\ Chooses(ch, S)  BY <1>4, ChoosesGreatest
<1>6. \A s \in SUBSET S : s # {} => Max(s) \in s /\ ch[s] = Max(s)  BY <1>5 DEF Chooses, Greatest
<1>7. base \in Good({})
  <2>1. base \in Y /\ base.fen = fen /\ base.rec = rec  BY DEF Own, RecOK
  <2>2. T({}) = {}  OBVIOUS
  <2>3. FenAfter(fen, {})  BY <1>2 DEF FenAfter
  <2>4. RecAfter(rec, {})  BY DEF RecAfter
  <2> QED BY <2>1, <2>2, <2>3, <2>4
<1>8. ASSUME NEW s \in SUBSET S, s # {}, NEW y \in Good(s \ {Max(s)})
      PROVE  ProcessEvent(y, t[Max(s)]) \in Good(s)
  <2> DEFINE e == t[Max(s)]
             D == T(s \ {Max(s)})
  <2>1. Max(s) \in s /\ e \in es  BY <1>4, <1>6, <1>8
  <2>2. e \notin D /\ D \cup {e} = T(s)
    <3>1. \A i \in s : t[i] = e => i = Max(s)
      <4> PICK k : k = Max(s)  OBVIOUS
      <4>1. k \in S /\ \A i \in s : i \in S  BY <2>1
      <4>2. \A i \in s : t[i] = t[k] => i = k  BY ONLY <1>4, <4>1
      <4> QED BY <4>2
    <3>2. e \notin D  BY <3>1
    <3>3. \A x : x \in T(s) <=> x \in D \cup {e}  BY <2>1
    <3> HIDE DEF T, D
    <3> QED BY <3>2, <3>3
  <2>3. FenAfter(y.fen, D) /\ RecAfter(y.rec, D)  BY <1>8
  <2>4. PICK p, q : p = CleanupWatch(y.fen, e) /\ q = SignalChange(y.rec, e.name, e.kind)  OBVIOUS
  <2>5. ProcessEvent(y, e) = [fen |-> p, rec |-> q]  BY <2>4 DEF ProcessEvent
  <2> HIDE DEF e, D, T
  <2>6. FenAfter(p, D \cup {e})  BY <2>1, <2>2, <2>3, <2>4, CleanupStep
  <2>7. RecAfter(q, D \cup {e})  BY <1>2, <2>1, <2>3, <2>4, SignalStep
  <2>8. p \in Fen /\ q \in RecSet  BY <2>6, <2>7 DEF FenAfter, RecAfter, Own, RecOK
  <2>9. [fen |-> p, rec |-> q] \in Good(s)  BY <2>2, <2>6, <2>7, <2>8
  <2> HIDE DEF Good
  <2> QED BY <2>5, <2>9 DEF e
<1>9. PICK g : IsFold(g, S, F, base, ch, Y)
  <2>1. G \in [SUBSET S -> SUBSET Y] /\ base \in G[{}]  BY <1>7
  <2>2. \A s \in SUBSET S : s # {} => \A y \in G[s \ {ch[s]}] : F[<<ch[s], y>>] \in G[s]
    <3> TAKE s \in SUBSET S
    <3> HAVE s # {}
    <3> TAKE y \in G[s \ {ch[s]}]
    <3>1. s \ {Max(s)} \in SUBSET S /\ Max(s) \in S /\ ch[s] = Max(s)  BY <1>6
    <3> HIDE DEF ch
    <3>2. G[s] = Good(s) /\ G[s \ {Max(s)}] = Good(s \ {Max(s)})  BY <3>1
    <3> HIDE DEF G
    <3>3. y \in Good(s \ {Max(s)})  BY <3>1, <3>2
    <3>4. y \in Y  BY <3>3
    <3> HIDE DEF Y, Good
    <3>5. F[<<Max(s), y>>] = ProcessEvent(y, t[Max(s)])  BY <3>1, <3>4
    <3> HIDE DEF F
    <3>6. ProcessEvent(y, t[Max(s)]) \in Good(s)  BY <1>8, <3>3
    <3> QED BY <3>1, <3>2, <3>5, <3>6
  <2> HIDE DEF G, F, base, ch, Y
  <2>3. Within(G, F, base, ch, S, Y)  BY <2>1, <2>2 DEF Within
  <2> QED BY <1>5, <2>3, FoldWithin
<1>10. \A s \in SUBSET S :
         g[s] = IF s = {} THEN base ELSE ProcessEvent(g[s \ {Max(s)}], t[Max(s)])
  <2> TAKE s \in SUBSET S
  <2> HIDE DEF base, Y, ch, G
  <2>1. CASE s = {}  BY <1>9, <2>1 DEF IsFold
  <2>2. CASE s # {}
    <3>1. ch[s] = Max(s) /\ Max(s) \in S /\ s \ {Max(s)} \in SUBSET S  BY <1>6, <2>2
    <3>2. g[s \ {Max(s)}] \in Y  BY <1>9, <3>1 DEF IsFold
    <3>3. F[<<Max(s), g[s \ {Max(s)}]>>] = ProcessEvent(g[s \ {Max(s)}], t[Max(s)])  BY <3>1, <3>2
    <3> HIDE DEF F
    <3> QED BY <1>9, <2>2, <3>1, <3>3 DEF IsFold
  <2> QED BY <2>1, <2>2
<1>11. iter = [s \in SUBSET S |->
                IF s = {} THEN base ELSE ProcessEvent(iter[s \ {Max(s)}], t[Max(s)])]
  <2> HIDE DEF base, F, G, ch, Y
  <2>1. g = [s \in SUBSET S |->
               IF s = {} THEN base ELSE ProcessEvent(g[s \ {Max(s)}], t[Max(s)])]
    BY <1>9, <1>10 DEF IsFold
  <2> QED BY <2>1
<1> DEFINE Q == {s \in SUBSET S : iter[s] \in Good(s)}
<1>12. S \in Q
  <2>1. {} \in Q
    <3> HIDE DEF iter, base
    <3>1. iter[{}] = base  BY <1>11
    <3> HIDE DEF Good
    <3> QED BY <1>7, <3>1
  <2>2. \A s \in SUBSET S : s # {} => \E x \in s : s \ {x} \in Q => s \in Q
    <3> TAKE s \in SUBSET S
    <3> HAVE s # {}
    <3>1. Max(s) \in s  BY <1>6
    <3> HIDE DEF base, iter, Good
    <3>2. iter[s] = ProcessEvent(iter[s \ {Max(s)}], t[Max(s)])  BY <1>11
    <3>3. s \ {Max(s)} \in Q => s \in Q  BY <1>8, <3>2
    <3> QED BY <3>1, <3>3
  <2> HIDE DEF Q
  <2> QED BY <1>5, <2>1, <2>2, SubsetInduction
<1>13. r \in Good(S)
  <2> HIDE DEF iter, base, Good
  <2> QED BY <1>1, <1>12
<1>14. T(S) = es
  <2> HIDE DEF es
  <2>1. \A x : x \in T(S) <=> \E i \in S : x = t[i]  OBVIOUS
  <2> HIDE DEF T
  <2>2. (\A i \in S : t[i] \in es) /\ \A x \in es : \E i \in S : t[i] = x  BY <1>4
  <2>3. \A x : x \in T(S) <=> x \in es  BY ONLY <2>1, <2>2
  <2> QED BY ONLY <2>3
<1> HIDE DEF T, es
<1>15. FenAfter(r.fen, es) /\ RecAfter(r.rec, es)  BY <1>13, <1>14
<1> QED BY <1>15 DEF es

-----------------------------------------------------------------------------
(* The steps.                                                              *)

(* A change of the file n is told to the associations of n, and to that of *)
(* the directory unless the contents change.                               *)
Hears(x, n, op) == x.node = n \/ (x.node = Root /\ op # "modify")

LEMMA FenChangeDoes ==
  ASSUME Own(fen, fen.entries), NEW n, NEW op, FenChange(n, op)
  PROVE  /\ Own(fen', fen'.entries) /\ Keeps(fen, fen') /\ UNCHANGED <<toFetch, batch, split>>
         /\ \A x : x \in fen'.assoc <=> x \in fen.assoc /\ ~Hears(x, n, op)
         /\ \A y \in fen.queue : y \in fen'.queue
         /\ \A y \in fen'.queue : y \in fen.queue \/ \E x \in fen.assoc : Of(y, x)
         /\ \A x \in fen.assoc : Hears(x, n, op) => \E y \in fen'.queue : Of(y, x)
<1>1. /\ fen \in Fen /\ Faultless(fen)
      /\ fen.entries \subseteq Entry /\ IsFiniteSet(fen.entries) /\ Injective(fen.entries)
      /\ \A a \in Addresses : fen.heap[a] = "free" <=> \A d \in fen.entries : d.obj # a
      /\ Told(fen, fen.entries) /\ Counted(fen, fen.entries) /\ Stamped(fen, fen.entries)
  BY DEF Own
<1> DEFINE K(x) == IF x.node = n /\ op = "delete" THEN "delete" ELSE "modify"
           Ev(x) == [port |-> x.port, obj |-> x.obj, kind |-> K(x)]
           fired == {x \in fen.assoc : Hears(x, n, op)}
           assoc == fen.assoc \ fired
           waits == fen.queue \cup {Ev(x) : x \in fired}
<1>2. fen' = [fen EXCEPT !.assoc = assoc, !.queue = waits] /\ UNCHANGED <<toFetch, batch, split>>
  BY <1>1 DEF FenChange, Fen, Hears
<1>3. \A x \in fen.assoc : Ev(x) \in [port : Ports, obj : Addresses, kind : FenKinds]
                         /\ Of(Ev(x), x)
  BY <1>1 DEF Fen, FenKinds, Of
<1>4. \A x : x \in assoc <=> x \in fen.assoc /\ ~Hears(x, n, op)  OBVIOUS
<1>5. /\ \A y \in fen.queue : y \in waits
      /\ \A x \in fen.assoc : Hears(x, n, op) => Ev(x) \in waits
      /\ \A y \in waits : y \in fen.queue \/ \E x \in fen.assoc : Hears(x, n, op) /\ y = Ev(x)
  OBVIOUS
<1> HIDE DEF Ev, assoc, waits
<1>6. assoc \in SUBSET [port : Ports, obj : Addresses, node : Nodes]  BY <1>1, <1>4 DEF Fen
<1>7. waits \in SUBSET [port : Ports, obj : Addresses, kind : FenKinds]
  BY <1>1, <1>3, <1>5 DEF Fen
<1>8. fen' \in Fen  BY <1>1, <1>2, <1>6, <1>7 DEF Fen
<1>9. Faultless(fen')  BY <1>1, <1>2 DEF Fen, Faultless
<1>10. /\ fen'.assoc = assoc /\ fen'.queue = waits /\ Keeps(fen, fen') /\ fen'.heap = fen.heap
       /\ fen'.cookie = fen.cookie /\ fen'.ports = fen.ports
  BY <1>1, <1>2 DEF Fen, Keeps
<1>11. Told(fen', fen'.entries)
  <2>1. fen'.entries = fen.entries  BY <1>10 DEF Keeps
  <2>2. \A x \in fen'.assoc : \E e \in fen'.entries : Of(x, e) /\ x.node = e.name
    BY <1>1, <1>4, <1>10, <2>1 DEF Told
  <2>3. \A y \in fen'.queue : \E e \in fen'.entries : Of(y, e)
    <3> TAKE y \in fen'.queue
    <3>1. CASE y \in fen.queue  BY <1>1, <2>1, <3>1 DEF Told
    <3>2. CASE \E x \in fen.assoc : y = Ev(x)
      <4>1. PICK x \in fen.assoc : y = Ev(x)  BY <3>2
      <4>2. PICK e \in fen.entries : Of(x, e)  BY <1>1 DEF Told
      <4>3. Of(y, e)  BY <1>3, <4>1, <4>2 DEF Of
      <4> QED BY <2>1, <4>3
    <3> QED BY <1>5, <1>10, <3>1, <3>2
  <2>4. \A x, z \in fen.assoc : Of(x, z) => x = z
    <3> TAKE x, z \in fen.assoc
    <3> HAVE Of(x, z)
    <3>1. PICK d \in fen.entries : Of(x, d) /\ x.node = d.name  BY <1>1 DEF Told
    <3>2. PICK e \in fen.entries : Of(z, e) /\ z.node = e.name  BY <1>1 DEF Told
    <3>3. d = e  BY <1>1, <3>1, <3>2 DEF Injective, Of
    <3>4. x.port = z.port /\ x.obj = z.obj /\ x.node = z.node  BY <3>1, <3>2, <3>3 DEF Of
    <3> QED BY <1>1, <3>4 DEF Fen
  <2>5. ASSUME NEW x \in fen'.queue, NEW y \in fen'.queue, Of(x, y) PROVE x = y
    <3>1. CASE x \in fen.queue /\ y \in fen.queue  BY <1>1, <2>5, <3>1 DEF Told
    <3>2. ASSUME NEW v \in fen.assoc, x = Ev(v), y \in fen.queue PROVE FALSE
      <4>1. Of(v, y)  BY <1>3, <2>5, <3>2 DEF Of
      <4> QED BY <1>1, <3>2, <4>1 DEF Told
    <3>3. ASSUME NEW v \in fen.assoc, y = Ev(v), x \in fen.queue PROVE FALSE
      <4>1. Of(v, x)  BY <1>3, <2>5, <3>3 DEF Of
      <4> QED BY <1>1, <3>3, <4>1 DEF Told
    <3>4. ASSUME NEW v \in fen.assoc, x = Ev(v), NEW w \in fen.assoc, y = Ev(w) PROVE x = y
      <4>1. Of(v, w)  BY <1>3, <2>5, <3>4 DEF Of
      <4> QED BY <2>4, <3>4, <4>1
    <3> QED BY <1>5, <1>10, <3>1, <3>2, <3>3, <3>4
  <2>6. ASSUME NEW x \in fen'.assoc, NEW y \in fen'.queue, Of(x, y) PROVE FALSE
    <3>1. x \in fen.assoc /\ ~Hears(x, n, op)  BY <1>4, <1>10
    <3>2. CASE y \in fen.queue  BY <1>1, <2>6, <3>1, <3>2 DEF Told
    <3>3. ASSUME NEW v \in fen.assoc, Hears(v, n, op), y = Ev(v) PROVE FALSE
      <4>1. Of(x, v)  BY <1>3, <2>6, <3>3 DEF Of
      <4> QED BY <2>4, <3>1, <3>3, <4>1
    <3> QED BY <1>5, <1>10, <3>2, <3>3
  <2> QED BY <2>2, <2>3, <2>5, <2>6 DEF Told
<1>12. Counted(fen', fen'.entries) /\ Stamped(fen', fen'.entries)
  BY <1>1, <1>10 DEF Counted, Stamped, Keeps
<1>13. Own(fen', fen'.entries)
  <2>1. fen'.entries = fen.entries  BY <1>10 DEF Keeps
  <2>2. \A a \in Addresses : fen'.heap[a] = "free" <=> \A d \in fen'.entries : d.obj # a
    BY <1>1, <1>10, <2>1
  <2> QED BY <1>1, <1>8, <1>9, <1>11, <1>12, <2>1, <2>2 DEF Own
<1>14. /\ \A y \in fen'.queue : y \in fen.queue \/ \E x \in fen.assoc : Of(y, x)
       /\ \A x \in fen.assoc : Hears(x, n, op) => \E y \in fen'.queue : Of(y, x)
  BY <1>3, <1>5, <1>10
<1> QED BY <1>2, <1>4, <1>5, <1>10, <1>13, <1>14

(* port_get: the events fetched from a port are in the batch.              *)
LEMMA FetchPortDoes ==
  ASSUME Own(fen, fen.entries), Fetched, batch \subseteq Events, fen.id \in 0 .. MaxResets, FetchPort
  PROVE  /\ Own(fen', fen'.entries) /\ Keeps(fen, fen') /\ fen'.assoc = fen.assoc
         /\ Fetched' /\ batch' \subseteq Events
         /\ \A y \in batch : y \in batch'
         /\ \A x \in fen.queue : x \in fen'.queue \/ \E y \in batch' : y.id = fen.id /\ Of(y, x)
         /\ \E q \in toFetch : toFetch' = toFetch \ {q}
<1>1. /\ fen \in Fen /\ Faultless(fen)
      /\ fen.entries \subseteq Entry /\ IsFiniteSet(fen.entries) /\ Injective(fen.entries)
      /\ \A a \in Addresses : fen.heap[a] = "free" <=> \A d \in fen.entries : d.obj # a
      /\ Told(fen, fen.entries) /\ Counted(fen, fen.entries) /\ Stamped(fen, fen.entries)
  BY DEF Own
<1>2. PICK q \in toFetch :
        LET es == {x \in fen.queue : x.port = q}
            Seen(a) == {x \in es : x.obj = a}
        IN  /\ toFetch' = toFetch \ {q}
            /\ fen' = [fen EXCEPT !.queue = @ \ es,
                 !.heap = [a \in Addresses |-> IF Seen(a) = {} \/ @[a] = "free" THEN @[a]
                             ELSE IF \E x \in Seen(a) : x.kind = "delete" THEN "exception" ELSE "clear"],
                 !.fault = @ \/ \E x \in es : fen.heap[x.obj] = "free"]
            /\ batch' = batch \cup {[port |-> q, obj |-> x.obj, kind |-> x.kind,
                                     id |-> fen.cookie[x.obj]] : x \in es}
  BY Zenon DEF FetchPort
<1> DEFINE es == {x \in fen.queue : x.port = q}
           Seen(a) == {x \in es : x.obj = a}
           heap == [a \in Addresses |->
                      IF Seen(a) = {} \/ fen.heap[a] = "free" THEN fen.heap[a]
                      ELSE IF \E x \in Seen(a) : x.kind = "delete" THEN "exception" ELSE "clear"]
           waits == fen.queue \ es
           fault == fen.fault \/ \E x \in es : fen.heap[x.obj] = "free"
           Ev(x) == [port |-> q, obj |-> x.obj, kind |-> x.kind, id |-> fen.cookie[x.obj]]
<1>3. /\ fen' = [fen EXCEPT !.queue = waits, !.heap = heap, !.fault = fault]
      /\ batch' = batch \cup {Ev(x) : x \in es} /\ toFetch' = toFetch \ {q}
  BY <1>1, <1>2 DEF Fen
<1>4. \A x : x \in es <=> x \in fen.queue /\ x.port = q  OBVIOUS
<1>5. \A x : x \in waits <=> x \in fen.queue /\ x \notin es  OBVIOUS
<1>6. \A x \in fen.queue : /\ x.obj \in Addresses /\ x.port \in Ports /\ x.kind \in FenKinds
                         /\ fen.heap[x.obj] # "free" /\ fen.cookie[x.obj] = fen.id
  <2> TAKE x \in fen.queue
  <2>1. PICK e \in fen.entries : Of(x, e)  BY <1>1 DEF Told
  <2>2. e.obj \in Addresses /\ fen.cookie[e.obj] = fen.id /\ x.obj = e.obj
    BY <1>1, <2>1 DEF Stamped, Entry, Of
  <2> QED BY <1>1, <2>2 DEF Fen
<1>7. fault = FALSE  BY <1>1, <1>4, <1>6 DEF Faultless
<1>8. \A x \in es : /\ Of(Ev(x), x) /\ Ev(x).id = fen.id /\ Ev(x) \in Events
                   /\ Ev(x).kind = x.kind
  BY <1>4, <1>6 DEF Of, Events
<1>9. /\ \A y \in batch : y \in batch'
      /\ \A x \in es : Ev(x) \in batch'
      /\ \A y \in batch' : y \in batch \/ \E x \in es : y = Ev(x)
  BY <1>3
<1>10. heap \in [Addresses -> {"free", "clear", "exception"}]
       /\ \A a \in Addresses : heap[a] = "free" <=> fen.heap[a] = "free"
  <2>1. fen.heap \in [Addresses -> {"free", "clear", "exception"}]  BY <1>1 DEF Fen
  <2> HIDE DEF es
  <2> QED BY <2>1
<1>11. waits \in SUBSET [port : Ports, obj : Addresses, kind : FenKinds]  BY <1>1, <1>5 DEF Fen
<1> HIDE DEF es, heap, waits, fault, Ev
<1>12. fen' = [fen EXCEPT !.queue = waits, !.heap = heap, !.fault = FALSE]  BY <1>3, <1>7
<1>13. heap \in [Addresses -> {"free", "clear", "exception"}] /\ fen \in Fen  BY <1>1, <1>10
<1>14. fen' \in Fen  BY ONLY <1>11, <1>12, <1>13 DEF Fen
<1>15. Faultless(fen')  BY <1>12, <1>13 DEF Fen, Faultless
<1>16. /\ fen'.heap = heap /\ fen'.queue = waits /\ Keeps(fen, fen') /\ fen'.assoc = fen.assoc
       /\ fen'.cookie = fen.cookie /\ fen'.ports = fen.ports
  BY <1>12, <1>13 DEF Fen, Keeps
<1>17. fen'.entries = fen.entries /\ fen'.id = fen.id  BY <1>16 DEF Keeps
<1>18. Own(fen', fen'.entries)
  <2>1. Told(fen', fen'.entries)  BY <1>1, <1>5, <1>16, <1>17 DEF Told
  <2>2. Counted(fen', fen'.entries) /\ Stamped(fen', fen'.entries)
    BY <1>1, <1>16, <1>17 DEF Counted, Stamped
  <2>3. \A a \in Addresses : fen'.heap[a] = "free" <=> \A d \in fen'.entries : d.obj # a
    BY <1>1, <1>10, <1>16, <1>17
  <2> QED BY <1>1, <1>14, <1>15, <1>17, <2>1, <2>2, <2>3 DEF Own
<1>19. \A x \in es : ~\E y \in batch : y.id = fen.id /\ Of(y, x)
  BY <1>4 DEF Fetched, Idle, Of
<1>20. Fetched'
  <2>1. \A y \in batch' : y.id <= fen'.id
    <3> TAKE y \in batch'
    <3>1. CASE y \in batch  BY <1>17, <3>1 DEF Fetched
    <3>2. CASE \E x \in es : y = Ev(x)  BY <1>8, <1>17, <3>2
    <3> QED BY <1>9, <3>1, <3>2
  <2>2. ASSUME NEW y \in batch', y.id = fen'.id
        PROVE  Idle(fen', y) /\ \E d \in fen'.entries : Of(y, d)
    <3>1. CASE y \in batch
      <4>1. Idle(fen, y) /\ \E d \in fen.entries : Of(y, d)  BY <1>17, <2>2, <3>1 DEF Fetched
      <4> QED BY <1>5, <1>16, <1>17, <4>1 DEF Idle
    <3>2. ASSUME NEW x \in es, y = Ev(x)
          PROVE  Idle(fen', y) /\ \E d \in fen'.entries : Of(y, d)
      <4>1. Of(y, x) /\ x \in fen.queue  BY <1>4, <1>8, <3>2
      <4>2. PICK d \in fen.entries : Of(x, d)  BY <1>1, <4>1 DEF Told
      <4>3. Of(y, d)  BY <4>1, <4>2 DEF Of
      <4>4. \A z \in fen.assoc : ~Of(z, y)  BY <1>1, <4>1 DEF Told, Of
      <4>5. ASSUME NEW z \in fen'.queue, Of(z, y) PROVE FALSE
        <5>1. z \in fen.queue /\ z \notin es /\ Of(z, x)  BY <1>5, <1>16, <4>1, <4>5 DEF Of
        <5> QED BY <1>1, <3>2, <4>1, <5>1 DEF Told
      <4> QED BY <1>16, <1>17, <4>3, <4>4, <4>5 DEF Idle
    <3> QED BY <1>9, <3>1, <3>2
  <2>3. ASSUME NEW y \in batch', NEW z \in batch', y.id = fen'.id, z.id = fen'.id, Of(y, z)
        PROVE  y = z
    <3>1. CASE y \in batch /\ z \in batch  BY <1>17, <2>3, <3>1 DEF Fetched
    <3>2. ASSUME NEW x \in es, z = Ev(x), y \in batch PROVE FALSE
      <4>1. Of(y, x)  BY <1>8, <2>3, <3>2 DEF Of
      <4> QED BY <1>17, <1>19, <2>3, <3>2, <4>1
    <3>3. ASSUME NEW x \in es, y = Ev(x), z \in batch PROVE FALSE
      <4>1. Of(z, x)  BY <1>8, <2>3, <3>3 DEF Of
      <4> QED BY <1>17, <1>19, <2>3, <3>3, <4>1
    <3>4. ASSUME NEW x \in es, y = Ev(x), NEW v \in es, z = Ev(v) PROVE y = z
      <4>1. Of(x, v) /\ x \in fen.queue /\ v \in fen.queue  BY <1>4, <1>8, <2>3, <3>4 DEF Of
      <4>2. x = v  BY <1>1, <4>1 DEF Told
      <4> QED BY <3>4, <4>2
    <3> QED BY <1>9, <3>1, <3>2, <3>3, <3>4
  <2> QED BY <2>1, <2>2, <2>3 DEF Fetched
<1>21. batch' \subseteq Events  BY <1>8, <1>9
<1>22. \A x \in fen.queue : x \in fen'.queue \/ \E y \in batch' : y.id = fen.id /\ Of(y, x)
  BY <1>5, <1>8, <1>9, <1>16
<1> QED BY <1>3, <1>9, <1>16, <1>18, <1>20, <1>21, <1>22

-----------------------------------------------------------------------------
(* The inductive invariant.                                                *)
FenInv ==
  /\ Own(fen, fen.entries) /\ (NotWatched(fen) => fen.entries = {}) /\ fen.follow = FALSE
  /\ fen.id <= resets /\ Fetched /\ batch \subseteq Events
  /\ toFetch \subseteq Ports /\ split \in BOOLEAN

(* Only the place after the last is for the event of an overflow.          *)
OverflowLast(q) == \A i \in DOMAIN q : q[i] = Overflow => i = MaxQueue + 1

(* A link is never followed, so there is one inode and a descriptor for    *)
(* each watch of it.                                                       *)
InotifyInv ==
  /\ InotifyTypeOK /\ nextWd \in Nat \ {0} /\ OverflowLast(queue)
  /\ nextWd <= resets + 1 + (IF wd = 0 THEN 0 ELSE 1)
  /\ wd # 0 => inodes[wd] = "target"

TypeInv == WatchTypeOK /\ client \notin {"link", "scanned"} /\ InotifyInv /\ FenInv

(* The client                                                              *)
ClientInv ==
  /\ start = Root => client \in {"dir", "look"}
  /\ client = "dir" => start = Root
  /\ client # "look" => looking = {}
  /\ client \in {"idle", "wait", "ask"} => todo = {}

(* That something of the file n is to be done, but for events              *)
Sees(n) ==
  \/ client \in {"scan", "dir"} /\ (start = Root \/ {n, Root} \cap todo # {})
  \/ n \in todo \cup looking
  \/ rec.children[n] # "none" \/ Changed(rec)

(* Linux: the event i is of the watch there is, and about n.               *)
AboutFile(i, n) == queue[i].name = n /\ queue[i].wd = wd

Overflows == \E i \in DOMAIN queue : queue[i] = Overflow

QueueInv ==
  /\ Len(queue) > MaxQueue => Overflows
  /\ \A i \in DOMAIN queue : queue[i].wd < nextWd /\ (queue[i].wd = 0 => queue[i].name = Root)
  /\ ~Overflows => \A n \in Names, i \in DOMAIN queue :
       AboutFile(i, n) /\ (\A j \in DOMAIN queue : j > i => ~AboutFile(j, n)) =>
         (queue[i].kind = "delete" <=> n \notin fs)

Fresh(n) ==
  \/ Overflows
  \/ \E i \in DOMAIN queue : AboutFile(i, n) /\ (queue[i].kind = "delete" => seen[n] # "absent")

LinuxInv ==
  /\ wd = 0 => client = "scan" /\ Root \in todo
  /\ QueueInv
  /\ \A n \in Names \ missed : seen[n] = Actual(n) \/ Sees(n) \/ Fresh(n)

(* Solaris: an event of the entry for m waits, or has been fetched.        *)
Pend(m) ==
  \E e \in fen.entries :
    /\ e.name = m
    /\ \/ \E x \in fen.queue : Of(x, e)
       \/ \E y \in batch : y.id = fen.id /\ Of(y, e)

Tells(e) == (\E x \in fen.assoc : Of(x, e)) \/ Pend(e.name)

SolarisInv ==
  /\ \A n \in Names : rec.children[n] # "created"
  /\ ~NotWatched(fen) => Pend(Root) \/ (Lists(fen, fs) /\ \A e \in fen.entries : Tells(e))
  /\ \/ split \/ ~NotWatched(fen) \/ Changed(rec)
     \/ client \in {"scan", "dir"} /\ (start = Root \/ Root \in todo)
  /\ split \/ \A n \in Names : seen[n] = Actual(n) \/ Sees(n) \/ Pend(n) \/ Pend(Root)

ChangeInv == ClientInv /\ IF Linux THEN LinuxInv ELSE SolarisInv

Inv == TypeInv /\ ChangeInv

-----------------------------------------------------------------------------
(* The parts of WatchTypeOK                                                *)
FsOK ==
  /\ backend \in Backends /\ fs \subseteq Names
  /\ seen \in [Names -> {"absent", "present", "stale"}]
  /\ changes \in [Names -> Nat] /\ \A n \in Names : changes[n] <= Times[backend][n]

ClientOK ==
  /\ client \in {"scan", "dir", "look", "idle", "wait", "ask"}
  /\ start \in Names \cup {Root, "none"}
  /\ todo \subseteq Names \cup {Root} /\ looking \subseteq Names
  /\ resets \in 0 .. MaxResets

LEMMA TypeParts ==
  WatchTypeOK /\ client \notin {"link", "scanned"} <=> FsOK /\ ClientOK /\ RecOK(rec)
  BY DEF WatchTypeOK, FsOK, ClientOK, RecOK, RecSet

LEMMA FsStep ==
  ASSUME FsOK,
         \/ \E n \in Names, op \in {"create", "delete", "modify"} : Change(n, op)
         \/ \E n \in Names : Look(n)
  PROVE  FsOK'
<1>1. ASSUME NEW n \in Names, NEW op \in {"create", "delete", "modify"}, Change(n, op) PROVE FsOK'
  <2>1. backend' \in Backends /\ fs' \subseteq Names  BY <1>1 DEF Change, FsOK
  <2>2. seen' \in [Names -> {"absent", "present", "stale"}]  BY <1>1 DEF Change, FsOK
  <2>3. changes' \in [Names -> Nat] /\ \A m \in Names : changes'[m] <= Times[backend][m]
    <3>1. Times[backend] \in [Names -> Nat]  BY WatchAssumption DEF FsOK
    <3> QED BY <1>1, <3>1 DEF Change, FsOK
  <2> QED BY <1>1, <2>1, <2>2, <2>3 DEF Change, FsOK
<1>2. ASSUME NEW n \in Names, Look(n) PROVE FsOK'
  <2>1. seen' \in [Names -> {"absent", "present", "stale"}]  BY <1>2 DEF Look, FsOK, Actual
  <2> QED BY <1>2, <2>1 DEF Look, FsOK
<1> QED BY <1>1, <1>2

LEMMA ClientStep ==
  ASSUME ~Follow, ClientOK, RecOK(rec),
         \/ WatchDirectory \/ Reset \/ GetChanges \/ Done \/ Wait \/ Ask
         \/ \E n \in Names : StartFile(n) \/ Look(n)
  PROVE  ClientOK'
<1>1. CASE WatchDirectory  BY <1>1 DEF WatchDirectory, ClientOK
<1>2. CASE Reset
  <2>1. resets \in Nat /\ MaxResets \in Nat  BY WatchAssumption DEF ClientOK
  <2> QED BY <1>2, <2>1 DEF Reset, ClientOK
<1>3. CASE GetChanges
  <2>1. rec.old \subseteq Names  BY DEF RecOK, RecSet
  <2> QED BY <1>3, <2>1 DEF GetChanges, ClientOK
<1>4. CASE Done \/ Wait \/ Ask  BY <1>4 DEF Done, Wait, Ask, ClientOK
<1>5. CASE \E n \in Names : StartFile(n) \/ Look(n)  BY <1>5 DEF StartFile, Look, ClientOK
<1> QED BY <1>1, <1>2, <1>3, <1>4, <1>5

(* What the steps of the client and of time do to what is recorded         *)
LEMMA RecStep ==
  ASSUME RecOK(rec),
         \/ WatchDirectory \/ Reset \/ GetChanges \/ Wait \/ SleepOver
         \/ \E n \in Names : StartFile(n) \/ Age(n)
  PROVE  RecOK(rec')
<1>1. rec \in RecSet /\ (\A n \in rec.old : n \in Names) /\ \A n \in rec.old : rec.children[n] # "none"
  BY DEF RecOK, RecSet
<1>2. \A r \in RecSet : Ready(r) \in BOOLEAN  BY DEF Ready, RecSet
<1>3. \A r : RecOK(r) => RecOK(Cancelled(r))
  <2> TAKE r
  <2> HAVE RecOK(r)
  <2>1. Cancelled(r) \in RecSet /\ Cancelled(r).old = r.old /\ Cancelled(r).children = r.children
    BY DEF Cancelled, RecSet, RecOK
  <2> QED BY <2>1 DEF RecOK
<1>4. \A r : RecOK(r) => RecOK(WaitForChanges(r))
  <2> TAKE r
  <2> HAVE RecOK(r)
  <2> DEFINE u == ~Ready(r)
             v == r.active \/ (~Ready(r) /\ Recorded(r) # {})
  <2>1. u \in BOOLEAN /\ v \in BOOLEAN /\ r \in RecSet  BY <1>2 DEF RecSet, RecOK
  <2>2. WaitForChanges(r) = [r EXCEPT !.waiting = u, !.active = v]
    BY <2>1 DEF WaitForChanges, RecSet
  <2> HIDE DEF u, v
  <2>3. /\ WaitForChanges(r) \in RecSet /\ WaitForChanges(r).old = r.old
        /\ WaitForChanges(r).children = r.children
    BY <2>1, <2>2 DEF RecSet
  <2> QED BY <2>3 DEF RecOK
<1>5. RecOK(ClearFileChanges(rec))
  <2>1. /\ ClearFileChanges(rec) \in RecSet /\ ClearFileChanges(rec).old = {}
    BY <1>1 DEF ClearFileChanges, NoRecord, RecSet
  <2> QED BY <2>1 DEF RecOK
<1>6. CASE WatchDirectory \/ Reset  BY <1>3, <1>5, <1>6 DEF WatchDirectory, Reset
<1>7. CASE GetChanges
  <2> DEFINE kept == [n \in Names |-> IF n \in rec.old THEN "none" ELSE rec.children[n]]
             z == [rec EXCEPT !.old = {}, !.changed = FALSE, !.children = kept]
  <2>1. kept \in [Names -> {"none", "created", "modified"}]  BY <1>1 DEF RecSet
  <2>2. rec' = Cancelled(z)  BY <1>1, <1>7 DEF GetChanges, RecSet
  <2> HIDE DEF kept
  <2>3. z \in RecSet /\ z.old = {}  BY <1>1, <2>1 DEF RecSet
  <2> HIDE DEF z
  <2>4. RecOK(z)  BY <2>3 DEF RecOK
  <2> QED BY <1>3, <2>2, <2>4
<1>8. CASE Wait  BY <1>4, <1>8 DEF Wait
<1>9. CASE SleepOver
  <2> DEFINE z == [rec EXCEPT !.active = FALSE]
  <2>1. z \in RecSet /\ z.old = rec.old /\ z.children = rec.children  BY <1>1 DEF RecSet
  <2>2. rec' = IF rec.waiting THEN WaitForChanges(z) ELSE z  BY <1>9 DEF SleepOver
  <2> HIDE DEF z
  <2>3. RecOK(z)  BY <2>1 DEF RecOK
  <2> QED BY <1>4, <2>2, <2>3
<1>10. CASE \E n \in Names : StartFile(n)  BY <1>3, <1>10 DEF StartFile
<1>11. ASSUME NEW n \in Names, Age(n) PROVE RecOK(rec')
  <2>1. rec' = [rec EXCEPT !.old = @ \cup {n}] /\ rec.children[n] # "none"
    BY <1>11 DEF Age, Recorded
  <2>2. rec' \in RecSet /\ rec'.old = rec.old \cup {n} /\ rec'.children = rec.children
    BY <1>1, <2>1 DEF RecSet
  <2> QED BY <1>1, <2>1, <2>2 DEF RecOK
<1> QED BY <1>6, <1>7, <1>8, <1>9, <1>10, <1>11

-----------------------------------------------------------------------------
(* What the kernel adds to the queue                                       *)
LEMMA EnqueueDoes ==
  ASSUME NEW q \in Seq(Event), Len(q) <= MaxQueue + 1, NEW e \in Event, NEW r, r = Enqueue(q, e)
  PROVE  /\ r \in Seq(Event) /\ Len(r) <= MaxQueue + 1
         /\ \/ r = q /\ q # <<>> /\ q[Len(q)] = e
            \/ r = q /\ Len(q) = MaxQueue + 1
            \/ r = Append(q, e) /\ Len(q) < MaxQueue
            \/ r = Append(q, Overflow) /\ Len(q) = MaxQueue
<1>1. Len(q) \in Nat /\ MaxQueue \in Nat  BY QueueAssumption
<1>2. Overflow \in Event
  <2>1. 0 \in 0 .. 2 * (MaxResets + 1)  BY WatchAssumption
  <2> QED BY <2>1 DEF Overflow, Event, Kinds
<1>3. CASE q # <<>> /\ Last(q) = e  BY <1>3 DEF Enqueue, Last
<1>4. CASE ~(q # <<>> /\ Last(q) = e) /\ Len(q) < MaxQueue
  <2>1. r = Append(q, e)  BY <1>4 DEF Enqueue
  <2>2. r \in Seq(Event) /\ Len(r) = Len(q) + 1  BY <2>1
  <2> QED BY <1>1, <1>4, <2>1, <2>2
<1>5. CASE ~(q # <<>> /\ Last(q) = e) /\ Len(q) = MaxQueue
  <2>1. r = Append(q, Overflow)  BY <1>5 DEF Enqueue
  <2>2. r \in Seq(Event) /\ Len(r) = Len(q) + 1  BY <1>2, <2>1
  <2> QED BY <1>1, <1>5, <2>1, <2>2
<1>6. CASE ~(q # <<>> /\ Last(q) = e) /\ ~(Len(q) < MaxQueue) /\ Len(q) # MaxQueue
  <2>1. r = q  BY <1>6 DEF Enqueue
  <2> QED BY <1>1, <1>6, <2>1
<1> QED BY <1>3, <1>4, <1>5, <1>6

LEMMA EnqueueLast ==
  ASSUME NEW q \in Seq(Event), Len(q) <= MaxQueue + 1, OverflowLast(q),
         NEW e \in Event, e # Overflow, NEW r, r = Enqueue(q, e)
  PROVE  OverflowLast(r)
<1>1. /\ \/ r = q
         \/ r = Append(q, e)
         \/ r = Append(q, Overflow) /\ Len(q) = MaxQueue
  BY EnqueueDoes
<1>2. CASE r = q  BY <1>2
<1>3. CASE r = Append(q, e)
  <2>1. /\ DOMAIN r = 1 .. Len(q) + 1 /\ r[Len(q) + 1] = e /\ Len(q) \in Nat
        /\ \A i \in 1 .. Len(q) : r[i] = q[i]
    BY <1>3, AppendProperties
  <2>2. \A i \in DOMAIN r : i = Len(q) + 1 \/ i \in DOMAIN q  BY <2>1
  <2> QED BY <2>1, <2>2 DEF OverflowLast
<1>4. CASE r = Append(q, Overflow) /\ Len(q) = MaxQueue
  <2>1. Overflow \in Event
    <3>1. 0 \in 0 .. 2 * (MaxResets + 1)  BY WatchAssumption
    <3> QED BY <3>1 DEF Overflow, Event, Kinds
  <2>2. /\ DOMAIN r = 1 .. Len(q) + 1 /\ Len(q) \in Nat
        /\ \A i \in 1 .. Len(q) : r[i] = q[i]
    BY <1>4, <2>1, AppendProperties
  <2>3. \A i \in DOMAIN r : i = MaxQueue + 1 \/ i \in DOMAIN q  BY <1>4, <2>2
  <2> QED BY <2>2, <2>3 DEF OverflowLast
<1> QED BY <1>1, <1>2, <1>3, <1>4

(* The descriptors are numbers that events can have.                       *)
LEMMA Descriptors ==
  ASSUME InotifyInv, ClientOK
  PROVE  /\ wd \in Nat /\ nextWd \in Nat \ {0} /\ wd < nextWd /\ nextWd <= resets + 2
         /\ wd \in 0 .. 2 * (MaxResets + 1)
<1>1. /\ wd \in 0 .. nextWd - 1 /\ nextWd \in Nat \ {0}
      /\ nextWd <= resets + 1 + (IF wd = 0 THEN 0 ELSE 1)
  BY DEF InotifyInv, InotifyTypeOK
<1>2. resets \in Nat /\ resets <= MaxResets /\ MaxResets \in Nat  BY WatchAssumption DEF ClientOK
<1>3. nextWd <= resets + 2  BY <1>1, <1>2
<1>4. wd <= MaxResets + 1  BY <1>1, <1>2, <1>3
<1> QED BY <1>1, <1>2, <1>3, <1>4

LEMMA InotifyChangeTyped ==
  ASSUME InotifyInv, ClientOK, NEW n \in Names, NEW op \in {"create", "delete", "modify"},
         InotifyChange(n, op), UNCHANGED resets
  PROVE  InotifyInv'
<1>1. queue \in Seq(Event) /\ Len(queue) <= MaxQueue + 1  BY DEF InotifyInv, InotifyTypeOK
<1> DEFINE e == [wd |-> wd, name |-> n, kind |-> op]
<1>2. e \in Event  BY Descriptors DEF Event, Kinds
<1>3. Enqueue(queue, e) \in Seq(Event) /\ Len(Enqueue(queue, e)) <= MaxQueue + 1
  <2> HIDE DEF e
  <2> QED BY <1>1, <1>2, EnqueueDoes
<1>4. queue' \in Seq(Event) /\ Len(queue') <= MaxQueue + 1
  BY <1>1, <1>3 DEF InotifyChange
<1>5. OverflowLast(queue')
  <2>1. OverflowLast(queue) /\ e # Overflow  BY DEF InotifyInv, Overflow
  <2> HIDE DEF e
  <2>2. OverflowLast(Enqueue(queue, e))  BY <1>1, <1>2, <2>1, EnqueueLast
  <2> QED BY <2>1, <2>2 DEF InotifyChange, e
<1> QED BY <1>4, <1>5 DEF InotifyChange, InotifyInv, InotifyTypeOK

(* release_watch, on Linux                                                 *)
LEMMA ReleaseTyped ==
  ASSUME InotifyInv, ClientOK
  PROVE  /\ ReleaseInotify.inodes \in [1 .. nextWd - 1 -> {"target", "link", "none"}]
         /\ ReleaseInotify.queue \in Seq(Event) /\ Len(ReleaseInotify.queue) <= MaxQueue + 1
         /\ OverflowLast(ReleaseInotify.queue)
         /\ wd = 0 => ReleaseInotify.queue = queue /\ ReleaseInotify.inodes = inodes
         /\ wd # 0 => ReleaseInotify.queue = Enqueue(queue, [wd |-> wd, name |-> Root, kind |-> "ignored"])
<1>1. /\ queue \in Seq(Event) /\ Len(queue) <= MaxQueue + 1
      /\ inodes \in [1 .. nextWd - 1 -> {"target", "link", "none"}]
  BY DEF InotifyInv, InotifyTypeOK
<1> DEFINE e == [wd |-> wd, name |-> Root, kind |-> "ignored"]
<1>2. e \in Event  BY Descriptors DEF Event, Kinds
<1>3. Enqueue(queue, e) \in Seq(Event) /\ Len(Enqueue(queue, e)) <= MaxQueue + 1
  <2> HIDE DEF e
  <2> QED BY <1>1, <1>2, EnqueueDoes
<1> DEFINE q == Enqueue(queue, e)
<1>4. OverflowLast(queue) /\ OverflowLast(q)
  <2>1. OverflowLast(queue) /\ e # Overflow  BY DEF InotifyInv, Overflow
  <2> HIDE DEF e
  <2> QED BY <1>1, <1>2, <2>1, EnqueueLast
<1>5. CASE wd = 0  BY <1>1, <1>4, <1>5 DEF ReleaseInotify
<1>6. CASE wd # 0
  <2>1. [inodes EXCEPT ![wd] = "none"] \in [1 .. nextWd - 1 -> {"target", "link", "none"}]
    BY <1>1
  <2>2. /\ ReleaseInotify.inodes = [inodes EXCEPT ![wd] = "none"]
        /\ ReleaseInotify.queue = Enqueue(queue, e)
    BY <1>6 DEF ReleaseInotify, RmWatch
  <2> QED BY <1>3, <1>4, <1>6, <2>1, <2>2
<1> QED BY <1>5, <1>6

LEMMA InotifyResetTyped ==
  ASSUME InotifyInv, ClientOK, InotifyReset, resets' = resets + 1
  PROVE  InotifyInv'
<1>1. /\ inodes' \in [1 .. nextWd - 1 -> {"target", "link", "none"}]
      /\ queue' \in Seq(Event) /\ Len(queue') <= MaxQueue + 1 /\ OverflowLast(queue')
  BY ReleaseTyped DEF InotifyReset
<1>2. /\ nextWd' = nextWd /\ wd' = 0 /\ previous' = NoEvent /\ missed' = missed /\ missed \subseteq Names
  BY DEF InotifyReset, InotifyInv, InotifyTypeOK
<1>3. nextWd \in Nat \ {0} /\ nextWd <= resets + 2 /\ resets \in Nat
  BY Descriptors DEF ClientOK
<1>4. wd' \in 0 .. nextWd' - 1 /\ nextWd' <= resets' + 1  BY <1>2, <1>3
<1> QED BY <1>1, <1>2, <1>3, <1>4 DEF InotifyInv, InotifyTypeOK

(* add_watch: there is a watch then, the one there was or a new one.       *)
LEMMA InotifyAddDoes ==
  ASSUME ~Follow, InotifyInv, ClientOK, NEW follow, InotifyAddWatch(follow), UNCHANGED resets
  PROVE  /\ InotifyInv' /\ wd' # 0 /\ queue' = queue /\ missed' = missed /\ previous' = previous
         /\ IF wd = 0 THEN wd' = nextWd /\ nextWd' = nextWd + 1 ELSE wd' = wd /\ nextWd' = nextWd
<1>1. UNCHANGED <<previous, missed>>
      /\ IF Wd("target") = wd THEN UNCHANGED <<wd, nextWd, inodes, queue>>
         ELSE /\ wd' = Wd("target") /\ nextWd' = nextWd + 1
              /\ inodes' = Append(ReleaseInotify.inodes, "target")
              /\ queue' = ReleaseInotify.queue
  BY DEF InotifyAddWatch
<1>2. CASE wd # 0
  <2>1. Wd("target") = wd  BY <1>2 DEF Wd, InotifyInv
  <2> QED BY <1>1, <1>2, <2>1 DEF InotifyInv, InotifyTypeOK
<1>3. CASE wd = 0
  <2>1. Wd("target") = nextWd /\ nextWd # 0 /\ nextWd \in Nat  BY <1>3, Descriptors DEF Wd
  <2>2. /\ wd' = nextWd /\ nextWd' = nextWd + 1 /\ queue' = queue /\ inodes' = Append(inodes, "target")
    BY <1>1, <1>3, <2>1, ReleaseTyped
  <2>3. /\ inodes' \in [1 .. nextWd' - 1 -> {"target", "link", "none"}]
        /\ inodes'[nextWd] = "target"
    <3> DEFINE S == {"target", "link", "none"}
    <3>1. inodes \in [1 .. nextWd - 1 -> S]  BY DEF InotifyInv, InotifyTypeOK
    <3>2. inodes \in Seq(S) /\ Len(inodes) = nextWd - 1  BY <2>1, <3>1
    <3>3. inodes' \in Seq(S) /\ Len(inodes') = nextWd /\ inodes'[nextWd] = "target"
      BY <2>1, <2>2, <3>2, AppendProperties
    <3>4. nextWd' - 1 = nextWd  BY <2>1, <2>2
    <3> HIDE DEF S
    <3>5. inodes' \in [1 .. nextWd -> S]  BY <3>3
    <3> QED BY <3>3, <3>4, <3>5 DEF S
  <2>4. nextWd <= resets + 1 /\ resets \in Nat  BY <1>3 DEF InotifyInv, ClientOK
  <2>5. wd' \in 0 .. nextWd' - 1 /\ nextWd' \in Nat \ {0} /\ nextWd' <= resets' + 1 + 1
    BY <2>1, <2>2, <2>4
  <2> QED BY <1>1, <1>3, <2>1, <2>2, <2>3, <2>5 DEF InotifyInv, InotifyTypeOK
<1> QED BY <1>2, <1>3

-----------------------------------------------------------------------------
(* What handling events has led to                                         *)
Handled == [previous : Event \cup {NoEvent}, rec : RecSet, missed : SUBSET Names]

(* An event e about the file n has been handled.                           *)
Recalls(s, n, e) ==
  s.rec.children[n] # "none" \/ n \in s.missed \/ (e.kind = "delete" /\ seen[n] = "absent")

LEMMA SignalOverflowDoes ==
  ASSUME NEW r, RecOK(r)
  PROVE  RecOK(SignalOverflow(r)) /\ Changed(SignalOverflow(r)) /\ SignalOverflow(r).children = r.children
<1>1. /\ SignalOverflow(r) \in RecSet /\ SignalOverflow(r).old = r.old
      /\ SignalOverflow(r).children = r.children /\ Changed(SignalOverflow(r))
  BY DEF SignalOverflow, RecSet, RecOK, Changed
<1> QED BY <1>1 DEF RecOK

(* An event for another file or another watch records nothing about n.     *)
LEMMA HandleDoes ==
  ASSUME NEW s \in Handled, RecOK(s.rec), NEW e \in Event, NEW r, r = Handle(s, e)
  PROVE  /\ r \in Handled /\ RecOK(r.rec) /\ r.previous = e
         /\ s.missed \subseteq r.missed
         /\ Changed(s.rec) => Changed(r.rec)
         /\ e = Overflow /\ s.previous # e => Changed(r.rec)
         /\ \A n \in Names : ~(e.name = n /\ e.wd = wd) => r.rec.children[n] = s.rec.children[n]
         /\ \A n \in Names : e.name = n /\ e.wd = wd => Recalls(r, n, e)
<1> DEFINE rec2 == IF s.previous = e THEN s.rec
                   ELSE IF e.kind = "overflow" THEN SignalOverflow(s.rec)
                   ELSE IF e.kind # "ignored" /\ e.wd = wd THEN SignalChange(s.rec, e.name, e.kind)
                   ELSE s.rec
           more == {n \in Names : /\ e.name = n /\ e.wd = wd /\ rec2.children[n] = "none"
                                  /\ e.kind = "delete" => seen[n] # "absent"}
<1>1. e.name \in Names \cup {Root} /\ e.kind \in Kinds  BY DEF Event
<1>2. /\ RecOK(rec2) /\ (Changed(s.rec) => Changed(rec2))
      /\ (e.kind = "overflow" /\ s.previous # e => Changed(rec2))
      /\ \A n \in Names : ~(e.name = n /\ e.wd = wd) => rec2.children[n] = s.rec.children[n]
  <2>1. CASE s.previous = e  BY <2>1
  <2>2. CASE s.previous # e /\ e.kind = "overflow"
    <3>1. rec2 = SignalOverflow(s.rec)  BY <2>2
    <3> HIDE DEF rec2
    <3> QED BY <2>2, <3>1, SignalOverflowDoes
  <2>3. CASE s.previous # e /\ e.kind # "overflow" /\ e.kind # "ignored" /\ e.wd = wd
    <3>1. rec2 = SignalChange(s.rec, e.name, e.kind)  BY <2>3
    <3> HIDE DEF rec2
    <3>2. /\ RecOK(rec2) /\ (Changed(s.rec) => Changed(rec2))
          /\ \A m \in Names : m # e.name => rec2.children[m] = s.rec.children[m]
      BY <1>1, <3>1, SignalChangeDoes
    <3> QED BY <2>3, <3>2
  <2>4. CASE s.previous # e /\ e.kind # "overflow" /\ ~(e.kind # "ignored" /\ e.wd = wd)
    BY <2>4
  <2> QED BY <2>1, <2>2, <2>3, <2>4
<1>3. HandleEvent(s, e) = [s EXCEPT !.previous = e, !.rec = rec2]
  BY DEF HandleEvent, Handled
<1> HIDE DEF rec2
<1>4. r = [s EXCEPT !.previous = e, !.rec = rec2, !.missed = s.missed \cup more]
  <2>1. HandleEvent(s, e).rec = rec2 /\ HandleEvent(s, e).missed = s.missed  BY <1>3 DEF Handled
  <2>2. r = [HandleEvent(s, e) EXCEPT !.missed = s.missed \cup more]  BY <2>1 DEF Handle
  <2> HIDE DEF more
  <2> QED BY <1>3, <2>2 DEF Handled
<1>5. more \subseteq Names  OBVIOUS
<1>6. \A n \in Names : e.name = n /\ e.wd = wd =>
        rec2.children[n] # "none" \/ n \in more \/ (e.kind = "delete" /\ seen[n] = "absent")
  OBVIOUS
<1> HIDE DEF more
<1>7. rec2 \in RecSet  BY <1>2 DEF RecOK
<1>8. /\ r \in Handled /\ r.rec = rec2 /\ r.previous = e /\ r.missed = s.missed \cup more
  BY <1>4, <1>5, <1>7 DEF Handled
<1>9. \A n \in Names : e.name = n /\ e.wd = wd => Recalls(r, n, e)
  BY <1>6, <1>8 DEF Recalls
<1>10. e = Overflow => e.kind = "overflow"  BY DEF Overflow
<1> QED BY <1>2, <1>8, <1>9, <1>10

(* What handling the events with the numbers in s has led to               *)
ReadSome(y, s) ==
  /\ RecOK(y.rec) /\ missed \subseteq y.missed
  /\ s # {} => y.previous = queue[Max(s)]
  /\ Changed(rec) => Changed(y.rec)
  /\ 1 \in s /\ (\E i \in s : queue[i] = Overflow) => Changed(y.rec)
  /\ \A n \in Names : (\A i \in s : ~AboutFile(i, n)) => y.rec.children[n] = rec.children[n]
  /\ \A n \in Names, i \in s :
       AboutFile(i, n) /\ (\A j \in s : j > i => ~AboutFile(j, n)) => Recalls(y, n, queue[i])

LEMMA HandleStep ==
  ASSUME queue \in Seq(Event), OverflowLast(queue),
         NEW s \in SUBSET DOMAIN queue, s # {}, NEW m, m = Max(s), m \in s, \A i \in s : i <= m,
         s \ {m} # {} => Max(s \ {m}) \in s \ {m},
         NEW y \in Handled, ReadSome(y, s \ {m}), NEW r, r = Handle(y, queue[m])
  PROVE  r \in Handled /\ ReadSome(r, s)
<1> DEFINE e == queue[m]
           t == s \ {m}
<1>1. DOMAIN queue = 1 .. Len(queue) /\ Len(queue) \in Nat /\ e \in Event  OBVIOUS
<1>2. /\ RecOK(y.rec) /\ missed \subseteq y.missed
      /\ t # {} => y.previous = queue[Max(t)]
      /\ Changed(rec) => Changed(y.rec)
      /\ 1 \in t /\ (\E i \in t : queue[i] = Overflow) => Changed(y.rec)
      /\ \A n \in Names : (\A i \in t : ~AboutFile(i, n)) => y.rec.children[n] = rec.children[n]
      /\ \A n \in Names, i \in t :
           AboutFile(i, n) /\ (\A j \in t : j > i => ~AboutFile(j, n)) => Recalls(y, n, queue[i])
  BY DEF ReadSome
<1>3. /\ r \in Handled /\ RecOK(r.rec) /\ r.previous = e
      /\ y.missed \subseteq r.missed
      /\ Changed(y.rec) => Changed(r.rec)
      /\ e = Overflow /\ y.previous # e => Changed(r.rec)
      /\ \A n \in Names : ~(e.name = n /\ e.wd = wd) => r.rec.children[n] = y.rec.children[n]
      /\ \A n \in Names : e.name = n /\ e.wd = wd => Recalls(r, n, e)
  <2> HIDE DEF e, t
  <2>1. r = Handle(y, e)  BY DEF e
  <2> QED BY <1>1, <1>2, <2>1, HandleDoes
<1>4. \A n : AboutFile(m, n) <=> e.name = n /\ e.wd = wd  BY DEF AboutFile
<1>5. ASSUME 1 \in s, NEW i \in s, queue[i] = Overflow PROVE Changed(r.rec)
  <2>1. CASE i \in t
    <3>1. i = MaxQueue + 1 /\ MaxQueue >= 1  BY <1>5, QueueAssumption DEF OverflowLast
    <3>2. m # 1  BY <1>1, <2>1, <3>1, QueueAssumption
    <3> QED BY <1>2, <1>3, <1>5, <2>1, <3>2
  <2>2. CASE i = m
    <3>1. m = MaxQueue + 1 /\ MaxQueue >= 1 /\ MaxQueue \in Nat
      BY <1>5, <2>2, QueueAssumption DEF OverflowLast
    <3>2. 1 \in t  BY <1>5, <3>1
    <3>3. Max(t) \in t /\ Max(t) # m  BY <3>2
    <3>4. queue[Max(t)] # Overflow  BY <3>1, <3>3 DEF OverflowLast
    <3>5. y.previous = queue[Max(t)]  BY <1>2, <3>2
    <3> QED BY <1>3, <1>5, <2>2, <3>4, <3>5
  <2> QED BY <2>1, <2>2
<1>6. ASSUME NEW n \in Names, \A i \in s : ~AboutFile(i, n)
      PROVE  r.rec.children[n] = rec.children[n]
  BY <1>2, <1>3, <1>4, <1>6
<1>7. ASSUME NEW n \in Names, NEW i \in s, AboutFile(i, n), \A j \in s : j > i => ~AboutFile(j, n)
      PROVE  Recalls(r, n, queue[i])
  <2>1. CASE i = m  BY <1>3, <1>4, <1>7, <2>1
  <2>2. CASE i \in t
    <3>1. m > i  BY <1>1, <2>2
    <3>2. ~AboutFile(m, n)  BY <1>7, <3>1
    <3>3. Recalls(y, n, queue[i])  BY <1>2, <1>7, <2>2
    <3>4. r.rec.children[n] = y.rec.children[n]  BY <1>3, <1>4, <3>2
    <3> HIDE DEF t
    <3> QED BY <1>3, <3>3, <3>4 DEF Recalls
  <2> QED BY <2>1, <2>2
<1>8. missed \subseteq r.missed /\ (Changed(rec) => Changed(r.rec))  BY <1>2, <1>3
<1> HIDE DEF t
<1> QED BY <1>3, <1>5, <1>6, <1>7, <1>8 DEF ReadSome

(* Lwt_inotify.read and watch_rec: all the events are handled.             *)
LEMMA EventsHandled ==
  ASSUME queue \in Seq(Event), OverflowLast(queue), RecOK(rec), missed \subseteq Names,
         previous \in Event \cup {NoEvent},
         NEW r, r = FoldLeft(Handle, [previous |-> previous, rec |-> rec, missed |-> missed], queue)
  PROVE  r \in Handled /\ ReadSome(r, DOMAIN queue)
<1> DEFINE S == DOMAIN queue
           base == [previous |-> previous, rec |-> rec, missed |-> missed]
           Good(s) == {y \in Handled : ReadSome(y, s)}
           F == [x \in S \X Handled |-> Handle(x[2], queue[x[1]])]
           G == [s \in SUBSET S |-> Good(s)]
           ch == Greatest(S)
           iter == CHOOSE it : it = [s \in SUBSET S |->
                     IF s = {} THEN base ELSE Handle(it[s \ {Max(s)}], queue[Max(s)])]
<1>1. r = iter[S]  BY DEF FoldLeft, MapThenFoldSet
<1>2. S = 1 .. Len(queue) /\ Len(queue) \in Nat  OBVIOUS
<1> HIDE DEF S
<1>3. IsFiniteSet(S) /\ Chooses(ch, S)  BY <1>2, ChoosesGreatest
<1>4. \A s \in SUBSET S : s # {} => Max(s) \in s /\ ch[s] = Max(s) /\ \A i \in s : i <= Max(s)
  <2> TAKE s \in SUBSET S
  <2> HAVE s # {}
  <2>1. S \subseteq Int  BY <1>2
  <2>2. IsFiniteSet(s)  BY <1>3, FS_Subset
  <2>3. Max(s) \in s /\ \A i \in s : i <= Max(s)  BY <2>1, <2>2, MaxInSet
  <2> QED BY <2>3 DEF Greatest
<1>5. base \in Good({})
  <2>1. base \in Handled  BY DEF Handled, RecOK
  <2>2. ReadSome(base, {})  BY DEF ReadSome
  <2> QED BY <2>1, <2>2
<1>6. ASSUME NEW s \in SUBSET S, s # {}, NEW y \in Good(s \ {Max(s)})
      PROVE  Handle(y, queue[Max(s)]) \in Good(s)
  <2>1. PICK m, q : m = Max(s) /\ q = Handle(y, queue[m])  OBVIOUS
  <2>2. m \in s /\ (\A i \in s : i <= m) /\ s \in SUBSET DOMAIN queue  BY <1>4, <1>6, <2>1 DEF S
  <2>3. s \ {m} # {} => Max(s \ {m}) \in s \ {m}
    <3>1. s \ {m} \in SUBSET S  OBVIOUS
    <3> QED BY <1>4, <3>1
  <2>4. y \in Handled /\ ReadSome(y, s \ {m})  BY <1>6, <2>1
  <2>5. q \in Handled /\ ReadSome(q, s)
    BY <1>6, <2>1, <2>2, <2>3, <2>4, HandleStep
  <2> QED BY <2>1, <2>5
<1>9. PICK g : IsFold(g, S, F, base, ch, Handled)
  <2>1. G \in [SUBSET S -> SUBSET Handled] /\ base \in G[{}]  BY <1>5
  <2>2. \A s \in SUBSET S : s # {} => \A y \in G[s \ {ch[s]}] : F[<<ch[s], y>>] \in G[s]
    <3> TAKE s \in SUBSET S
    <3> HAVE s # {}
    <3> TAKE y \in G[s \ {ch[s]}]
    <3>1. s \ {Max(s)} \in SUBSET S /\ Max(s) \in S /\ ch[s] = Max(s)  BY <1>4
    <3> HIDE DEF ch
    <3>2. G[s] = Good(s) /\ G[s \ {Max(s)}] = Good(s \ {Max(s)})  BY <3>1
    <3> HIDE DEF G
    <3>3. y \in Good(s \ {Max(s)})  BY <3>1, <3>2
    <3>4. y \in Handled  BY <3>3
    <3> HIDE DEF Good
    <3>5. F[<<Max(s), y>>] = Handle(y, queue[Max(s)])  BY <3>1, <3>4
    <3> HIDE DEF F
    <3>6. Handle(y, queue[Max(s)]) \in Good(s)  BY <1>6, <3>3
    <3> QED BY <3>1, <3>2, <3>5, <3>6
  <2> HIDE DEF G, F, base, ch
  <2>3. Within(G, F, base, ch, S, Handled)  BY <2>1, <2>2 DEF Within
  <2> QED BY <1>3, <2>3, FoldWithin
<1>10. \A s \in SUBSET S :
         g[s] = IF s = {} THEN base ELSE Handle(g[s \ {Max(s)}], queue[Max(s)])
  <2> TAKE s \in SUBSET S
  <2> HIDE DEF base, ch, G
  <2>1. CASE s = {}  BY <1>9, <2>1 DEF IsFold
  <2>2. CASE s # {}
    <3>1. ch[s] = Max(s) /\ Max(s) \in S /\ s \ {Max(s)} \in SUBSET S  BY <1>4, <2>2
    <3>2. g[s \ {Max(s)}] \in Handled  BY <1>9, <3>1 DEF IsFold
    <3>3. F[<<Max(s), g[s \ {Max(s)}]>>] = Handle(g[s \ {Max(s)}], queue[Max(s)])  BY <3>1, <3>2
    <3> HIDE DEF F
    <3> QED BY <1>9, <2>2, <3>1, <3>3 DEF IsFold
  <2> QED BY <2>1, <2>2
<1>11. iter = [s \in SUBSET S |->
                IF s = {} THEN base ELSE Handle(iter[s \ {Max(s)}], queue[Max(s)])]
  <2> HIDE DEF base, F, G, ch
  <2>1. g = [s \in SUBSET S |->
               IF s = {} THEN base ELSE Handle(g[s \ {Max(s)}], queue[Max(s)])]
    BY <1>9, <1>10 DEF IsFold
  <2> QED BY <2>1
<1> DEFINE Q == {s \in SUBSET S : iter[s] \in Good(s)}
<1>12. S \in Q
  <2>1. {} \in Q
    <3> HIDE DEF iter, base
    <3>1. iter[{}] = base  BY <1>11
    <3> HIDE DEF Good
    <3> QED BY <1>5, <3>1
  <2>2. \A s \in SUBSET S : s # {} => \E x \in s : s \ {x} \in Q => s \in Q
    <3> TAKE s \in SUBSET S
    <3> HAVE s # {}
    <3>1. Max(s) \in s  BY <1>4
    <3> HIDE DEF base, iter, Good
    <3>2. iter[s] = Handle(iter[s \ {Max(s)}], queue[Max(s)])  BY <1>11
    <3>3. s \ {Max(s)} \in Q => s \in Q  BY <1>6, <3>2
    <3> QED BY <3>1, <3>3
  <2> HIDE DEF Q
  <2> QED BY <1>3, <2>1, <2>2, SubsetInduction
<1>13. r \in Good(S)
  <2> HIDE DEF iter, base, Good
  <2> QED BY <1>1, <1>12
<1> QED BY <1>13 DEF S

-----------------------------------------------------------------------------
LEMMA InotifyReadDoes ==
  ASSUME InotifyInv, RecOK(rec), ReadInotify
  PROVE  /\ InotifyInv' /\ RecOK(rec')
         /\ ReadSome([previous |-> previous', rec |-> rec', missed |-> missed'], DOMAIN queue)
<1>1. /\ queue \in Seq(Event) /\ OverflowLast(queue) /\ missed \subseteq Names
      /\ previous \in Event \cup {NoEvent}
  BY DEF InotifyInv, InotifyTypeOK
<1>2. PICK s : s = FoldLeft(Handle, [previous |-> previous, rec |-> rec, missed |-> missed], queue)
  OBVIOUS
<1>3. /\ rec' = s.rec /\ previous' = s.previous /\ missed' = s.missed /\ queue' = <<>>
      /\ UNCHANGED <<wd, nextWd, inodes, resets>>
  BY <1>2 DEF ReadInotify, fsvars, clientvars
<1>4. s \in Handled /\ ReadSome(s, DOMAIN queue)  BY <1>1, <1>2, EventsHandled
<1>5. s = [previous |-> previous', rec |-> rec', missed |-> missed']  BY <1>3, <1>4 DEF Handled
<1>6. RecOK(rec')  BY <1>3, <1>4 DEF ReadSome
<1>7. previous' \in Event \cup {NoEvent} /\ missed' \subseteq Names  BY <1>3, <1>4 DEF Handled
<1>8. queue' \in Seq(Event) /\ Len(queue') = 0 /\ DOMAIN queue' = {}  BY <1>3
<1>9. Len(queue') <= MaxQueue + 1  BY <1>8, QueueAssumption
<1>10. OverflowLast(queue')  BY <1>8 DEF OverflowLast
<1>11. InotifyInv'  BY <1>3, <1>7, <1>8, <1>9, <1>10 DEF InotifyInv, InotifyTypeOK
<1> QED BY <1>4, <1>5, <1>6, <1>11

-----------------------------------------------------------------------------
(* FenInv is kept.                                                         *)
LEMMA FenChangeTyped ==
  ASSUME FenInv, NEW n, NEW op, FenChange(n, op), UNCHANGED resets
  PROVE  FenInv'
<1>1. /\ Own(fen, fen.entries) /\ (NotWatched(fen) => fen.entries = {}) /\ fen.follow = FALSE
      /\ fen.id <= resets /\ Fetched /\ batch \subseteq Events
      /\ toFetch \subseteq Ports /\ split \in BOOLEAN
  BY DEF FenInv
<1>2. /\ Own(fen', fen'.entries) /\ Keeps(fen, fen') /\ UNCHANGED <<toFetch, batch, split>>
      /\ \A x : x \in fen'.assoc <=> x \in fen.assoc /\ ~Hears(x, n, op)
      /\ \A y \in fen'.queue : y \in fen.queue \/ \E x \in fen.assoc : Of(y, x)
  BY <1>1, FenChangeDoes
<1>3. /\ fen'.id = fen.id /\ fen'.follow = fen.follow /\ fen'.entries = fen.entries
      /\ NotWatched(fen') <=> NotWatched(fen)
  BY <1>2 DEF Keeps, NotWatched
<1>4. ASSUME NEW y \in batch, Idle(fen, y) PROVE Idle(fen', y)
  <2>1. ASSUME NEW x \in fen'.queue, Of(x, y) PROVE FALSE
    <3>1. x \notin fen.queue  BY <1>4, <2>1 DEF Idle
    <3>2. PICK v \in fen.assoc : Of(x, v)  BY <1>2, <3>1
    <3>3. Of(v, y)  BY <2>1, <3>2 DEF Of
    <3> QED BY <1>4, <3>3 DEF Idle
  <2>2. \A x \in fen'.assoc : ~Of(x, y)  BY <1>2, <1>4 DEF Idle
  <2> QED BY <2>1, <2>2 DEF Idle
<1>5. Fetched'  BY <1>1, <1>2, <1>3, <1>4 DEF Fetched
<1> QED BY <1>1, <1>2, <1>3, <1>5 DEF FenInv

LEMMA FenAddDoes ==
  ASSUME ~Follow, fs \subseteq Names, FenInv, FenAddWatch(FALSE), UNCHANGED <<fs, resets>>
  PROVE  /\ FenInv' /\ ~NotWatched(fen') /\ UNCHANGED <<batch, split>>
         /\ IF NotWatched(fen) THEN Armed(fen') /\ Lists(fen', fs) ELSE fen' = fen
<1>1. /\ Own(fen, fen.entries) /\ (NotWatched(fen) => fen.entries = {}) /\ fen.follow = FALSE
      /\ fen.id <= resets /\ Fetched /\ batch \subseteq Events
      /\ toFetch \subseteq Ports /\ split \in BOOLEAN
  BY DEF FenInv
<1>2. fen' = AddWatch(fen, FALSE) /\ UNCHANGED <<toFetch, batch, split>>  BY DEF FenAddWatch
<1>3. /\ Own(fen', fen'.entries) /\ fen'.watched = TRUE /\ fen'.follow = FALSE /\ fen'.id = fen.id
      /\ IF NotWatched(fen) THEN Armed(fen') /\ Lists(fen', fs) /\ fen'.queue = {} ELSE fen' = fen
  <2>1. PICK r : r = AddWatch(fen, FALSE)  OBVIOUS
  <2>2. NewWatch(fen, r)  BY <1>1, <2>1, AddWatchDoes
  <2>3. fen' = r  BY <1>2, <2>1
  <2> QED BY <2>2, <2>3 DEF NewWatch
<1>4. Fetched'
  <2>1. CASE NotWatched(fen)  BY <1>1, <1>2, <1>3, <2>1 DEF Fetched
  <2>2. CASE ~NotWatched(fen)  BY <1>1, <1>2, <1>3, <2>2 DEF Fetched
  <2> QED BY <2>1, <2>2
<1>5. ~NotWatched(fen')  BY <1>3 DEF NotWatched
<1> QED BY <1>1, <1>2, <1>3, <1>4, <1>5 DEF FenInv

LEMMA FenResetDoes ==
  ASSUME FenInv, FenReset, resets' = resets + 1, resets \in Nat
  PROVE  FenInv' /\ NotWatched(fen')
<1>1. /\ Own(fen, fen.entries) /\ (NotWatched(fen) => fen.entries = {}) /\ fen.follow = FALSE
      /\ fen.id <= resets /\ Fetched /\ batch \subseteq Events
      /\ toFetch \subseteq Ports /\ split \in BOOLEAN
  BY DEF FenInv
<1>2. PICK p : p = ReleaseWatch(fen)  OBVIOUS
<1>3. Own(p, {}) /\ p.entries = {} /\ NotWatched(p) /\ p.id = fen.id /\ p.follow = fen.follow
  BY <1>1, <1>2, ReleaseWatchDoes
<1>4. fen' = [p EXCEPT !.id = @ + 1] /\ UNCHANGED <<toFetch, batch, split>>  BY <1>2 DEF FenReset
<1>5. /\ fen' \in Fen /\ (Faultless(p) => Faultless(fen')) /\ fen'.heap = p.heap
      /\ fen'.cookie = p.cookie /\ fen'.ports = p.ports /\ fen'.assoc = p.assoc
      /\ fen'.queue = p.queue /\ fen'.id = p.id + 1 /\ fen'.id >= p.id /\ p.id \in Nat
      /\ (NotWatched(p) => NotWatched(fen')) /\ fen'.follow = p.follow /\ fen'.entries = p.entries
  BY <1>3, <1>4 DEF Own, Fen, Faultless, NotWatched
<1>6. Faultless(p)  BY <1>3 DEF Own
<1>7. Own(fen', {})
  <2>1. PICK r : r = fen'  OBVIOUS
  <2>2. /\ r \in Fen /\ Faultless(r) /\ r.heap = p.heap /\ r.cookie = p.cookie
        /\ r.ports = p.ports /\ r.assoc = p.assoc /\ r.queue = p.queue /\ r.id >= p.id
    BY <1>5, <1>6, <2>1
  <2>3. Own(r, {})  BY <1>3, <2>2, Alike
  <2> QED BY <2>1, <2>3
<1>8. Fetched'
  <2>1. \A y \in batch : y.id <= fen.id /\ y.id \in Nat  BY <1>1 DEF Fetched, Events
  <2>2. \A y \in batch' : y.id <= fen'.id /\ y.id # fen'.id  BY <1>3, <1>4, <1>5, <2>1
  <2> QED BY <2>2 DEF Fetched
<1> QED BY <1>1, <1>3, <1>4, <1>5, <1>7, <1>8 DEF FenInv

LEMMA StartFetchTyped ==
  ASSUME FenInv, StartFetch
  PROVE  FenInv'
<1>1. /\ Own(fen, fen.entries) /\ (NotWatched(fen) => fen.entries = {}) /\ fen.follow = FALSE
      /\ fen.id <= resets /\ Fetched /\ batch \subseteq Events
      /\ toFetch \subseteq Ports /\ split \in BOOLEAN
  BY DEF FenInv
<1>2. toFetch' = DOMAIN fen.ports /\ UNCHANGED <<fen, batch, split, resets>>
  BY DEF StartFetch, clientvars
<1>3. toFetch' \subseteq Ports  BY <1>1, <1>2 DEF Own, Fen
<1> QED BY <1>1, <1>2, <1>3 DEF FenInv, Fetched

LEMMA FetchPortTyped ==
  ASSUME FenInv, resets \in 0 .. MaxResets, FetchPort
  PROVE  FenInv'
<1>1. /\ Own(fen, fen.entries) /\ (NotWatched(fen) => fen.entries = {}) /\ fen.follow = FALSE
      /\ fen.id <= resets /\ Fetched /\ batch \subseteq Events
      /\ toFetch \subseteq Ports /\ split \in BOOLEAN
  BY DEF FenInv
<1>2. fen.id \in 0 .. MaxResets  BY <1>1, WatchAssumption DEF Own, Fen
<1>3. /\ Own(fen', fen'.entries) /\ Keeps(fen, fen')
      /\ Fetched' /\ batch' \subseteq Events
      /\ \E q \in toFetch : toFetch' = toFetch \ {q}
  BY <1>1, <1>2, FetchPortDoes
<1>4. UNCHANGED <<split, resets>>  BY DEF FetchPort, clientvars
<1>5. /\ fen'.id = fen.id /\ fen'.follow = fen.follow /\ fen'.entries = fen.entries
      /\ NotWatched(fen') <=> NotWatched(fen)
  BY <1>3 DEF Keeps, NotWatched
<1> QED BY <1>1, <1>3, <1>4, <1>5 DEF FenInv

LEMMA ProcessEventsDoes ==
  ASSUME FenInv, RecOK(rec), ProcessEvents
  PROVE  /\ FenInv' /\ RecOK(rec') /\ batch' = {}
         /\ FenAfter(fen', Lookup(fen)) /\ RecAfter(rec', Lookup(fen))
         /\ split' = (split \/ ((\A e \in Lookup(fen) : e.name # Root) /\
                                \E e \in Lookup(fen) : ~Reassociates(fen, e)))
<1>1. /\ Own(fen, fen.entries) /\ (NotWatched(fen) => fen.entries = {}) /\ fen.follow = FALSE
      /\ fen.id <= resets /\ Fetched /\ batch \subseteq Events
      /\ toFetch \subseteq Ports /\ split \in BOOLEAN
  BY DEF FenInv
<1>2. PICK own : own = {e \in Lookup(fen) : e.name = Root}  OBVIOUS
<1>3. PICK t : t = SetToSeq(Lookup(fen) \ own) \o SetToSeq(own)  OBVIOUS
<1>4. PICK s : s = FoldLeft(ProcessEvent, [fen |-> fen, rec |-> rec], t)  OBVIOUS
<1>5. /\ fen' = s.fen /\ rec' = s.rec /\ batch' = {} /\ UNCHANGED <<toFetch, resets>>
      /\ split' = (split \/ (own = {} /\ \E e \in Lookup(fen) : ~Reassociates(fen, e)))
  BY <1>2, <1>3, <1>4 DEF ProcessEvents, clientvars
<1>6. FenAfter(s.fen, Lookup(fen)) /\ RecAfter(s.rec, Lookup(fen))
  BY <1>1, <1>2, <1>3, <1>4, EventsProcessed
<1>7. FenAfter(fen', Lookup(fen)) /\ RecAfter(rec', Lookup(fen))  BY <1>5, <1>6
<1>8. /\ Own(fen', fen'.entries) /\ fen'.id = fen.id /\ fen'.follow = fen.follow
      /\ NotWatched(fen') => fen'.entries = {}
  BY <1>7 DEF FenAfter
<1>9. Fetched'  BY <1>5 DEF Fetched
<1>10. split' \in BOOLEAN  BY <1>1, <1>5
<1>11. FenInv'  BY <1>1, <1>5, <1>8, <1>9, <1>10 DEF FenInv
<1>12. own = {} <=> \A e \in Lookup(fen) : e.name # Root  BY <1>2
<1>13. RecOK(rec')  BY <1>7 DEF RecAfter
<1> QED BY <1>5, <1>7, <1>11, <1>12, <1>13

LEMMA FenSame ==
  ASSUME FenInv, UNCHANGED <<fenvars, resets>>
  PROVE  FenInv'
BY DEF FenInv, fenvars, Fetched

LEMMA InotifySame ==
  ASSUME InotifyInv, UNCHANGED <<inotifyvars, resets>>
  PROVE  InotifyInv'
BY DEF InotifyInv, InotifyTypeOK, inotifyvars

-----------------------------------------------------------------------------
LEMMA TypeInit == ASSUME Init PROVE TypeInv
<1>1. FsOK /\ ClientOK /\ RecOK(rec)
  <2>1. FsOK
    <3>1. Times \in [Backends -> [Names -> Nat]] /\ backend \in Backends
      BY WatchAssumption DEF Init, WatchInit
    <3>2. \A n \in Names : 0 <= Times[backend][n]  BY <3>1
    <3> QED BY <3>2 DEF Init, WatchInit, FsOK
  <2>2. ClientOK  BY WatchAssumption DEF Init, WatchInit, ClientOK
  <2>3. RecOK(rec)
    <3>1. rec = NoRecord  BY DEF Init, WatchInit
    <3> QED BY <3>1 DEF NoRecord, RecOK, RecSet
  <2> QED BY <2>1, <2>2, <2>3
<1>2. InotifyInv
  <2>1. /\ wd = 0 /\ nextWd = 1 /\ inodes = <<>> /\ queue = <<>> /\ previous = NoEvent
        /\ missed = {} /\ resets = 0
    BY DEF Init, WatchInit, InotifyInit
  <2>2. inodes \in [1 .. nextWd - 1 -> {"target", "link", "none"}]  BY <2>1
  <2>3. queue \in Seq(Event) /\ Len(queue) <= MaxQueue + 1 /\ OverflowLast(queue)
    BY <2>1, QueueAssumption DEF OverflowLast
  <2> QED BY <2>1, <2>2, <2>3 DEF InotifyInv, InotifyTypeOK
<1>3. FenInv
  <2>1. /\ fen.heap = [a \in Addresses |-> "free"] /\ fen.cookie = [a \in Addresses |-> 0]
        /\ fen.id = 0 /\ fen.watched = FALSE /\ fen.follow = FALSE /\ fen.entries = {}
        /\ fen.ports = <<1>> /\ fen.assoc = {} /\ fen.queue = {} /\ Faultless(fen)
        /\ toFetch = {} /\ batch = {} /\ split = FALSE /\ resets = 0
    BY DEF Init, WatchInit, FenInit, Faultless
  <2>2. Cardinality(Names) \in Nat  BY WatchAssumption, FS_CardinalityType
  <2>3. 1 \in Ports  BY <2>2 DEF Ports
  <2>4. fen.ports \in [{1} -> Nat] /\ DOMAIN fen.ports = {1} /\ fen.ports[1] = 1
    BY <2>1
  <2>5. fen \in Fen
    <3>1. fen.ports \in UNION {[D -> Nat] : D \in SUBSET Ports}  BY <2>3, <2>4
    <3>2. [a \in Addresses |-> "free"] \in [Addresses -> {"free", "clear", "exception"}]
          /\ [a \in Addresses |-> 0] \in [Addresses -> Nat]
      OBVIOUS
    <3>3. PICK pts : pts = <<1>>  OBVIOUS
    <3>4. pts \in UNION {[D -> Nat] : D \in SUBSET Ports}  BY <2>1, <3>1, <3>3
    <3>5. fen = [heap |-> [a \in Addresses |-> "free"], cookie |-> [a \in Addresses |-> 0],
                 id |-> 0, watched |-> FALSE, follow |-> FALSE, entries |-> {}, ports |-> pts,
                 assoc |-> {}, queue |-> {}, fault |-> FALSE]
      BY <3>3 DEF Init, FenInit
    <3> QED BY ONLY <3>2, <3>4, <3>5 DEF Fen
  <2>6. Cardinality(On({}, 1)) = 0 /\ IsFiniteSet({})
    <3>1. On({}, 1) = {}  BY DEF On
    <3> QED BY <3>1, FS_EmptySet
  <2>7. Counted(fen, {})
    <3>1. 1 \in 1 .. MaxEv  BY PortAssumption
    <3> QED BY <2>4, <2>6, <3>1 DEF Counted, Others
  <2>8. Told(fen, {}) /\ Stamped(fen, {}) /\ Injective({})
    BY <2>1 DEF Told, Stamped, Injective
  <2>9. Own(fen, fen.entries)  BY <2>1, <2>5, <2>6, <2>7, <2>8 DEF Own
  <2>10. /\ fen.id = 0 /\ resets = 0 /\ fen.entries = {} /\ fen.follow = FALSE
         /\ toFetch = {} /\ batch = {} /\ split = FALSE
    BY <2>1
  <2>11. Fetched /\ batch \subseteq Events /\ toFetch \subseteq Ports /\ fen.id <= resets
    BY ONLY <2>10 DEF Fetched
  <2>12. split \in BOOLEAN  BY <2>10
  <2> QED BY ONLY <2>9, <2>10, <2>11, <2>12 DEF FenInv
<1> QED BY <1>1, <1>2, <1>3, TypeParts DEF TypeInv

LEMMA TypeUnfolds ==
  TypeInv <=> FsOK /\ ClientOK /\ RecOK(rec) /\ InotifyInv /\ FenInv
BY TypeParts DEF TypeInv

LEMMA TypeUnfoldsNext ==
  TypeInv' <=> FsOK' /\ ClientOK' /\ RecOK(rec') /\ InotifyInv' /\ FenInv'
BY DEF TypeInv, WatchTypeOK, FsOK, ClientOK, RecOK, RecSet

LEMMA Kept ==
  ASSUME FsOK, ClientOK, RecOK(rec)
  PROVE  /\ UNCHANGED fsvars => FsOK'
         /\ UNCHANGED clientvars => ClientOK'
         /\ UNCHANGED rec => RecOK(rec')
BY DEF FsOK, ClientOK, fsvars, clientvars

LEMMA TypeStep ==
  ASSUME ~Follow, TypeInv, Next
  PROVE  TypeInv'
<1>1. FsOK /\ ClientOK /\ RecOK(rec) /\ InotifyInv /\ FenInv  BY TypeUnfolds
<1>2. CASE ProgramChanges
  <2>1. PICK n \in Names, op \in {"create", "delete", "modify"} :
          /\ Change(n, op)
          /\ IF Linux THEN InotifyChange(n, op) /\ UNCHANGED fenvars
             ELSE FenChange(n, op) /\ UNCHANGED inotifyvars
    BY <1>2 DEF ProgramChanges
  <2>2. FsOK'  BY <1>1, <2>1, FsStep
  <2>3. UNCHANGED <<rec, clientvars, resets>>  BY <2>1 DEF Change, clientvars
  <2>4. ClientOK' /\ RecOK(rec')  BY <1>1, <2>3, Kept
  <2>5. InotifyInv'  BY <1>1, <2>1, <2>3, InotifyChangeTyped, InotifySame
  <2>6. FenInv'  BY <1>1, <2>1, <2>3, FenChangeTyped, FenSame
  <2> QED BY <2>2, <2>4, <2>5, <2>6, TypeUnfoldsNext
<1>3. CASE ClientWatches
  <2>1. /\ WatchDirectory
        /\ IF Linux THEN InotifyAddWatch(client \in {"link", "look"}) /\ UNCHANGED fenvars
           ELSE FenAddWatch(client \in {"link", "look"}) /\ UNCHANGED inotifyvars
    BY <1>3 DEF ClientWatches
  <2>2. (client \in {"link", "look"}) = FALSE  BY <1>1, <2>1 DEF ClientOK, WatchDirectory
  <2>3. UNCHANGED <<fsvars, fs, resets>>  BY <2>1 DEF WatchDirectory, fsvars
  <2>4. FsOK'  BY <1>1, <2>3, Kept
  <2>5. ClientOK' /\ RecOK(rec')  BY <1>1, <2>1, ClientStep, RecStep
  <2>6. InotifyInv'
    <3>1. CASE Linux
      <4>1. InotifyAddWatch(FALSE)  BY <2>1, <2>2, <3>1
      <4> QED BY <1>1, <2>3, <4>1, InotifyAddDoes
    <3>2. CASE ~Linux  BY <1>1, <2>1, <2>3, <3>2, InotifySame
    <3> QED BY <3>1, <3>2
  <2>7. FenInv'
    <3>1. CASE ~Linux
      <4>1. FenAddWatch(FALSE) /\ fs \subseteq Names  BY <1>1, <2>1, <2>2, <3>1 DEF FsOK
      <4> QED BY <1>1, <2>3, <4>1, FenAddDoes
    <3>2. CASE Linux  BY <1>1, <2>1, <2>3, <3>2, FenSame
    <3> QED BY <3>1, <3>2
  <2> QED BY <2>4, <2>5, <2>6, <2>7, TypeUnfoldsNext
<1>4. CASE ClientResets
  <2>1. /\ Reset
        /\ IF Linux THEN InotifyReset /\ UNCHANGED fenvars
           ELSE FenReset /\ UNCHANGED inotifyvars
    BY <1>4 DEF ClientResets
  <2>2. UNCHANGED fsvars /\ resets' = resets + 1 /\ resets \in Nat  BY <1>1, <2>1 DEF Reset, ClientOK
  <2>3. FsOK'  BY <1>1, <2>2, Kept
  <2>4. ClientOK' /\ RecOK(rec')  BY <1>1, <2>1, ClientStep, RecStep
  <2>5. InotifyInv'
    <3>1. CASE Linux  BY <1>1, <2>1, <2>2, <3>1, InotifyResetTyped
    <3>2. CASE ~Linux
      <4>1. nextWd <= resets + 1 + (IF wd = 0 THEN 0 ELSE 1) => nextWd <= resets' + 1 + (IF wd = 0 THEN 0 ELSE 1)
        BY <2>2, <1>1, Descriptors
      <4> QED BY <1>1, <2>1, <3>2, <4>1 DEF InotifyInv, InotifyTypeOK, inotifyvars
    <3> QED BY <3>1, <3>2
  <2>6. FenInv'
    <3>1. CASE ~Linux  BY <1>1, <2>1, <2>2, <3>1, FenResetDoes
    <3>2. CASE Linux
      <4>1. fen.id <= resets => fen.id <= resets'
        <5>1. fen.id \in Nat  BY <1>1 DEF FenInv, Own, Fen
        <5> QED BY <2>2, <5>1
      <4> QED BY <1>1, <2>1, <3>2, <4>1 DEF FenInv, fenvars, Fetched
    <3> QED BY <3>1, <3>2
  <2> QED BY <2>3, <2>4, <2>5, <2>6, TypeUnfoldsNext
<1>5. CASE ClientGetsChanges
  <2>1. /\ GetChanges /\ previous' = NoEvent
        /\ UNCHANGED <<wd, nextWd, inodes, queue, missed, fenvars>>
    BY <1>5 DEF ClientGetsChanges
  <2>2. UNCHANGED <<fsvars, resets>>  BY <2>1 DEF GetChanges
  <2>3. FsOK' /\ ClientOK' /\ RecOK(rec')  BY <1>1, <2>1, <2>2, ClientStep, RecStep, Kept
  <2>4. InotifyInv'  BY <1>1, <2>1, <2>2 DEF InotifyInv, InotifyTypeOK
  <2>5. FenInv'  BY <1>1, <2>1, <2>2, FenSame
  <2> QED BY <2>3, <2>4, <2>5, TypeUnfoldsNext
<1>6. CASE ClientScans
  <2>1. PICK n \in Names : StartFile(n) \/ Look(n)  BY <1>6 DEF ClientScans
  <2>2. UNCHANGED <<inotifyvars, fenvars>>  BY <1>6 DEF ClientScans
  <2>3. UNCHANGED resets  BY <2>1 DEF StartFile, Look
  <2>4. FsOK'
    <3>1. StartFile(n) => UNCHANGED fsvars  BY DEF StartFile
    <3> QED BY <1>1, <2>1, <3>1, FsStep, Kept
  <2>5. ClientOK'  BY <1>1, <2>1, ClientStep
  <2>6. RecOK(rec')
    <3>1. Look(n) => UNCHANGED rec  BY DEF Look
    <3> QED BY <1>1, <2>1, <3>1, RecStep, Kept
  <2> QED BY <1>1, <2>2, <2>3, <2>4, <2>5, <2>6, FenSame, InotifySame, TypeUnfoldsNext
<1>7. CASE ClientGoesOn
  <2>1. (Done \/ Wait \/ Ask) /\ UNCHANGED <<inotifyvars, fenvars>>  BY <1>7 DEF ClientGoesOn
  <2>2. UNCHANGED <<fsvars, resets>>  BY <2>1 DEF Done, Wait, Ask
  <2>3. FsOK' /\ ClientOK'  BY <1>1, <2>1, <2>2, ClientStep, Kept
  <2>4. RecOK(rec')
    <3>1. Done \/ Ask => UNCHANGED rec  BY DEF Done, Ask
    <3> QED BY <1>1, <2>1, <3>1, RecStep, Kept
  <2> QED BY <1>1, <2>1, <2>2, <2>3, <2>4, FenSame, InotifySame, TypeUnfoldsNext
<1>8. CASE TimePasses
  <2>1. /\ SleepOver \/ \E n \in Names : Age(n)
        /\ UNCHANGED <<inotifyvars, fenvars>>
    BY <1>8 DEF TimePasses
  <2>2. UNCHANGED <<fsvars, clientvars, resets>>  BY <2>1 DEF SleepOver, Age, clientvars
  <2>3. FsOK' /\ ClientOK' /\ RecOK(rec')  BY <1>1, <2>1, <2>2, Kept, RecStep
  <2> QED BY <1>1, <2>1, <2>2, <2>3, FenSame, InotifySame, TypeUnfoldsNext
<1>9. CASE Linux /\ ReadInotify /\ UNCHANGED fenvars
  <2>1. UNCHANGED <<fsvars, clientvars, resets>>  BY <1>9 DEF ReadInotify, clientvars
  <2>2. InotifyInv' /\ RecOK(rec')  BY <1>1, <1>9, InotifyReadDoes
  <2> QED BY <1>1, <1>9, <2>1, <2>2, Kept, FenSame, TypeUnfoldsNext
<1>10. CASE ~Linux /\ (StartFetch \/ FetchPort \/ ProcessEvents) /\ UNCHANGED inotifyvars
  <2>1. UNCHANGED <<fsvars, clientvars, resets>>
    BY <1>10 DEF StartFetch, FetchPort, ProcessEvents, clientvars
  <2>2. RecOK(rec')
    <3>1. StartFetch \/ FetchPort => UNCHANGED rec  BY DEF StartFetch, FetchPort
    <3> QED BY <1>1, <1>10, <3>1, ProcessEventsDoes
  <2>3. FenInv'
    <3>1. resets \in 0 .. MaxResets  BY <1>1 DEF ClientOK
    <3> QED BY <1>1, <1>10, <3>1, StartFetchTyped, FetchPortTyped, ProcessEventsDoes
  <2> QED BY <1>1, <1>10, <2>1, <2>2, <2>3, Kept, InotifySame, TypeUnfoldsNext
<1> QED
  BY <1>2, <1>3, <1>4, <1>5, <1>6, <1>7, <1>8, <1>9, <1>10 DEF Next, ReadEvents

-----------------------------------------------------------------------------
LEMMA TypeSame ==
  ASSUME TypeInv, UNCHANGED vars
  PROVE  TypeInv'
<1>1. FsOK /\ ClientOK /\ RecOK(rec) /\ InotifyInv /\ FenInv  BY TypeUnfolds
<1>2. UNCHANGED <<fsvars, rec, clientvars, inotifyvars, fenvars, resets>>
  BY DEF vars, watchvars, clientvars
<1> QED BY <1>1, <1>2, Kept, InotifySame, FenSame, TypeUnfoldsNext

LEMMA TypesFollow ==
  ASSUME TypeInv
  PROVE  TypeOK
<1>1. WatchTypeOK /\ InotifyTypeOK  BY DEF TypeInv, InotifyInv
<1>2. FenInv /\ ClientOK  BY TypeUnfolds
<1>3. Own(fen, fen.entries) /\ fen.id <= resets /\ resets \in Nat /\ resets <= MaxResets
  BY <1>2 DEF FenInv, ClientOK
<1>4. fen \in Fen /\ Counted(fen, fen.entries) /\ Stamped(fen, fen.entries) /\ MaxResets \in Nat
  BY <1>3, WatchAssumption DEF Own
<1>5. fen.id \in 0 .. MaxResets  BY <1>3, <1>4 DEF Fen
<1>6. fen.cookie \in [Addresses -> 0 .. MaxResets]
  <2>1. fen.cookie \in [Addresses -> Nat] /\ \A a \in Addresses : fen.cookie[a] <= fen.id
    BY <1>4 DEF Fen, Stamped
  <2>2. \A a \in Addresses : fen.cookie[a] \in 0 .. MaxResets  BY <1>3, <1>4, <1>5, <2>1
  <2> QED BY <2>1, <2>2
<1>7. DOMAIN fen.ports \subseteq Ports /\ \A q \in DOMAIN fen.ports : fen.ports[q] \in 1 .. MaxEv
  BY <1>4 DEF Fen, Counted
<1>8. /\ fen.heap \in [Addresses -> {"free", "clear", "exception"}]
      /\ fen.watched \in BOOLEAN /\ fen.follow \in BOOLEAN /\ fen.fault \in BOOLEAN
      /\ fen.entries \subseteq [port : Ports, obj : Addresses, name : Names \cup {Root}]
      /\ fen.assoc \subseteq [port : Ports, obj : Addresses, node : Nodes]
      /\ fen.queue \subseteq [port : Ports, obj : Addresses, kind : FenKinds]
  BY <1>4 DEF Fen, Entry
<1>9. toFetch \subseteq Ports /\ batch \subseteq Events /\ split \in BOOLEAN  BY <1>2 DEF FenInv
<1>10. FenTypeOK  BY <1>5, <1>6, <1>7, <1>8, <1>9 DEF FenTypeOK
<1> QED BY <1>1, <1>10 DEF TypeOK

LEMMA OwnersFollow ==
  ASSUME TypeInv
  PROVE  ObjectsOwned
<1> DEFINE owned == {<<e.port, e.obj>> : e \in fen.entries}
<1>1. Own(fen, fen.entries)  BY DEF TypeInv, FenInv
<1>2. /\ fen \in Fen /\ Faultless(fen) /\ fen.entries \subseteq Entry
      /\ \A a \in Addresses : fen.heap[a] = "free" <=> \A e \in fen.entries : e.obj # a
      /\ Told(fen, fen.entries)
  BY <1>1 DEF Own
<1>3. ~fen.fault  BY <1>2 DEF Faultless
<1>4. {x[2] : x \in owned} = Addresses \ Free(fen)
  <2>1. \A a : a \in {x[2] : x \in owned} <=> \E e \in fen.entries : e.obj = a
    <3>1. \A e \in fen.entries : <<e.port, e.obj>> \in owned /\ <<e.port, e.obj>>[2] = e.obj
      OBVIOUS
    <3>2. \A x \in owned : \E e \in fen.entries : x[2] = e.obj  OBVIOUS
    <3> HIDE DEF owned
    <3> QED BY <3>1, <3>2
  <2>2. \A e \in fen.entries : e.obj \in Addresses  BY <1>2 DEF Entry
  <2>3. \A a : a \in Addresses \ Free(fen) <=> \E e \in fen.entries : e.obj = a
    BY <1>2, <2>2 DEF Free
  <2> HIDE DEF owned
  <2>4. \A a : a \in {x[2] : x \in owned} <=> a \in Addresses \ Free(fen)  BY ONLY <2>1, <2>3
  <2> QED BY ONLY <2>4
<1>5. \A x \in fen.assoc \cup fen.queue : <<x.port, x.obj>> \in owned
  <2> TAKE x \in fen.assoc \cup fen.queue
  <2>1. PICK e \in fen.entries : Of(x, e)  BY <1>2 DEF Told
  <2>2. x.port = e.port /\ x.obj = e.obj  BY <2>1 DEF Of
  <2>3. <<e.port, e.obj>> \in owned  OBVIOUS
  <2> QED BY <2>2, <2>3
<1> QED BY <1>3, <1>4, <1>5 DEF ObjectsOwned

LEMMA CountsFollow ==
  ASSUME TypeInv
  PROVE  PortsCounted
<1>1. Counted(fen, fen.entries)  BY DEF TypeInv, FenInv, Own
<1>2. \A q : On(fen.entries, q) = {e \in fen.entries : e.port = q}  BY DEF On
<1> QED BY <1>1, <1>2 DEF Counted, PortsCounted

LEMMA TypeHolds ==
  ASSUME ~Follow
  PROVE  Spec => []TypeInv
<1>1. TypeInv /\ [Next]_vars => TypeInv'  BY TypeStep, TypeSame
<1> QED BY <1>1, TypeInit, PTL DEF Spec

(* Every variable keeps its type; the queue of inotify is never longer than*)
(* its limit and the event of the overflow, and no port has more objects   *)
(* than max_ev_per_port (the two watcher.ml).                              *)
THEOREM TypeCorrect ==
  ASSUME ~Follow
  PROVE  Spec => []TypeOK
BY TypeHolds, TypesFollow, PTL

(* No event object is used or freed after it was freed, none stays on the  *)
(* heap when its watch is gone, and the system associates only objects of  *)
(* the watch: whatever the order of scans, resets, fetches and the         *)
(* processing of what was fetched (free_object, release_watch and          *)
(* lookup_file of solaris/watcher.ml).                                     *)
THEOREM Owned ==
  ASSUME ~Follow
  PROVE  Spec => []ObjectsOwned
BY TypeHolds, OwnersFollow, PTL

(* The count of each event port is that of its objects, so release_port    *)
(* closes a port when its last object goes and not before, and find_port   *)
(* finds the room there is (solaris/watcher.ml).                           *)
THEOREM PortCounts ==
  ASSUME ~Follow
  PROVE  Spec => []PortsCounted
BY TypeHolds, CountsFollow, PTL

-----------------------------------------------------------------------------
(* ChangeInv.  What the client and time do is the same for both systems.   *)

LEMMA RecordsKept ==
  ASSUME RecOK(rec), Wait \/ SleepOver \/ \E n \in Names : StartFile(n) \/ Age(n)
  PROVE  rec'.children = rec.children /\ (Changed(rec) => Changed(rec'))
<1>1. rec \in RecSet  BY DEF RecOK
<1>2. \A r \in RecSet : WaitForChanges(r).children = r.children /\ WaitForChanges(r).changed = r.changed
  BY DEF WaitForChanges, RecSet
<1>3. CASE Wait  BY <1>1, <1>2, <1>3 DEF Wait, Changed
<1>4. CASE SleepOver
  <2> DEFINE z == [rec EXCEPT !.active = FALSE]
  <2>1. z \in RecSet /\ z.children = rec.children /\ z.changed = rec.changed  BY <1>1 DEF RecSet
  <2>2. rec' = IF rec.waiting THEN WaitForChanges(z) ELSE z  BY <1>4 DEF SleepOver
  <2> HIDE DEF z
  <2> QED BY <1>2, <2>1, <2>2 DEF Changed
<1>5. CASE \E n \in Names : StartFile(n)
  BY <1>1, <1>5 DEF StartFile, Cancelled, RecSet, Changed
<1>6. CASE \E n \in Names : Age(n)  BY <1>1, <1>6 DEF Age, RecSet, Changed
<1> QED BY <1>3, <1>4, <1>5, <1>6

LEMMA RecordsCleared ==
  ASSUME RecOK(rec), WatchDirectory \/ Reset
  PROVE  \A n \in Names : rec'.children[n] = "none"
<1>1. rec' = Cancelled(ClearFileChanges(rec))  BY DEF WatchDirectory, Reset
<1> QED BY <1>1 DEF RecOK, RecSet, Cancelled, ClearFileChanges, NoRecord

LEMMA RecordsGot ==
  ASSUME RecOK(rec), GetChanges
  PROVE  \A n \in Names : rec'.children[n] = IF n \in rec.old THEN "none" ELSE rec.children[n]
<1> DEFINE kept == [n \in Names |-> IF n \in rec.old THEN "none" ELSE rec.children[n]]
<1>1. rec \in RecSet  BY DEF RecOK
<1>2. rec'.children = kept  BY <1>1 DEF GetChanges, Cancelled, RecSet
<1> QED BY <1>2

LEMMA ClientInvStep ==
  ASSUME ~Follow, ClientOK, RecOK(rec), ClientInv,
         \/ WatchDirectory \/ Reset \/ GetChanges \/ Done \/ Wait \/ Ask
         \/ \E n \in Names : StartFile(n) \/ Look(n)
  PROVE  ClientInv'
<1>1. CASE WatchDirectory  BY <1>1 DEF WatchDirectory, ClientOK, ClientInv
<1>2. CASE Reset  BY <1>2 DEF Reset, ClientOK, ClientInv
<1>3. CASE GetChanges
  <2>1. Ready(rec) <=> Changed(rec) \/ rec.old # {}  BY DEF Ready, Changed, RecOK, RecSet
  <2>2. /\ client = "ask" /\ UNCHANGED <<start, looking>>
        /\ todo' = rec.old \cup (IF rec.changed THEN {Root} ELSE {})
        /\ client' = IF Ready(rec) THEN "scan" ELSE "idle"
    BY <1>3 DEF GetChanges
  <2>3. rec.changed <=> Changed(rec)  BY DEF Changed, RecOK, RecSet
  <2>4. ~Ready(rec) => todo' = {}  BY <2>1, <2>2, <2>3
  <2> QED BY <2>2, <2>4 DEF ClientInv
<1>4. CASE Done \/ Wait \/ Ask  BY <1>4, WatchAssumption DEF Done, Wait, Ask, ClientOK, ClientInv
<1>5. ASSUME NEW n \in Names, StartFile(n) PROVE ClientInv'
  <2>1. n # Root  BY WatchAssumption
  <2> QED BY <1>5, <2>1 DEF StartFile, ClientInv
<1>6. ASSUME NEW n \in Names, Look(n) PROVE ClientInv'
  BY <1>6 DEF Look, ClientInv
<1> QED BY <1>1, <1>2, <1>3, <1>4, <1>5, <1>6

(* The client is going to watch the directory.                             *)
Watching == client \in {"scan", "dir"} /\ (start = Root \/ Root \in todo)

(* What the client has to see it still has, or it sees it now.             *)
LEMMA ClientKeeps ==
  ASSUME FsOK, ClientOK, RecOK(rec), ClientInv,
         \/ GetChanges \/ SleepOver \/ Done \/ Wait \/ Ask
         \/ \E n \in Names : StartFile(n) \/ Look(n) \/ Age(n)
  PROVE  /\ UNCHANGED <<fs, backend>>
         /\ \A n \in Names : Sees(n) => Sees(n)' \/ seen'[n] = Actual(n)'
         /\ \A n \in Names : seen[n] = Actual(n) => seen'[n] = Actual(n)'
         /\ \A n \in Names : seen'[n] = seen[n] \/ seen'[n] = Actual(n)'
         /\ Watching \/ Changed(rec) => Watching' \/ Changed(rec')
         /\ (\A n \in Names : rec.children[n] # "created") =>
               \A n \in Names : rec'.children[n] # "created"
<1>1. CASE GetChanges
  <2>1. /\ client = "ask" /\ UNCHANGED <<fs, backend, seen, start, looking>>
        /\ todo' = rec.old \cup (IF rec.changed THEN {Root} ELSE {})
        /\ client' = IF Ready(rec) THEN "scan" ELSE "idle"
    BY <1>1 DEF GetChanges, fsvars
  <2>2. \A n \in Names : rec'.children[n] = IF n \in rec.old THEN "none" ELSE rec.children[n]
    BY <1>1, RecordsGot
  <2>3. (rec.changed <=> Changed(rec)) /\ (Changed(rec) => Ready(rec))
    BY DEF Changed, RecOK, RecSet, Ready
  <2>4. Changed(rec) => client' = "scan" /\ Root \in todo'  BY <2>1, <2>3
  <2>5. \A n \in Names : n \in rec.old => n \in todo'  BY <2>1
  <2>6. todo = {} /\ looking = {}  BY <2>1 DEF ClientInv
  <2>7. \A n \in Names : Sees(n) => Sees(n)'  BY <2>1, <2>2, <2>4, <2>5, <2>6 DEF Sees
  <2>8. Watching \/ Changed(rec) => Watching'  BY <2>1, <2>4 DEF Watching
  <2> QED BY <2>1, <2>2, <2>7, <2>8 DEF Actual
<1>2. CASE SleepOver \/ \E n \in Names : Age(n)
  <2>1. UNCHANGED <<fs, backend, seen, clientvars>>  BY <1>2 DEF SleepOver, Age, fsvars
  <2>2. rec'.children = rec.children /\ (Changed(rec) => Changed(rec'))  BY <1>2, RecordsKept
  <2> QED BY <2>1, <2>2 DEF Sees, Watching, Actual, clientvars
<1>3. CASE Wait
  <2>1. client = "idle" /\ UNCHANGED <<fs, backend, seen, start, todo, looking>>
    BY <1>3 DEF Wait, fsvars
  <2>2. rec'.children = rec.children /\ (Changed(rec) => Changed(rec'))  BY <1>3, RecordsKept
  <2> QED BY <2>1, <2>2 DEF Sees, Watching, Actual
<1>4. CASE Ask
  <2>1. client \in {"idle", "wait"} /\ UNCHANGED <<fs, backend, seen, rec, start, todo, looking>>
    BY <1>4 DEF Ask, fsvars
  <2> QED BY <2>1 DEF Sees, Watching, Actual
<1>5. CASE Done
  <2>1. client = "look" /\ UNCHANGED <<fs, backend, seen, rec, todo, looking>>
    BY <1>5 DEF Done, ClientOK, fsvars
  <2> QED BY <2>1 DEF Sees, Watching, Actual
<1>6. ASSUME NEW n \in Names, StartFile(n)
      PROVE  /\ UNCHANGED <<fs, backend, seen>>
             /\ \A m \in Names : Sees(m) => Sees(m)'
             /\ Watching \/ Changed(rec) => Changed(rec')
             /\ rec'.children = rec.children
  <2>1. /\ client = "scan" /\ Root \notin todo /\ UNCHANGED <<fs, backend, seen>>
        /\ todo' = todo \ {n} /\ looking' = {n} /\ client' = "look" /\ start' = n
    BY <1>6 DEF StartFile, fsvars
  <2>2. rec'.children = rec.children /\ (Changed(rec) => Changed(rec'))  BY <1>6, RecordsKept
  <2>3. start # Root /\ looking = {}  BY <2>1 DEF ClientInv
  <2> QED BY <2>1, <2>2, <2>3 DEF Sees, Watching
<1>7. ASSUME NEW n \in Names, Look(n)
      PROVE  /\ UNCHANGED <<fs, backend, rec>>
             /\ \A m \in Names : Sees(m) => Sees(m)' \/ seen'[m] = Actual(m)'
             /\ \A m \in Names : seen[m] = Actual(m) => seen'[m] = Actual(m)'
             /\ \A m \in Names : seen'[m] = seen[m] \/ seen'[m] = Actual(m)'
             /\ Watching \/ Changed(rec) => Watching' \/ Changed(rec')
  <2>1. /\ client = "look" /\ UNCHANGED <<fs, backend, rec, client, start, todo>>
        /\ seen' = [seen EXCEPT ![n] = Actual(n)] /\ looking' = looking \ {n}
    BY <1>7 DEF Look
  <2>2. \A m \in Names : Actual(m)' = Actual(m)  BY <2>1 DEF Actual
  <2>3. \A m \in Names : m # n => seen'[m] = seen[m]  BY <2>1
  <2>4. seen'[n] = Actual(n)'  BY <2>1, <2>2 DEF FsOK
  <2>5. \A m \in Names : Sees(m) => Sees(m)' \/ m = n  BY <2>1 DEF Sees
  <2>6. Watching => Watching'  BY <2>1 DEF Watching
  <2> QED BY <2>1, <2>2, <2>3, <2>4, <2>5, <2>6
<1>8. CASE \E n \in Names : StartFile(n)
  <2>1. PICK n \in Names : StartFile(n)  BY <1>8
  <2> QED BY <1>6, <2>1 DEF Actual
<1>9. CASE \E n \in Names : Look(n)
  <2>1. PICK n \in Names : Look(n)  BY <1>9
  <2> QED BY <1>7, <2>1
<1> QED BY <1>1, <1>2, <1>3, <1>4, <1>5, <1>8, <1>9

(* After START for the directory and RESET the client has all to see.      *)
LEMMA ClientBegins ==
  ASSUME ~Follow, ClientOK, ClientInv, WatchDirectory \/ Reset
  PROVE  /\ \A n \in Names : Sees(n)'
         /\ Reset => Watching'
<1>1. CASE WatchDirectory
  <2>1. client # "link"  BY DEF ClientOK
  <2>2. (start' = Root /\ client' = "dir") \/ looking' = Names
    BY <1>1, <2>1 DEF WatchDirectory, ClientInv
  <2>3. client \in {"scan", "dir"}  BY <1>1, <2>1 DEF WatchDirectory
  <2> QED BY <2>2, <2>3 DEF Sees, Reset
<1>2. CASE Reset  BY <1>2 DEF Reset, Sees, Watching
<1> QED BY <1>1, <1>2

-----------------------------------------------------------------------------
(* Linux.  r is the queue with the event e, unless it overflows.           *)
Overflowing(r) == \E i \in DOMAIN r : r[i] = Overflow

Grown(r, e) ==
  /\ Overflows => Overflowing(r)
  /\ Len(r) > MaxQueue => Overflowing(r)
  /\ \A i \in DOMAIN queue : i \in DOMAIN r /\ r[i] = queue[i]
  /\ \A i \in DOMAIN r : i \in DOMAIN queue \/ r[i] \in {e, Overflow}
  /\ \A i \in DOMAIN r : i \in DOMAIN queue \/ i = Len(r)
  /\ DOMAIN r = 1 .. Len(r) /\ Len(r) \in Nat
  /\ ~Overflowing(r) => Len(r) \in DOMAIN r /\ r[Len(r)] = e

LEMMA QueueGrows ==
  ASSUME InotifyInv, QueueInv, NEW e \in Event, NEW r, r = Enqueue(queue, e)
  PROVE  Grown(r, e)
<1>1. /\ queue \in Seq(Event) /\ Len(queue) <= MaxQueue + 1 /\ Len(queue) \in Nat
      /\ DOMAIN queue = 1 .. Len(queue) /\ MaxQueue \in Nat
  BY QueueAssumption DEF InotifyInv, InotifyTypeOK
<1>2. Len(queue) > MaxQueue => Overflows  BY DEF QueueInv
<1>3. \/ r = queue /\ queue # <<>> /\ queue[Len(queue)] = e
      \/ r = queue /\ Len(queue) = MaxQueue + 1
      \/ r = Append(queue, e) /\ Len(queue) < MaxQueue
      \/ r = Append(queue, Overflow) /\ Len(queue) = MaxQueue
  BY <1>1, EnqueueDoes
<1>4. CASE r = queue /\ queue # <<>> /\ queue[Len(queue)] = e
  <2>1. Len(queue) \in DOMAIN queue  BY <1>1, <1>4
  <2> QED BY <1>1, <1>2, <1>4, <2>1 DEF Grown, Overflows, Overflowing
<1>5. CASE r = queue /\ Len(queue) = MaxQueue + 1
  <2>1. Overflows  BY <1>1, <1>2, <1>5
  <2> QED BY <1>1, <1>5, <2>1 DEF Grown, Overflows, Overflowing
<1>6. ASSUME NEW x \in Event, r = Append(queue, x)
      PROVE  /\ DOMAIN r = 1 .. Len(queue) + 1 /\ Len(r) = Len(queue) + 1 /\ r[Len(queue) + 1] = x
             /\ \A i \in DOMAIN queue : i \in DOMAIN r /\ r[i] = queue[i]
             /\ \A i \in DOMAIN r : i \in DOMAIN queue \/ i = Len(r)
  <2>1. /\ Len(r) = Len(queue) + 1 /\ DOMAIN r = 1 .. Len(queue) + 1
        /\ r[Len(queue) + 1] = x
        /\ \A i \in 1 .. Len(queue) : r[i] = queue[i]
    BY <1>1, <1>6, AppendProperties
  <2> QED BY <1>1, <2>1
<1>7. CASE r = Append(queue, e) /\ Len(queue) < MaxQueue
  <2>1. /\ DOMAIN r = 1 .. Len(queue) + 1 /\ Len(r) = Len(queue) + 1 /\ r[Len(queue) + 1] = e
        /\ \A i \in DOMAIN queue : i \in DOMAIN r /\ r[i] = queue[i]
        /\ \A i \in DOMAIN r : i \in DOMAIN queue \/ i = Len(r)
    BY <1>6, <1>7
  <2>2. ~(Len(r) > MaxQueue)  BY <1>1, <1>7, <2>1
  <2> QED BY <1>1, <2>1, <2>2 DEF Grown, Overflows, Overflowing
<1>8. CASE r = Append(queue, Overflow) /\ Len(queue) = MaxQueue
  <2>1. Overflow \in Event
    <3>1. 0 \in 0 .. 2 * (MaxResets + 1)  BY WatchAssumption
    <3> QED BY <3>1 DEF Overflow, Event, Kinds
  <2>2. /\ DOMAIN r = 1 .. Len(queue) + 1 /\ Len(r) = Len(queue) + 1 /\ r[Len(queue) + 1] = Overflow
        /\ \A i \in DOMAIN queue : i \in DOMAIN r /\ r[i] = queue[i]
        /\ \A i \in DOMAIN r : i \in DOMAIN queue \/ i = Len(r)
    BY <1>6, <1>8, <2>1
  <2>3. Overflowing(r)  BY <1>1, <2>2 DEF Overflowing
  <2> QED BY <1>1, <2>2, <2>3 DEF Grown
<1> QED BY <1>3, <1>4, <1>5, <1>7, <1>8

(* QueueInv without what the last events say                               *)
QueueParts ==
  /\ Len(queue) > MaxQueue => Overflows
  /\ \A i \in DOMAIN queue : queue[i].wd < nextWd /\ (queue[i].wd = 0 => queue[i].name = Root)

LEMMA PartsGrow ==
  ASSUME InotifyInv, QueueInv, NEW e \in Event, e.wd < nextWd, e.wd = 0 => e.name = Root,
         Grown(queue', e), nextWd' = nextWd
  PROVE  QueueParts' /\ (Overflows => Overflows')
<1>1. \A i \in DOMAIN queue : queue[i].wd < nextWd /\ (queue[i].wd = 0 => queue[i].name = Root)
  BY DEF QueueInv
<1>2. Overflow.wd = 0 /\ Overflow.name = Root /\ 0 < nextWd  BY DEF Overflow, InotifyInv
<1>3. Overflowing(queue') <=> Overflows'  BY DEF Overflowing, Overflows
<1> QED BY <1>1, <1>2, <1>3 DEF Grown, QueueParts

(* A change of a file                                                      *)
LEMMA LinuxChange ==
  ASSUME FsOK, ClientOK, InotifyInv, LinuxInv,
         NEW n \in Names, NEW op \in {"create", "delete", "modify"},
         Change(n, op), InotifyChange(n, op)
  PROVE  LinuxInv'
<1>1. /\ (op = "create") <=> n \notin fs
      /\ fs' = CASE op = "create" -> fs \cup {n} [] op = "delete" -> fs \ {n} [] OTHER -> fs
      /\ seen' = IF op # "delete" /\ seen[n] = "present" THEN [seen EXCEPT ![n] = "stale"] ELSE seen
      /\ UNCHANGED <<rec, client, start, todo, looking>>
  BY DEF Change, clientvars
<1>2. UNCHANGED <<wd, nextWd, missed>>  BY DEF InotifyChange
<1>3. /\ \A m \in Names : m # n => (m \in fs' <=> m \in fs) /\ seen'[m] = seen[m] /\ Actual(m)' = Actual(m)
      /\ op = "delete" <=> n \notin fs'
      /\ op = "delete" => seen'[n] = seen[n] /\ Actual(n)' = "absent"
  BY <1>1 DEF Actual, FsOK
<1>4. /\ wd = 0 => client = "scan" /\ Root \in todo
      /\ QueueInv
      /\ \A m \in Names \ missed : seen[m] = Actual(m) \/ Sees(m) \/ Fresh(m)
  BY DEF LinuxInv
<1>5. \A m \in Names : Sees(m) => Sees(m)'  BY <1>1 DEF Sees
<1>6. CASE wd = 0
  <2>1. queue' = queue  BY <1>6 DEF InotifyChange
  <2>2. \A m \in Names : Sees(m)  BY <1>4, <1>6 DEF Sees
  <2>3. QueueInv'
    <3>1. \A m \in Names, i \in DOMAIN queue : ~AboutFile(i, m)'
      BY <1>2, <1>4, <1>6, <2>1, WatchAssumption DEF QueueInv, AboutFile
    <3> QED BY <1>2, <1>4, <2>1, <3>1 DEF QueueInv, Overflows
  <2> QED BY <1>1, <1>2, <1>4, <1>5, <1>6, <2>2, <2>3 DEF LinuxInv
<1>7. CASE wd # 0
  <2> DEFINE e == [wd |-> wd, name |-> n, kind |-> op]
  <2>1. queue' = Enqueue(queue, e)  BY <1>7 DEF InotifyChange, InotifyInv
  <2>2. e \in Event /\ e.wd = wd /\ e.name = n /\ e.kind = op /\ e.wd < nextWd
    BY Descriptors DEF Event, Kinds
  <2> HIDE DEF e
  <2>3. Grown(queue', e)  BY <1>4, <2>1, <2>2, QueueGrows
  <2>4. QueueParts' /\ (Overflows => Overflows')  BY <1>2, <1>4, <1>7, <2>2, <2>3, PartsGrow
  <2>5. /\ \A i \in DOMAIN queue : i \in DOMAIN queue' /\ queue'[i] = queue[i]
        /\ \A i \in DOMAIN queue' : i \in DOMAIN queue \/ queue'[i] \in {e, Overflow}
        /\ \A i \in DOMAIN queue' : i \in DOMAIN queue \/ i = Len(queue')
        /\ DOMAIN queue' = 1 .. Len(queue') /\ Len(queue') \in Nat
        /\ ~Overflows' => Len(queue') \in DOMAIN queue' /\ queue'[Len(queue')] = e
    BY <2>3 DEF Grown, Overflows, Overflowing
  <2>6. \A m, i : i \in DOMAIN queue => (AboutFile(i, m)' <=> AboutFile(i, m))
    BY <1>2, <2>5 DEF AboutFile
  <2> PICK last : last = Len(queue')  OBVIOUS
  <2>7. ~Overflows' => AboutFile(last, n)' /\ last \in DOMAIN queue' /\ queue'[last] = e
    BY <1>2, <2>2, <2>5 DEF AboutFile
  <2>8. ASSUME ~Overflows', NEW m \in Names, NEW i \in DOMAIN queue', AboutFile(i, m)',
               \A j \in DOMAIN queue' : j > i => ~AboutFile(j, m)'
        PROVE  queue'[i].kind = "delete" <=> m \notin fs'
    <3>1. CASE m = n
      <4>1. i = last  BY <2>5, <2>7, <2>8, <3>1
      <4> QED BY <1>3, <2>2, <2>7, <2>8, <3>1, <4>1
    <3>2. CASE m # n
      <4>1. i \in DOMAIN queue
        <5>1. queue'[i] # e  BY <2>2, <2>8, <3>2 DEF AboutFile
        <5>2. queue'[i] # Overflow  BY <2>8 DEF Overflows
        <5> QED BY <2>5, <5>1, <5>2
      <4>2. AboutFile(i, m) /\ \A j \in DOMAIN queue : j > i => ~AboutFile(j, m)
        BY <2>5, <2>6, <2>8, <4>1
      <4>3. ~Overflows  BY <2>4, <2>8
      <4>4. queue[i].kind = "delete" <=> m \notin fs  BY <1>4, <4>1, <4>2, <4>3 DEF QueueInv
      <4> QED BY <1>3, <2>5, <3>2, <4>1, <4>4
    <3> QED BY <3>1, <3>2
  <2>9. QueueInv'  BY <2>4, <2>8 DEF QueueInv, QueueParts
  <2>10. ASSUME NEW m \in Names \ missed
         PROVE  seen'[m] = Actual(m)' \/ Sees(m)' \/ Fresh(m)'
    <3>1. CASE m = n
      <4>1. CASE Overflows'  BY <4>1 DEF Fresh
      <4>2. CASE ~Overflows'
        <5>1. queue'[last].kind = op /\ last \in DOMAIN queue'  BY <2>2, <2>7, <4>2
        <5>2. CASE op = "delete" /\ seen[n] = "absent"  BY <1>3, <3>1, <5>2
        <5>3. CASE ~(op = "delete" /\ seen[n] = "absent")
          BY <1>3, <2>7, <3>1, <4>2, <5>1, <5>3 DEF Fresh
        <5> QED BY <5>2, <5>3
      <4> QED BY <4>1, <4>2
    <3>2. CASE m # n
      <4>1. seen[m] = Actual(m) \/ Sees(m) \/ Fresh(m)  BY <1>4
      <4>2. CASE seen[m] = Actual(m) \/ Sees(m)  BY <1>3, <1>5, <3>2, <4>2
      <4>3. CASE Overflows  BY <2>4, <4>3 DEF Fresh
      <4>4. ASSUME NEW i \in DOMAIN queue, AboutFile(i, m),
                   queue[i].kind = "delete" => seen[m] # "absent"
            PROVE  Fresh(m)'
        BY <1>3, <2>5, <2>6, <3>2, <4>4 DEF Fresh
      <4> QED BY <4>1, <4>2, <4>3, <4>4 DEF Fresh
    <3> QED BY <3>1, <3>2
  <2> QED BY <1>1, <1>2, <1>7, <2>9, <2>10 DEF LinuxInv
<1> QED BY <1>6, <1>7

-----------------------------------------------------------------------------
(* What has been seen, or is going to be, is so after a step of the client *)
(* or of time, and the queue is as it was.                                 *)
LEMMA LinuxClient ==
  ASSUME FsOK, ClientOK, RecOK(rec), ClientInv, LinuxInv,
         \/ GetChanges \/ SleepOver \/ Done \/ Wait \/ Ask
         \/ \E n \in Names : StartFile(n) \/ Look(n) \/ Age(n),
         UNCHANGED <<wd, nextWd, queue, missed>>
  PROVE  LinuxInv'
<1>1. /\ wd = 0 => client = "scan" /\ Root \in todo
      /\ QueueInv
      /\ \A m \in Names \ missed : seen[m] = Actual(m) \/ Sees(m) \/ Fresh(m)
  BY DEF LinuxInv
<1>2. /\ UNCHANGED <<fs, backend>>
      /\ \A n \in Names : Sees(n) => Sees(n)' \/ seen'[n] = Actual(n)'
      /\ \A n \in Names : seen[n] = Actual(n) => seen'[n] = Actual(n)'
      /\ \A n \in Names : seen'[n] = seen[n] \/ seen'[n] = Actual(n)'
  BY ClientKeeps
<1>3. wd = 0 => client' = "scan" /\ Root \in todo'
  <2>1. CASE GetChanges \/ Done \/ Wait \/ Ask
    BY <1>1, <2>1 DEF GetChanges, Done, Wait, Ask
  <2>2. CASE SleepOver \/ \E n \in Names : Age(n)  BY <1>1, <2>2 DEF SleepOver, Age, clientvars
  <2>3. CASE \E n \in Names : StartFile(n) \/ Look(n)  BY <1>1, <2>3 DEF StartFile, Look
  <2> QED BY <2>1, <2>2, <2>3
<1>4. QueueInv'  BY <1>1, <1>2 DEF QueueInv, Overflows, AboutFile
<1>5. \A n \in Names : Fresh(n) => Fresh(n)' \/ seen'[n] = Actual(n)'
  BY <1>2 DEF Fresh, Overflows, AboutFile
<1> QED BY <1>1, <1>2, <1>3, <1>4, <1>5 DEF LinuxInv

LEMMA LinuxWatches ==
  ASSUME ~Follow, ClientOK, InotifyInv, ClientInv, LinuxInv,
         WatchDirectory, InotifyAddWatch(FALSE)
  PROVE  LinuxInv'
<1>1. /\ Len(queue) > MaxQueue => Overflows
      /\ \A i \in DOMAIN queue : queue[i].wd < nextWd /\ (queue[i].wd = 0 => queue[i].name = Root)
      /\ ~Overflows => \A n \in Names, i \in DOMAIN queue :
           AboutFile(i, n) /\ (\A j \in DOMAIN queue : j > i => ~AboutFile(j, n)) =>
             (queue[i].kind = "delete" <=> n \notin fs)
  BY DEF LinuxInv, QueueInv
<1>2. UNCHANGED <<fs, resets>>  BY DEF WatchDirectory, fsvars
<1>3. /\ wd' # 0 /\ queue' = queue /\ missed' = missed
      /\ IF wd = 0 THEN wd' = nextWd /\ nextWd' = nextWd + 1 ELSE wd' = wd /\ nextWd' = nextWd
  BY <1>2, InotifyAddDoes
<1>4. \A n \in Names : Sees(n)'  BY ClientBegins
<1>5. QueueInv'
  <2>1. CASE wd # 0  BY <1>1, <1>2, <1>3, <2>1 DEF QueueInv, Overflows, AboutFile
  <2>2. CASE wd = 0
    <3>1. nextWd \in Nat /\ nextWd' = nextWd + 1 /\ wd' = nextWd  BY <1>3, <2>2 DEF InotifyInv
    <3>2. \A i \in DOMAIN queue : queue[i].wd \in Nat
      <4>1. \A e \in Event : e.wd \in Nat  BY WatchAssumption DEF Event
      <4>2. queue \in Seq(Event)  BY DEF InotifyInv, InotifyTypeOK
      <4>3. \A i \in DOMAIN queue : queue[i] \in Event  BY <4>2
      <4> QED BY <4>1, <4>3
    <3>3. \A i \in DOMAIN queue : queue[i].wd < nextWd' /\ queue[i].wd # wd'
      BY <1>1, <3>1, <3>2
    <3>4. \A n \in Names, i \in DOMAIN queue : ~AboutFile(i, n)'  BY <1>3, <3>3 DEF AboutFile
    <3> QED BY <1>1, <1>3, <3>3, <3>4 DEF QueueInv, Overflows
  <2> QED BY <2>1, <2>2
<1> QED BY <1>3, <1>4, <1>5 DEF LinuxInv

LEMMA LinuxResets ==
  ASSUME ~Follow, ClientOK, InotifyInv, ClientInv, LinuxInv, Reset, InotifyReset
  PROVE  LinuxInv'
<1>1. QueueInv  BY DEF LinuxInv
<1>2. wd' = 0 /\ nextWd' = nextWd /\ queue' = ReleaseInotify.queue /\ client' = "scan" /\ todo' = {Root}
  BY DEF InotifyReset, Reset
<1>3. \A n \in Names : Sees(n)'  BY ClientBegins
<1>4. QueueParts'
  <2>1. CASE wd = 0
    <3>1. queue' = queue  BY <1>2, <2>1, ReleaseTyped
    <3> QED BY <1>1, <1>2, <3>1 DEF QueueInv, QueueParts, Overflows
  <2>2. CASE wd # 0
    <3> DEFINE e == [wd |-> wd, name |-> Root, kind |-> "ignored"]
    <3>1. queue' = Enqueue(queue, e)  BY <1>2, <2>2, ReleaseTyped
    <3>2. e \in Event /\ e.wd = wd /\ e.name = Root /\ e.wd < nextWd
      BY Descriptors DEF Event, Kinds
    <3> HIDE DEF e
    <3>3. Grown(queue', e)  BY <1>1, <3>1, <3>2, QueueGrows
    <3> QED BY <1>1, <1>2, <3>2, <3>3, PartsGrow
  <2> QED BY <2>1, <2>2
<1>5. \A n \in Names, i \in DOMAIN queue' : ~AboutFile(i, n)'
  <2>1. \A i \in DOMAIN queue' : queue'[i].wd = 0 => queue'[i].name = Root  BY <1>4 DEF QueueParts
  <2> QED BY <1>2, <2>1, WatchAssumption DEF AboutFile
<1>6. QueueInv'  BY <1>4, <1>5 DEF QueueInv, QueueParts
<1> QED BY <1>2, <1>3, <1>6 DEF LinuxInv

(* All the events are read.                                                *)
LEMMA LinuxReads ==
  ASSUME FsOK, InotifyInv, RecOK(rec), LinuxInv, ReadInotify
  PROVE  LinuxInv'
<1>1. /\ wd = 0 => client = "scan" /\ Root \in todo
      /\ QueueInv
      /\ \A m \in Names \ missed : seen[m] = Actual(m) \/ Sees(m) \/ Fresh(m)
  BY DEF LinuxInv
<1>2. PICK s : s = [previous |-> previous', rec |-> rec', missed |-> missed']  OBVIOUS
<1>3. ReadSome(s, DOMAIN queue) /\ s.rec = rec' /\ s.missed = missed'
  BY <1>2, InotifyReadDoes
<1>4. /\ missed \subseteq missed'
      /\ Changed(rec) => Changed(rec')
      /\ 1 \in DOMAIN queue /\ Overflows => Changed(rec')
      /\ \A n \in Names : (\A i \in DOMAIN queue : ~AboutFile(i, n)) => rec'.children[n] = rec.children[n]
      /\ \A n \in Names, i \in DOMAIN queue :
           AboutFile(i, n) /\ (\A j \in DOMAIN queue : j > i => ~AboutFile(j, n)) =>
             rec'.children[n] # "none" \/ n \in missed' \/ (queue[i].kind = "delete" /\ seen[n] = "absent")
  BY <1>3 DEF ReadSome, Recalls, Overflows
<1>5. UNCHANGED <<fs, seen, client, start, todo, looking, wd, nextWd>> /\ queue' = <<>>
  BY DEF ReadInotify, fsvars, clientvars
<1>6. DOMAIN queue = 1 .. Len(queue) /\ Len(queue) \in Nat  BY DEF InotifyInv, InotifyTypeOK
<1>7. Overflows => Changed(rec')
  <2>1. Overflows => 1 \in DOMAIN queue  BY <1>6 DEF Overflows
  <2> QED BY <1>4, <2>1
<1>8. QueueInv'
  <2>1. DOMAIN queue' = {} /\ ~(Len(queue') > MaxQueue)  BY <1>5, QueueAssumption
  <2> QED BY <2>1 DEF QueueInv
<1>9. ASSUME NEW n \in Names \ missed', NEW i \in DOMAIN queue, AboutFile(i, n), ~Overflows
      PROVE  rec'.children[n] # "none" \/ seen'[n] = Actual(n)'
  <2> DEFINE I == {j \in DOMAIN queue : AboutFile(j, n)}
  <2>1. PICK l \in I : \A j \in I : j <= l
    <3>1. I \subseteq Int /\ I # {} /\ I \subseteq 1 .. Len(queue)  BY <1>6, <1>9
    <3>2. IsFiniteSet(I)
      <4>1. IsFiniteSet(1 .. Len(queue))  BY <1>6, FS_Interval
      <4> HIDE DEF I
      <4> QED BY <3>1, <4>1, FS_Subset
    <3> HIDE DEF I
    <3> QED BY <3>1, <3>2, MaxInSet
  <2>2. l \in DOMAIN queue /\ AboutFile(l, n) /\ \A j \in DOMAIN queue : j > l => ~AboutFile(j, n)
    <3>1. \A j \in DOMAIN queue : j > l => ~(j <= l)  BY <1>6, <2>1
    <3> QED BY <2>1, <3>1
  <2>3. rec'.children[n] # "none" \/ n \in missed' \/ (queue[l].kind = "delete" /\ seen[n] = "absent")
    BY <1>4, <2>2
  <2>4. queue[l].kind = "delete" => n \notin fs  BY <1>1, <1>9, <2>2 DEF QueueInv
  <2> QED BY <1>5, <2>3, <2>4 DEF Actual
<1>10. ASSUME NEW n \in Names \ missed' PROVE seen'[n] = Actual(n)' \/ Sees(n)'
  <2>1. seen[n] = Actual(n) \/ Sees(n) \/ Fresh(n)  BY <1>1, <1>4
  <2>2. CASE seen[n] = Actual(n)  BY <1>5, <2>2 DEF Actual
  <2>3. CASE Overflows  BY <1>7, <2>3 DEF Sees
  <2>4. ASSUME ~Overflows, NEW i \in DOMAIN queue, AboutFile(i, n)
        PROVE  seen'[n] = Actual(n)' \/ Sees(n)'
    BY <1>9, <2>4 DEF Sees
  <2>5. CASE Sees(n) /\ \A i \in DOMAIN queue : ~AboutFile(i, n)
    BY <1>4, <1>5, <2>5 DEF Sees
  <2> QED BY <2>1, <2>2, <2>3, <2>4, <2>5 DEF Fresh
<1> QED BY <1>1, <1>5, <1>8, <1>10 DEF LinuxInv

-----------------------------------------------------------------------------
(* Solaris.                                                                *)

(* While there is no watch, the client is going to have one made, or has   *)
(* been told; Seen: and so it sees each file.                              *)
SeenAll == \A n \in Names : seen[n] = Actual(n) \/ Sees(n) \/ Pend(n) \/ Pend(Root)

Awake == ~NotWatched(fen) \/ Changed(rec) \/ Watching

Complete == ~NotWatched(fen) => Pend(Root) \/ (Lists(fen, fs) /\ \A e \in fen.entries : Tells(e))

LEMMA SolarisParts ==
  SolarisInv <=> /\ \A n \in Names : rec.children[n] # "created"
                 /\ Complete /\ (split \/ Awake) /\ (split \/ SeenAll)
BY DEF SolarisInv, Complete, Awake, SeenAll, Watching

LEMMA SolarisPartsNext ==
  SolarisInv' <=> /\ \A n \in Names : rec'.children[n] # "created"
                  /\ Complete' /\ (split' \/ Awake') /\ (split' \/ SeenAll')
BY DEF SolarisInv, Complete, Awake, SeenAll, Watching

LEMMA SeesAwake ==
  ASSUME Changed(rec) \/ Watching
  PROVE  \A n \in Names : Sees(n)
BY DEF Sees, Watching

LEMMA SolarisClient ==
  ASSUME FsOK, ClientOK, RecOK(rec), ClientInv, SolarisInv,
         \/ GetChanges \/ SleepOver \/ Done \/ Wait \/ Ask
         \/ \E n \in Names : StartFile(n) \/ Look(n) \/ Age(n),
         UNCHANGED fenvars
  PROVE  SolarisInv'
<1>1. /\ UNCHANGED <<fs, backend>>
      /\ \A n \in Names : Sees(n) => Sees(n)' \/ seen'[n] = Actual(n)'
      /\ \A n \in Names : seen[n] = Actual(n) => seen'[n] = Actual(n)'
      /\ Watching \/ Changed(rec) => Watching' \/ Changed(rec')
      /\ (\A n \in Names : rec.children[n] # "created") =>
            \A n \in Names : rec'.children[n] # "created"
  BY ClientKeeps
<1>2. /\ \A n \in Names : rec.children[n] # "created"
      /\ Complete /\ (split \/ Awake) /\ (split \/ SeenAll)
  BY SolarisParts
<1>3. UNCHANGED <<fen, batch, split>>  BY DEF fenvars
<1>4. \A m : Pend(m)' <=> Pend(m)  BY <1>3 DEF Pend
<1>5. Complete'  BY <1>1, <1>2, <1>3, <1>4 DEF Complete, Tells
<1>6. split' \/ Awake'  BY <1>1, <1>2, <1>3 DEF Awake
<1>7. split' \/ SeenAll'  BY <1>1, <1>2, <1>3, <1>4 DEF SeenAll
<1> QED BY <1>1, <1>2, <1>5, <1>6, <1>7, SolarisPartsNext

LEMMA SolarisWatches ==
  ASSUME ~Follow, FsOK, ClientOK, RecOK(rec), FenInv, ClientInv, SolarisInv,
         WatchDirectory, FenAddWatch(FALSE)
  PROVE  SolarisInv'
<1>1. Complete  BY SolarisParts
<1>2. \A n \in Names : Sees(n)'  BY ClientBegins
<1>3. \A n \in Names : rec'.children[n] = "none"  BY RecordsCleared
<1>4. UNCHANGED <<fs, resets>>  BY DEF WatchDirectory, fsvars
<1>5. /\ ~NotWatched(fen') /\ UNCHANGED <<batch, split>>
      /\ IF NotWatched(fen) THEN Armed(fen') /\ Lists(fen', fs) ELSE fen' = fen
  <2>1. fs \subseteq Names  BY DEF FsOK
  <2> QED BY <1>4, <2>1, FenAddDoes
<1>6. Complete'
  <2>1. CASE NotWatched(fen)
    <3>1. Armed(fen') /\ Lists(fen', fs')  BY <1>4, <1>5, <2>1
    <3> QED BY <3>1 DEF Armed, Complete, Tells
  <2>2. CASE ~NotWatched(fen)
    <3>1. fen' = fen /\ batch' = batch /\ fs' = fs  BY <1>4, <1>5, <2>2
    <3> QED BY <1>1, <3>1 DEF Complete, Tells, Pend
  <2> QED BY <2>1, <2>2
<1>7. Awake' /\ SeenAll'  BY <1>2, <1>5 DEF Awake, SeenAll
<1> QED BY <1>3, <1>6, <1>7, SolarisPartsNext

LEMMA SolarisResets ==
  ASSUME ~Follow, ClientOK, RecOK(rec), FenInv, ClientInv, Reset, FenReset
  PROVE  SolarisInv'
<1>1. (\A n \in Names : Sees(n)') /\ Watching'  BY ClientBegins
<1>2. \A n \in Names : rec'.children[n] = "none"  BY RecordsCleared
<1>3. NotWatched(fen')
  <2>1. resets' = resets + 1 /\ resets \in Nat  BY DEF Reset, ClientOK
  <2> QED BY <2>1, FenResetDoes
<1> QED BY <1>1, <1>2, <1>3, SolarisPartsNext DEF Complete, Awake, SeenAll

(* A change of a file                                                      *)
LEMMA SolarisChange ==
  ASSUME FsOK, FenInv, SolarisInv, NEW n \in Names, NEW op \in {"create", "delete", "modify"},
         Change(n, op), FenChange(n, op)
  PROVE  SolarisInv'
<1>1. /\ (op = "create") <=> n \notin fs
      /\ fs' = CASE op = "create" -> fs \cup {n} [] op = "delete" -> fs \ {n} [] OTHER -> fs
      /\ seen' = IF op # "delete" /\ seen[n] = "present" THEN [seen EXCEPT ![n] = "stale"] ELSE seen
      /\ UNCHANGED <<rec, client, start, todo, looking>>
  BY DEF Change, clientvars
<1>2. \A m \in Names : m # n => seen'[m] = seen[m] /\ Actual(m)' = Actual(m)
  BY <1>1 DEF Actual, FsOK
<1>3. /\ \A m \in Names : rec.children[m] # "created"
      /\ Complete /\ (split \/ Awake) /\ (split \/ SeenAll)
  BY SolarisParts
<1>4. Own(fen, fen.entries)  BY DEF FenInv
<1>5. /\ Keeps(fen, fen') /\ UNCHANGED <<batch, split>>
      /\ \A x : x \in fen'.assoc <=> x \in fen.assoc /\ ~Hears(x, n, op)
      /\ \A y \in fen.queue : y \in fen'.queue
      /\ \A x \in fen.assoc : Hears(x, n, op) => \E y \in fen'.queue : Of(y, x)
  BY <1>4, FenChangeDoes
<1>6. /\ fen'.id = fen.id /\ fen'.entries = fen.entries
      /\ NotWatched(fen') <=> NotWatched(fen)
  BY <1>5 DEF Keeps, NotWatched
<1>7. \A m : Pend(m) => Pend(m)'  BY <1>5, <1>6 DEF Pend
<1>8. ASSUME NEW e \in fen.entries, NEW x \in fen.assoc, Of(x, e)
      PROVE  /\ x.node = e.name
             /\ Hears(x, n, op) => Pend(e.name)'
             /\ ~Hears(x, n, op) => x \in fen'.assoc
  <2>1. PICK d \in fen.entries : Of(x, d) /\ x.node = d.name  BY <1>4 DEF Own, Told
  <2>2. d = e  BY <1>4, <1>8, <2>1 DEF Own, Injective, Of
  <2>3. ASSUME Hears(x, n, op) PROVE Pend(e.name)'
    <3>1. PICK y \in fen'.queue : Of(y, x)  BY <1>5, <2>3
    <3>2. Of(y, e)  BY <1>8, <3>1 DEF Of
    <3> QED BY <1>6, <3>1, <3>2 DEF Pend
  <2> QED BY <1>5, <2>1, <2>2, <2>3
<1>9. \A e \in fen.entries : Tells(e) => Tells(e)'  BY <1>7, <1>8 DEF Tells
<1>10. ASSUME ~NotWatched(fen), NEW m, \E e \in fen.entries : e.name = m /\ Tells(e),
              \A x : x.node = m => Hears(x, n, op)
       PROVE  Pend(m)'
  <2>1. PICK e \in fen.entries : e.name = m /\ Tells(e)  BY <1>10
  <2>2. CASE Pend(e.name)  BY <1>7, <2>1, <2>2
  <2>3. ASSUME NEW x \in fen.assoc, Of(x, e) PROVE Pend(m)'  BY <1>8, <1>10, <2>1, <2>3
  <2> QED BY <2>1, <2>2, <2>3 DEF Tells
<1>11. ASSUME ~NotWatched(fen), op # "modify" PROVE Pend(Root)'
  <2>1. CASE Pend(Root)  BY <1>7, <2>1
  <2>2. CASE Lists(fen, fs) /\ \A e \in fen.entries : Tells(e)
    <3>1. \E e \in fen.entries : e.name = Root /\ Tells(e)  BY <2>2 DEF Lists
    <3>2. \A x : x.node = Root => Hears(x, n, op)  BY <1>11 DEF Hears
    <3> QED BY <1>10, <1>11, <3>1, <3>2
  <2> QED BY <1>3, <1>11, <2>1, <2>2 DEF Complete
<1>12. ASSUME ~NotWatched(fen), op = "modify" PROVE Pend(n)' \/ Pend(Root)'
  <2>1. CASE Pend(Root)  BY <1>7, <2>1
  <2>2. CASE Lists(fen, fs) /\ \A e \in fen.entries : Tells(e)
    <3>1. n \in fs  BY <1>1, <1>12
    <3>2. \E e \in fen.entries : e.name = n /\ Tells(e)  BY <2>2, <3>1 DEF Lists
    <3>3. \A x : x.node = n => Hears(x, n, op)  BY DEF Hears
    <3> QED BY <1>10, <1>12, <3>2, <3>3
  <2> QED BY <1>3, <1>12, <2>1, <2>2 DEF Complete
<1>13. Complete'
  <2> SUFFICES ASSUME ~NotWatched(fen), ~Pend(Root)'
               PROVE  Lists(fen', fs') /\ \A e \in fen'.entries : Tells(e)'
    BY <1>6 DEF Complete
  <2>1. op = "modify" /\ fs' = fs  BY <1>1, <1>11
  <2>2. Lists(fen, fs) /\ \A e \in fen.entries : Tells(e)  BY <1>3, <1>7 DEF Complete
  <2> QED BY <1>6, <1>9, <2>1, <2>2 DEF Lists
<1>14. split' \/ Awake'  BY <1>1, <1>3, <1>5, <1>6 DEF Awake, Watching
<1>15. \A m \in Names : Sees(m) => Sees(m)'  BY <1>1 DEF Sees
<1>16. split' \/ SeenAll'
  <2> SUFFICES ASSUME ~split, NEW m \in Names
               PROVE  seen'[m] = Actual(m)' \/ Sees(m)' \/ Pend(m)' \/ Pend(Root)'
    BY <1>5 DEF SeenAll
  <2>1. CASE m # n  BY <1>2, <1>3, <1>7, <1>15, <2>1 DEF SeenAll
  <2>2. CASE m = n /\ ~NotWatched(fen)  BY <1>11, <1>12, <2>2
  <2>3. CASE NotWatched(fen)
    <3>1. Changed(rec) \/ Watching  BY <1>3, <2>3 DEF Awake
    <3> QED BY <1>15, <3>1, SeesAwake
  <2> QED BY <2>1, <2>2, <2>3
<1> QED BY <1>1, <1>3, <1>13, <1>14, <1>16, SolarisPartsNext

-----------------------------------------------------------------------------
(* Events are fetched: those that waited have been fetched then.           *)
LEMMA SolarisFetches ==
  ASSUME ClientOK, FenInv, SolarisInv, StartFetch \/ FetchPort
  PROVE  SolarisInv'
<1>1. UNCHANGED <<fs, seen, rec, client, start, todo, looking, split>>
  BY DEF StartFetch, FetchPort, fsvars, clientvars
<1>2. /\ \A m \in Names : rec.children[m] # "created"
      /\ Complete /\ (split \/ Awake) /\ (split \/ SeenAll)
  BY SolarisParts
<1>3. /\ fen'.id = fen.id /\ fen'.entries = fen.entries /\ fen'.assoc = fen.assoc
      /\ NotWatched(fen') <=> NotWatched(fen)
      /\ \A y \in batch : y \in batch'
      /\ \A x \in fen.queue : x \in fen'.queue \/ \E y \in batch' : y.id = fen.id /\ Of(y, x)
  <2>1. CASE StartFetch  BY <2>1 DEF StartFetch
  <2>2. CASE FetchPort
    <3>1. Own(fen, fen.entries) /\ Fetched /\ batch \subseteq Events  BY DEF FenInv
    <3>2. fen.id \in 0 .. MaxResets  BY WatchAssumption DEF FenInv, ClientOK, Own, Fen
    <3>3. /\ Keeps(fen, fen') /\ fen'.assoc = fen.assoc
          /\ \A y \in batch : y \in batch'
          /\ \A x \in fen.queue : x \in fen'.queue \/ \E y \in batch' : y.id = fen.id /\ Of(y, x)
      BY <2>2, <3>1, <3>2, FetchPortDoes
    <3> QED BY <3>3 DEF Keeps, NotWatched
  <2> QED BY <2>1, <2>2
<1>4. \A m : Pend(m) => Pend(m)'
  <2> TAKE m
  <2> HAVE Pend(m)
  <2>1. PICK e \in fen.entries :
          /\ e.name = m
          /\ \/ \E x \in fen.queue : Of(x, e)
             \/ \E y \in batch : y.id = fen.id /\ Of(y, e)
    BY DEF Pend
  <2>2. ASSUME NEW x \in fen.queue, Of(x, e) PROVE Pend(m)'
    <3>1. CASE x \in fen'.queue  BY <1>3, <2>1, <2>2, <3>1 DEF Pend
    <3>2. ASSUME NEW y \in batch', y.id = fen.id, Of(y, x) PROVE Pend(m)'
      <4>1. Of(y, e)  BY <2>2, <3>2 DEF Of
      <4> QED BY <1>3, <2>1, <3>2, <4>1 DEF Pend
    <3> QED BY <1>3, <3>1, <3>2
  <2>3. ASSUME NEW y \in batch, y.id = fen.id, Of(y, e) PROVE Pend(m)'
    BY <1>3, <2>1, <2>3 DEF Pend
  <2> QED BY <2>1, <2>2, <2>3
<1>5. \A m \in Names : (Sees(m)' <=> Sees(m)) /\ (Actual(m)' = Actual(m))
  BY <1>1 DEF Sees, Actual
<1>6. Complete'  BY <1>1, <1>2, <1>3, <1>4 DEF Complete, Lists, Tells
<1>7. split' \/ Awake'  BY <1>1, <1>2, <1>3 DEF Awake, Watching
<1>8. split' \/ SeenAll'  BY <1>1, <1>2, <1>4, <1>5 DEF SeenAll
<1> QED BY <1>1, <1>2, <1>6, <1>7, <1>8, SolarisPartsNext

(* Events are processed: what they were about is recorded, and their       *)
(* objects are associated again, or there is no watch.                     *)
LEMMA SolarisProcesses ==
  ASSUME FenInv, RecOK(rec), SolarisInv, ProcessEvents
  PROVE  SolarisInv'
<1>1. UNCHANGED <<fs, seen, client, start, todo, looking>>
  BY DEF ProcessEvents, fsvars, clientvars
<1>2. /\ \A m \in Names : rec.children[m] # "created"
      /\ Complete /\ (split \/ Awake) /\ (split \/ SeenAll)
  BY SolarisParts
<1>3. /\ FenAfter(fen', Lookup(fen)) /\ RecAfter(rec', Lookup(fen)) /\ batch' = {}
      /\ split' = (split \/ ((\A e \in Lookup(fen) : e.name # Root) /\
                             \E e \in Lookup(fen) : ~Reassociates(fen, e)))
  BY ProcessEventsDoes
<1>4. /\ Injective(fen.entries)
      /\ \A y \in batch, d \in fen.entries : y.id = fen.id /\ Of(y, d) =>
           \E e \in Lookup(fen) : e.name = d.name /\ Of(e, d)
  <2>1. Own(fen, fen.entries) /\ Fetched /\ batch \subseteq Events  BY DEF FenInv
  <2> QED BY <2>1, LookupIs DEF Own
<1>5. /\ Changed(rec) => Changed(rec')
      /\ \A e \in Lookup(fen) : e.name = Root => Changed(rec')
      /\ \A n \in Names : rec'.children[n] # "created"
      /\ \A n \in Names : rec.children[n] # "none" => rec'.children[n] # "none"
      /\ \A e \in Lookup(fen) : e.name \in Names => rec'.children[e.name] # "none"
  BY <1>2, <1>3 DEF RecAfter
<1>6. fen'.id = fen.id  BY <1>3 DEF FenAfter
<1>7. NotWatched(fen') =>
        NotWatched(fen) \/ \E e \in Lookup(fen) : e.name = Root \/ ~Reassociates(fen, e)
  BY <1>3 DEF FenAfter
<1>8. ~NotWatched(fen') =>
        /\ ~NotWatched(fen) /\ fen'.entries = fen.entries /\ fen'.queue = fen.queue
        /\ \A x \in fen.assoc : x \in fen'.assoc
        /\ \A e \in Lookup(fen) : e.name # Root /\ \E x \in fen'.assoc : Of(x, e)
  BY <1>3 DEF FenAfter
<1>9. \A n \in Names : Sees(n) => Sees(n)'  BY <1>1, <1>5 DEF Sees
<1>10. split => split'  BY <1>3
<1>11. split' \/ Awake'
  <2> SUFFICES ASSUME ~split', NotWatched(fen') PROVE Changed(rec') \/ Watching'
    BY DEF Awake
  <2>1. ~split  BY <1>10
  <2>2. CASE NotWatched(fen)  BY <1>1, <1>2, <1>5, <2>1, <2>2 DEF Awake, Watching
  <2>3. CASE \E e \in Lookup(fen) : e.name = Root  BY <1>5, <2>3
  <2>4. CASE \E e \in Lookup(fen) : ~Reassociates(fen, e)  BY <1>3, <1>5, <2>4
  <2> QED BY <1>7, <2>2, <2>3, <2>4
<1>12. ASSUME ~NotWatched(fen'), NEW e \in fen.entries, Pend(e.name)
       PROVE  \/ e.name # Root /\ \E x \in fen'.assoc : Of(x, e)
              \/ Pend(e.name)'
  <2>1. PICK d \in fen.entries :
          /\ d.name = e.name
          /\ \/ \E x \in fen.queue : Of(x, d)
             \/ \E y \in batch : y.id = fen.id /\ Of(y, d)
    BY <1>12 DEF Pend
  <2>2. d = e  BY <1>4, <2>1 DEF Injective
  <2>3. ASSUME NEW x \in fen.queue, Of(x, d) PROVE Pend(e.name)'
    BY <1>8, <1>12, <2>2, <2>3 DEF Pend
  <2>4. ASSUME NEW y \in batch, y.id = fen.id, Of(y, d)
        PROVE  e.name # Root /\ \E x \in fen'.assoc : Of(x, e)
    <3>1. PICK l \in Lookup(fen) : l.name = d.name /\ Of(l, d)  BY <1>4, <2>4
    <3>2. PICK x \in fen'.assoc : Of(x, l)  BY <1>8, <1>12
    <3>3. Of(x, e) /\ l.name # Root  BY <1>8, <1>12, <2>2, <3>1, <3>2 DEF Of
    <3> QED BY <2>1, <3>1, <3>3
  <2> QED BY <2>1, <2>3, <2>4
<1>13. Complete'
  <2> SUFFICES ASSUME ~NotWatched(fen'), ~Pend(Root)'
               PROVE  Lists(fen', fs') /\ \A e \in fen'.entries : Tells(e)'
    BY DEF Complete
  <2>1. ~Pend(Root)
    <3> SUFFICES ASSUME Pend(Root) PROVE FALSE
      OBVIOUS
    <3>1. PICK e \in fen.entries : e.name = Root  BY DEF Pend
    <3> QED BY <1>12, <3>1
  <2>2. Lists(fen, fs) /\ \A e \in fen.entries : Tells(e)  BY <1>2, <1>8, <2>1 DEF Complete
  <2>3. \A e \in fen.entries : Tells(e)'  BY <1>8, <1>12, <2>2 DEF Tells
  <2> QED BY <1>1, <1>8, <2>2, <2>3 DEF Lists
<1>14. ASSUME ~split', NEW m, m \in Names \cup {Root}, Pend(m)
       PROVE  \/ m \in Names /\ Sees(m)'
              \/ \A n \in Names : Sees(n)'
              \/ Pend(m)'
  <2>1. PICK d \in fen.entries :
          /\ d.name = m
          /\ \/ \E x \in fen.queue : Of(x, d)
             \/ \E y \in batch : y.id = fen.id /\ Of(y, d)
    BY <1>14 DEF Pend
  <2>2. CASE NotWatched(fen')
    <3>1. Changed(rec') \/ Watching'  BY <1>11, <1>14, <2>2 DEF Awake
    <3> QED BY <3>1 DEF Sees, Watching
  <2>3. ASSUME ~NotWatched(fen'), NEW x \in fen.queue, Of(x, d) PROVE Pend(m)'
    BY <1>8, <2>1, <2>3 DEF Pend
  <2>4. ASSUME NEW y \in batch, y.id = fen.id, Of(y, d)
        PROVE  (m \in Names /\ Sees(m)') \/ \A n \in Names : Sees(n)'
    <3>1. PICK l \in Lookup(fen) : l.name = d.name /\ Of(l, d)  BY <1>4, <2>4
    <3>2. CASE m = Root  BY <1>5, <2>1, <3>1, <3>2 DEF Sees
    <3>3. CASE m \in Names  BY <1>5, <2>1, <3>1, <3>3 DEF Sees
    <3> QED BY <1>14, <3>2, <3>3
  <2> QED BY <2>1, <2>2, <2>3, <2>4
<1>15. split' \/ SeenAll'
  <2> SUFFICES ASSUME ~split', NEW n \in Names
               PROVE  seen'[n] = Actual(n)' \/ Sees(n)' \/ Pend(n)' \/ Pend(Root)'
    BY DEF SeenAll
  <2>1. seen[n] = Actual(n) \/ Sees(n) \/ Pend(n) \/ Pend(Root)  BY <1>2, <1>10 DEF SeenAll
  <2>2. CASE seen[n] = Actual(n)  BY <1>1, <2>2 DEF Actual
  <2>3. CASE Sees(n)  BY <1>9, <2>3
  <2>4. CASE Pend(n)  BY <1>14, <2>4
  <2>5. CASE Pend(Root)  BY <1>14, <2>5, WatchAssumption
  <2> QED BY <2>1, <2>2, <2>3, <2>4, <2>5
<1> QED BY <1>5, <1>11, <1>13, <1>15, SolarisPartsNext

-----------------------------------------------------------------------------
LEMMA ChangeInit == ASSUME Init PROVE ChangeInv
<1>1. /\ client = "scan" /\ start = "none" /\ todo = {Root} /\ looking = {} /\ rec = NoRecord
      /\ wd = 0 /\ nextWd = 1 /\ queue = <<>> /\ fen.watched = FALSE
  BY DEF Init, WatchInit, InotifyInit, FenInit
<1>2. ClientInv  BY <1>1, WatchAssumption DEF ClientInv
<1>3. \A n \in Names : Sees(n)  BY <1>1 DEF Sees
<1>4. QueueInv
  <2>1. DOMAIN queue = {} /\ ~(Len(queue) > MaxQueue)  BY <1>1, QueueAssumption
  <2> QED BY <2>1 DEF QueueInv
<1>5. LinuxInv  BY <1>1, <1>3, <1>4 DEF LinuxInv
<1>6. SolarisInv
  <2>1. \A n \in Names : rec.children[n] # "created"  BY <1>1 DEF NoRecord
  <2>2. NotWatched(fen) /\ Watching  BY <1>1 DEF NotWatched, Watching
  <2> QED BY <1>3, <2>1, <2>2, SolarisParts DEF Complete, Awake, SeenAll
<1> QED BY <1>2, <1>5, <1>6 DEF ChangeInv

LEMMA SystemInv ==
  ASSUME ChangeInv, ClientInv', Linux' <=> Linux, Linux => LinuxInv', ~Linux => SolarisInv'
  PROVE  ChangeInv'
BY DEF ChangeInv

LEMMA ChangeStep ==
  ASSUME ~Follow, TypeInv, ChangeInv, Next
  PROVE  ChangeInv'
<1>1. FsOK /\ ClientOK /\ RecOK(rec) /\ InotifyInv /\ FenInv  BY TypeUnfolds
<1>2. ClientInv /\ (Linux => LinuxInv) /\ (~Linux => SolarisInv)  BY DEF ChangeInv
<1>3. UNCHANGED clientvars => ClientInv'  BY <1>2 DEF ClientInv, clientvars
<1>4. UNCHANGED fsvars => (Linux' <=> Linux)  BY DEF Linux, fsvars
<1>5. CASE ProgramChanges
  <2>1. PICK n \in Names, op \in {"create", "delete", "modify"} :
          /\ Change(n, op)
          /\ IF Linux THEN InotifyChange(n, op) /\ UNCHANGED fenvars
             ELSE FenChange(n, op) /\ UNCHANGED inotifyvars
    BY <1>5 DEF ProgramChanges
  <2>2. UNCHANGED clientvars /\ (Linux' <=> Linux)  BY <2>1 DEF Change, Linux
  <2>3. Linux => LinuxInv'  BY <1>1, <1>2, <2>1, LinuxChange
  <2>4. ~Linux => SolarisInv'  BY <1>1, <1>2, <2>1, SolarisChange
  <2> QED BY <1>3, <2>2, <2>3, <2>4, SystemInv
<1>6. CASE ClientWatches
  <2>1. /\ WatchDirectory
        /\ IF Linux THEN InotifyAddWatch(client \in {"link", "look"}) /\ UNCHANGED fenvars
           ELSE FenAddWatch(client \in {"link", "look"}) /\ UNCHANGED inotifyvars
    BY <1>6 DEF ClientWatches
  <2>2. (client \in {"link", "look"}) = FALSE  BY <1>1, <2>1 DEF ClientOK, WatchDirectory
  <2>3. ClientInv' /\ (Linux' <=> Linux)  BY <1>1, <1>2, <1>4, <2>1, ClientInvStep DEF WatchDirectory
  <2>4. ASSUME Linux PROVE LinuxInv'
    <3>1. InotifyAddWatch(FALSE)  BY <2>1, <2>2, <2>4
    <3> QED BY <1>1, <1>2, <2>1, <2>4, <3>1, LinuxWatches
  <2>5. ASSUME ~Linux PROVE SolarisInv'
    <3>1. FenAddWatch(FALSE)  BY <2>1, <2>2, <2>5
    <3> QED BY <1>1, <1>2, <2>1, <2>5, <3>1, SolarisWatches
  <2> QED BY <2>3, <2>4, <2>5, SystemInv
<1>7. CASE ClientResets
  <2>1. /\ Reset
        /\ IF Linux THEN InotifyReset /\ UNCHANGED fenvars
           ELSE FenReset /\ UNCHANGED inotifyvars
    BY <1>7 DEF ClientResets
  <2>2. ClientInv' /\ (Linux' <=> Linux)  BY <1>1, <1>2, <1>4, <2>1, ClientInvStep DEF Reset
  <2>3. Linux => LinuxInv'  BY <1>1, <1>2, <2>1, LinuxResets
  <2>4. ~Linux => SolarisInv'  BY <1>1, <1>2, <2>1, SolarisResets
  <2> QED BY <2>2, <2>3, <2>4, SystemInv
<1>8. CASE ClientGetsChanges \/ ClientScans \/ ClientGoesOn \/ TimePasses
  <2>1. /\ \/ GetChanges \/ SleepOver \/ Done \/ Wait \/ Ask
           \/ \E n \in Names : StartFile(n) \/ Look(n) \/ Age(n)
        /\ UNCHANGED <<wd, nextWd, queue, missed>> /\ UNCHANGED fenvars
    BY <1>8 DEF ClientGetsChanges, ClientScans, ClientGoesOn, TimePasses, inotifyvars, fenvars
  <2>2. UNCHANGED backend  BY <1>1, <1>2, <2>1, ClientKeeps
  <2>3. Linux' <=> Linux  BY <2>2 DEF Linux
  <2>4. SleepOver \/ (\E n \in Names : Age(n)) => UNCHANGED clientvars  BY DEF SleepOver, Age
  <2>5. ClientInv'  BY <1>1, <1>2, <1>3, <2>1, <2>4, ClientInvStep
  <2>6. Linux => LinuxInv'  BY <1>1, <1>2, <2>1, LinuxClient
  <2>7. ~Linux => SolarisInv'  BY <1>1, <1>2, <2>1, SolarisClient
  <2> QED BY <2>3, <2>5, <2>6, <2>7, SystemInv
<1>9. CASE Linux /\ ReadInotify /\ UNCHANGED fenvars
  <2>1. UNCHANGED <<fsvars, clientvars>>  BY <1>9 DEF ReadInotify
  <2>2. LinuxInv'  BY <1>1, <1>2, <1>9, LinuxReads
  <2> QED BY <1>3, <1>4, <1>9, <2>1, <2>2, SystemInv
<1>10. CASE ~Linux /\ (StartFetch \/ FetchPort \/ ProcessEvents) /\ UNCHANGED inotifyvars
  <2>1. UNCHANGED <<fsvars, clientvars>>  BY <1>10 DEF StartFetch, FetchPort, ProcessEvents
  <2>2. SolarisInv'  BY <1>1, <1>2, <1>10, SolarisFetches, SolarisProcesses
  <2> QED BY <1>3, <1>4, <1>10, <2>1, <2>2, SystemInv
<1> QED BY <1>5, <1>6, <1>7, <1>8, <1>9, <1>10 DEF Next, ReadEvents

LEMMA ChangeSame ==
  ASSUME ChangeInv, UNCHANGED vars
  PROVE  ChangeInv'
<1>1. UNCHANGED <<backend, fs, seen, rec, client, start, todo, looking, wd, nextWd, queue, missed,
                  fen, batch, split>>
  BY DEF vars, watchvars, fsvars, clientvars, inotifyvars, fenvars
<1>2. ClientInv => ClientInv'  BY <1>1 DEF ClientInv
<1>3. \A n \in Names : Sees(n) => Sees(n)'  BY <1>1 DEF Sees
<1>4. LinuxInv => LinuxInv'
  BY <1>1, <1>3 DEF LinuxInv, QueueInv, Overflows, AboutFile, Fresh, Actual
<1>5. SolarisInv => SolarisInv'
  <2>1. \A m : Pend(m)' <=> Pend(m)  BY <1>1 DEF Pend
  <2>2. Complete => Complete'  BY <1>1, <2>1 DEF Complete, Lists, Tells
  <2>3. Awake => Awake'  BY <1>1 DEF Awake, Watching
  <2>4. SeenAll => SeenAll'  BY <1>1, <1>3, <2>1 DEF SeenAll, Actual
  <2> QED BY <1>1, <2>2, <2>3, <2>4, SolarisParts, SolarisPartsNext
<1> QED BY <1>1, <1>2, <1>4, <1>5 DEF ChangeInv, Linux

LEMMA ChangesFollow ==
  ASSUME TypeInv, ChangeInv
  PROVE  NoChangeLost
<1>1. FenInv /\ InotifyInv  BY DEF TypeInv
<1>2. \A n \in Names : Sees(n) => Noticed(n)  BY DEF Sees, Noticed, Changed
<1>3. CASE Linux
  <2>1. \A n \in Names \ missed : seen[n] = Actual(n) \/ Sees(n) \/ Fresh(n)
    BY <1>3 DEF ChangeInv, LinuxInv
  <2>2. \A n \in Names : Fresh(n) => InotifyPending(n)
    BY DEF Fresh, Overflows, AboutFile, InotifyPending
  <2> QED BY <1>2, <2>1, <2>2 DEF NoChangeLost, Noticed
<1>4. CASE ~Linux
  <2>1. split \/ \A n \in Names : seen[n] = Actual(n) \/ Sees(n) \/ Pend(n) \/ Pend(Root)
    BY <1>4 DEF ChangeInv, SolarisInv
  <2>2. \A y \in batch, d \in fen.entries : y.id = fen.id /\ Of(y, d) =>
          \E e \in Lookup(fen) : e.name = d.name /\ Of(e, d)
    <3>1. Own(fen, fen.entries) /\ Fetched /\ batch \subseteq Events  BY <1>1 DEF FenInv
    <3> QED BY <3>1, LookupIs
  <2>3. \A m : \A n \in Names : m \in {n, Root} /\ Pend(m) => FenPending(n)
    BY <2>2 DEF Pend, FenPending, Of
  <2> QED BY <1>2, <2>1, <2>3 DEF NoChangeLost, Noticed
<1> QED BY <1>3, <1>4

LEMMA InvHolds ==
  ASSUME ~Follow
  PROVE  Spec => []Inv
<1>1. Init => Inv  BY TypeInit, ChangeInit DEF Inv
<1>2. Inv /\ [Next]_vars => Inv'  BY TypeStep, TypeSame, ChangeStep, ChangeSame DEF Inv
<1> QED BY <1>1, <1>2, PTL DEF Spec

(* If the client has not seen a file as it is, then it is going to look at *)
(* it, or the change is recorded, or an event about it is still to be read:*)
(* nothing that happens while the client scans, resets the watch or waits, *)
(* and no overflow of the queue, loses a change (watchercommon.ml and the  *)
(* two watcher.ml), but for the losses that missed and split record.       *)
THEOREM NothingLost ==
  ASSUME ~Follow
  PROVE  Spec => []NoChangeLost
<1>1. Inv => NoChangeLost  BY ChangesFollow DEF Inv
<1> QED BY <1>1, InvHolds, PTL
=============================================================================
