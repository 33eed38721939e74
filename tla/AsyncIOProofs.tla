--------------------------- MODULE AsyncIOProofs ---------------------------
(***************************************************************************)
(* For any descriptors, any number of operations, any order in which they  *)
(* end and any loops inside one another, the event loop gives every thread *)
(* the end and the data of its own operation (Matched, OwnResult), and     *)
(* waits for no event that is closed but those that a failing call inside  *)
(* another loop has left (WaitsForLive); every variable keeps its type     *)
(* (TypeOK).                                                               *)
(***************************************************************************)
EXTENDS AsyncIO, FoldLemmas

-----------------------------------------------------------------------------
(* Types, without the bounds of TypeOK.                                    *)
AnyOp == [id : Nat, kind : Kinds, ticket : Nat \ {0}, buf : Nat \ {0}]
AnyInfo == [op : AnyOp, len : {-1, 0, 1}, err : BOOLEAN]
Helpers == Sync \X Kinds

Types ==
  /\ open \subseteq Descrs
  /\ kernel \subseteq Async \X AnyOp
  /\ helper \in [Helpers -> Seq(AnyOp \cup {Exit})]
  /\ apc \in Seq(AnyInfo) /\ events \in Seq(AnyInfo)
  /\ ioInFlight \in [DOMAIN ioInFlight -> AnyOp]
  /\ content \in Seq(Nat) /\ avail \in Seq(Nat \ {0})
  /\ outcome \in Seq({"flying", "raised", "exn", "done"})
  /\ ended \in Seq({"no", "exn", "done"}) /\ Len(ended) = Started
  /\ moved \in Seq(Nat) /\ Len(moved) = Started

(* The loops around this one hold the last of the results, each one at     *)
(* least as many as the loops around it.                                   *)
Frame == [ret : Nat, base : Nat, pc : Threads]

Stacked ==
  /\ outer \in Seq(Frame) /\ base \in Nat /\ base <= Len(events)
  /\ \A i \in 1 .. Len(outer) :
       outer[i].base <= base /\ \A j \in 1 .. i : outer[j].base <= outer[i].base

(* What is registered under an identifier has it; operations differ in     *)
(* their tickets and buffers, and a buffer that is available is nobody's.  *)
Owned ==
  \A i \in DOMAIN ioInFlight :
    /\ ioInFlight[i].id = i
    /\ ioInFlight[i].ticket \in 1 .. Started
    /\ ioInFlight[i].buf \in 1 .. Len(content)
    /\ \A k \in 1 .. Len(avail) : avail[k] # ioInFlight[i].buf
    /\ \A j \in DOMAIN ioInFlight :
         \/ ioInFlight[i].ticket = ioInFlight[j].ticket
         \/ ioInFlight[i].buf = ioInFlight[j].buf
         => i = j

Available ==
  \A k, l \in 1 .. Len(avail) : avail[k] \in 1 .. Len(content) /\ (avail[k] = avail[l] => k = l)

(* The identifiers not in use are in the table from lastId on.             *)
Identifiers(size) ==
  /\ freeList \in [0 .. size - 1 -> 0 .. size - 1]
  /\ lastId \in 0 .. size
  /\ DOMAIN ioInFlight \subseteq 0 .. size - 1
  /\ Cardinality(DOMAIN ioInFlight) = lastId
  /\ \A i \in lastId .. size - 1 :
       /\ freeList[i] \notin DOMAIN ioInFlight
       /\ \A j \in lastId .. size - 1 : freeList[i] = freeList[j] => i = j

IdsFree == \E size \in Nat \ {0} : Identifiers(size)

(* Where the operations on their way are: each in one place.               *)
InKernel(op) == \E d \in Async : <<d, op>> \in kernel
InHelper(op) == \E h \in Helpers : \E i \in 1 .. Len(helper[h]) : helper[h][i] = op
InApc(op) == \E i \in 1 .. Len(apc) : apc[i].op = op
InEvents(op) == \E i \in 1 .. Len(events) : events[i].op = op

Performing(op) == InKernel(op) \/ InHelper(op)
Way(op) == Performing(op) \/ InApc(op) \/ InEvents(op)

Once ==
  /\ \A p, q \in kernel : p[2] = q[2] => p = q
  /\ \A h, g \in Helpers : \A i \in 1 .. Len(helper[h]), j \in 1 .. Len(helper[g]) :
       helper[h][i] = helper[g][j] => helper[h][i] = Exit \/ (h = g /\ i = j)
  /\ \A i, j \in 1 .. Len(apc) : apc[i].op = apc[j].op => i = j
  /\ \A i, j \in 1 .. Len(events) : events[i].op = events[j].op => i = j
  /\ \A op \in AnyOp : ~(InKernel(op) /\ InHelper(op)) /\ ~(InApc(op) /\ InEvents(op))

Registered ==
  \A op \in AnyOp : Way(op) =>
    /\ op.id \in DOMAIN ioInFlight /\ ioInFlight[op.id] = op
    /\ outcome[op.ticket] = "flying"

(* What has been done for an operation, and what its result says.          *)
Result(e, end, mov, con) ==
  /\ end[e.op.ticket] \in {"exn", "done"}
  /\ e.err <=> end[e.op.ticket] = "exn"
  /\ ~e.err => /\ e.len = 1
               /\ e.op.kind = "write" => mov[e.op.ticket] = e.op.ticket
               /\ e.op.kind = "read" => con[e.op.buf] = e.op.ticket

Done(e) == Result(e, ended, moved, content)

Progress ==
  /\ \A op \in AnyOp : Performing(op) =>
       /\ ended[op.ticket] = "no"
       /\ op.kind = "write" => content[op.buf] = op.ticket
  /\ \A i \in 1 .. Len(apc) : Done(apc[i])
  /\ \A i \in 1 .. Len(events) : Done(events[i]) /\ (events[i].err <=> events[i].len = -1)

IInv ==
  /\ Types /\ Owned /\ Available /\ IdsFree
  /\ Once /\ Registered /\ Progress /\ OwnResult /\ Stacked

-----------------------------------------------------------------------------
(* acquire_id.                                                             *)
LEMMA AcquireId ==
  ASSUME NEW size \in Nat \ {0}, Identifiers(size)
  PROVE  \E n \in Nat \ {0} :
           /\ FreeList \in [0 .. n - 1 -> 0 .. n - 1]
           /\ lastId \in 0 .. n - 1
           /\ DOMAIN ioInFlight \subseteq 0 .. n - 1
           /\ \A i \in lastId .. n - 1 :
                /\ FreeList[i] \notin DOMAIN ioInFlight
                /\ \A j \in lastId .. n - 1 : FreeList[i] = FreeList[j] => i = j
<1>1. Cardinality(DOMAIN freeList) = size
  <2>1. DOMAIN freeList = 0 .. size - 1  BY DEF Identifiers
  <2> QED BY <2>1, FS_Interval
<1>2. CASE lastId < size
  <2>1. FreeList = freeList  BY <1>1, <1>2 DEF FreeList
  <2> QED BY SMTT(30), <1>2, <2>1 DEF Identifiers
<1>3. CASE lastId = size
  <2> DEFINE n == 2 * size
  <2>1. FreeList = [i \in 0 .. n - 1 |-> IF i < size THEN freeList[i] ELSE i]
    BY <1>1, <1>3 DEF FreeList
  <2>2. FreeList \in [0 .. n - 1 -> 0 .. n - 1]  BY <2>1 DEF Identifiers
  <2>3. \A i \in lastId .. n - 1 : FreeList[i] = i  BY <1>3, <2>1
  <2>4. n \in Nat \ {0} /\ lastId \in 0 .. n - 1  BY <1>3
  <2>5. DOMAIN ioInFlight \subseteq 0 .. size - 1  BY DEF Identifiers
  <2>6. DOMAIN ioInFlight \subseteq 0 .. n - 1  BY <2>5
  <2>7. \A i \in lastId .. n - 1 :
          /\ FreeList[i] \notin DOMAIN ioInFlight
          /\ \A j \in lastId .. n - 1 : FreeList[i] = FreeList[j] => i = j
    BY <1>3, <2>3, <2>5
  <2> QED BY <2>2, <2>4, <2>6, <2>7
<1>4. lastId < size \/ lastId = size
  <2>1. lastId \in 0 .. size  BY DEF Identifiers
  <2> QED BY <2>1
<1> QED BY <1>2, <1>3, <1>4

(* A registration that is gone.                                            *)
LEMMA Unregistration ==
  ASSUME NEW f, NEW i
  PROVE  /\ DOMAIN Without(f, i) = DOMAIN f \ {i}
         /\ \A j \in DOMAIN f \ {i} : Without(f, i)[j] = f[j]
  BY DEF Without

LEMMA StartIds ==
  ASSUME IdsFree, NEW d, NEW kind, Start(d, kind)
  PROVE  IdsFree' /\ FreeList[lastId] \in Nat \ DOMAIN ioInFlight
<1>1. PICK size \in Nat \ {0} : Identifiers(size)  BY DEF IdsFree
<1>2. PICK n \in Nat \ {0} :
         /\ FreeList \in [0 .. n - 1 -> 0 .. n - 1]
         /\ lastId \in 0 .. n - 1
         /\ DOMAIN ioInFlight \subseteq 0 .. n - 1
         /\ \A i \in lastId .. n - 1 :
              /\ FreeList[i] \notin DOMAIN ioInFlight
              /\ \A j \in lastId .. n - 1 : FreeList[i] = FreeList[j] => i = j
  BY <1>1, AcquireId
<1> DEFINE id == FreeList[lastId]
<1>3. id \in 0 .. n - 1 /\ id \notin DOMAIN ioInFlight  BY <1>2
<1>4. freeList' = FreeList /\ lastId' = lastId + 1  BY DEF Start
<1>5. PICK op : ioInFlight' = With(ioInFlight, id, op)
  <2> DEFINE new == [id |-> id, kind |-> kind, ticket |-> Started + 1,
             buf |-> IF avail = <<>> THEN Len(content) + 1 ELSE Head(avail)]
  <2>1. ioInFlight' = With(ioInFlight, new.id, new) /\ new.id = id  BY DEF Start
  <2> QED BY <2>1
<1>6. DOMAIN ioInFlight' = DOMAIN ioInFlight \cup {id}  BY <1>5 DEF With
<1>7. Cardinality(DOMAIN ioInFlight') = lastId + 1
  <2>1. IsFiniteSet(DOMAIN ioInFlight)
    <3>1. IsFiniteSet(0 .. n - 1)  BY FS_Interval
    <3> QED BY <1>2, <3>1, FS_Subset
  <2>2. Cardinality(DOMAIN ioInFlight) = lastId  BY <1>1 DEF Identifiers
  <2>3. Cardinality(DOMAIN ioInFlight \cup {id}) = Cardinality(DOMAIN ioInFlight) + 1
    BY <1>3, <2>1, FS_AddElement
  <2>4. DOMAIN ioInFlight' = DOMAIN ioInFlight \cup {id}  BY <1>6
  <2> QED BY <2>2, <2>3, <2>4
<1>8. Identifiers(n)'
  <2>1. freeList' \in [0 .. n - 1 -> 0 .. n - 1]  BY <1>2, <1>4
  <2>2. lastId' \in 0 .. n  BY <1>2, <1>4
  <2>3. DOMAIN ioInFlight' \subseteq 0 .. n - 1  BY <1>2, <1>3, <1>6
  <2>4. \A i \in lastId' .. n - 1 :
          /\ freeList'[i] \notin DOMAIN ioInFlight'
          /\ \A j \in lastId' .. n - 1 : freeList'[i] = freeList'[j] => i = j
    BY <1>2, <1>4, <1>6
  <2> QED BY <1>4, <1>7, <2>1, <2>2, <2>3, <2>4 DEF Identifiers
<1> QED BY <1>3, <1>8 DEF IdsFree

LEMMA HandleIds ==
  ASSUME IdsFree, HandleCompletionEvent
  PROVE  IdsFree'
<1>1. PICK size \in Nat \ {0} : Identifiers(size)  BY DEF IdsFree
<1> DEFINE i == Head(events).op.id
<1>2. /\ i \in DOMAIN ioInFlight /\ ioInFlight' = Without(ioInFlight, i)
      /\ lastId' = lastId - 1 /\ freeList' = [freeList EXCEPT ![lastId - 1] = i]
  BY DEF HandleCompletionEvent, ReleaseId
<1> HIDE DEF i
<1>3. /\ freeList \in [0 .. size - 1 -> 0 .. size - 1]
      /\ lastId \in 0 .. size /\ DOMAIN ioInFlight \subseteq 0 .. size - 1
      /\ Cardinality(DOMAIN ioInFlight) = lastId
      /\ \A k \in lastId .. size - 1 :
           /\ freeList[k] \notin DOMAIN ioInFlight
           /\ \A l \in lastId .. size - 1 : freeList[k] = freeList[l] => k = l
  BY <1>1 DEF Identifiers
<1>4. DOMAIN ioInFlight' = DOMAIN ioInFlight \ {i}  BY <1>2, Unregistration
<1>5. IsFiniteSet(DOMAIN ioInFlight)
  <2>1. IsFiniteSet(0 .. size - 1)  BY FS_Interval
  <2> QED BY <1>3, <2>1, FS_Subset
<1>6. Cardinality(DOMAIN ioInFlight') = lastId - 1
  BY <1>2, <1>3, <1>4, <1>5, FS_RemoveElement
<1>7. lastId \in 1 .. size
  <2>1. lastId # 0  BY <1>2, <1>3, <1>5, FS_EmptySet
  <2> QED BY <1>3, <2>1
<1>8. freeList' \in [0 .. size - 1 -> 0 .. size - 1]  BY <1>2, <1>3
<1>9. \A k \in lastId' .. size - 1 :
        /\ freeList'[k] \notin DOMAIN ioInFlight'
        /\ \A l \in lastId' .. size - 1 : freeList'[k] = freeList'[l] => k = l
  <2>1. \A k \in lastId .. size - 1 : freeList'[k] = freeList[k]  BY <1>2, <1>3, <1>7
  <2>2. freeList'[lastId - 1] = i  BY <1>2, <1>3, <1>7
  <2>3. \A k \in lastId' .. size - 1 : k = lastId - 1 \/ k \in lastId .. size - 1
    BY <1>2, <1>7
  <2>4. \A k \in lastId .. size - 1 : freeList[k] # i /\ freeList[k] \notin DOMAIN ioInFlight'
    BY <1>2, <1>3, <1>4
  <2>5. i \notin DOMAIN ioInFlight'  BY <1>4
  <2>6. \A k \in lastId' .. size - 1 : freeList'[k] \notin DOMAIN ioInFlight'
    BY <2>1, <2>2, <2>3, <2>4, <2>5
  <2>7. \A k, l \in lastId' .. size - 1 : freeList'[k] = freeList'[l] => k = l
    BY ZenonT(60), <1>3, <2>1, <2>2, <2>3, <2>4
  <2> QED BY <2>6, <2>7
<1>10. Identifiers(size)'
  <2>1. lastId' \in 0 .. size  BY <1>2, <1>7
  <2>2. DOMAIN ioInFlight' \subseteq 0 .. size - 1  BY <1>3, <1>4
  <2> QED BY <1>2, <1>6, <1>8, <1>9, <2>1, <2>2 DEF Identifiers
<1> QED BY <1>10 DEF IdsFree

-----------------------------------------------------------------------------
LEMMA ExitIsNoOp == Exit \notin AnyOp  BY DEF Exit, AnyOp, Kinds

(* The parts of Start that do not depend on whether it succeeds            *)
LEMMA StartOp ==
  ASSUME IInv, NEW d \in Descrs, NEW kind \in Kinds, Start(d, kind),
         NEW op,
         op = [id |-> FreeList[lastId], kind |-> kind, ticket |-> Started + 1,
               buf |-> IF avail = <<>> THEN Len(content) + 1 ELSE Head(avail)]
  PROVE  /\ op \in AnyOp
         /\ op.id \notin DOMAIN ioInFlight /\ op.ticket = Started + 1 /\ op.kind = kind
         /\ DOMAIN ioInFlight' = DOMAIN ioInFlight \cup {op.id}
         /\ ioInFlight'[op.id] = op
         /\ \A i \in DOMAIN ioInFlight : ioInFlight'[i] = ioInFlight[i]
<1>1. op.id \in Nat \ DOMAIN ioInFlight  BY StartIds DEF IInv
<1>2. Started \in Nat  BY LenProperties DEF IInv, Types, Started
<1>3. op.buf \in Nat \ {0}
  <2>1. CASE avail = <<>>  BY <2>1, LenProperties DEF IInv, Types
  <2>2. CASE avail # <<>>  BY <2>2, HeadTailProperties DEF IInv, Types
  <2> QED BY <2>1, <2>2
<1>4. op \in AnyOp  BY <1>1, <1>2, <1>3 DEF AnyOp
<1>5. ioInFlight' = With(ioInFlight, op.id, op)  BY DEF Start
<1>7. /\ DOMAIN ioInFlight' = DOMAIN ioInFlight \cup {op.id}
      /\ ioInFlight'[op.id] = op
      /\ \A i \in DOMAIN ioInFlight : ioInFlight'[i] = ioInFlight[i]
  BY <1>1, <1>5 DEF With
<1> QED BY <1>1, <1>4, <1>7

(* The operation op has got a buffer that no other one uses.               *)
GetsBuffer(op) ==
  /\ content' \in Seq(Nat) /\ avail' \in Seq(Nat \ {0})
  /\ Len(content) <= Len(content')
  /\ op.buf \in 1 .. Len(content')
  /\ \A i \in DOMAIN ioInFlight : op.buf # ioInFlight[i].buf
  /\ \A b \in 1 .. Len(content) : b # op.buf => content'[b] = content[b]
  /\ op.kind = "write" => content'[op.buf] = op.ticket
  /\ \A k \in 1 .. Len(avail') :
       /\ avail'[k] \in 1 .. Len(content') /\ avail'[k] # op.buf
       /\ \E l \in 1 .. Len(avail) : avail'[k] = avail[l]
       /\ \A l \in 1 .. Len(avail') : avail'[k] = avail'[l] => k = l

LEMMA StartBuffers ==
  ASSUME IInv, NEW d \in Descrs, NEW kind \in Kinds, Start(d, kind),
         NEW op,
         op = [id |-> FreeList[lastId], kind |-> kind, ticket |-> Started + 1,
               buf |-> IF avail = <<>> THEN Len(content) + 1 ELSE Head(avail)]
  PROVE  GetsBuffer(op)
<1>0. op.kind = kind  OBVIOUS
<1> DEFINE data == IF kind = "write" THEN op.ticket ELSE 0
<1>1. op.ticket \in Nat \ {0} /\ data \in Nat
  <2>1. op \in AnyOp  BY ZenonT(60), StartOp
  <2> QED BY <2>1 DEF AnyOp
<1>2. AcquireBuffer(data)  BY DEF Start
<1> HIDE DEF data
<1>3. content \in Seq(Nat) /\ avail \in Seq(Nat \ {0}) /\ Len(content) \in Nat /\ Len(avail) \in Nat
  BY LenProperties DEF IInv, Types
<1>4. CASE avail = <<>>
  <2>1. content' = Append(content, data) /\ avail' = avail  BY <1>2, <1>4 DEF AcquireBuffer
  <2>2. Len(avail) = 0  BY <1>4
  <2>3. /\ content' \in Seq(Nat) /\ Len(content') = Len(content) + 1
        /\ \A b \in 1 .. Len(content) : content'[b] = content[b]
        /\ content'[Len(content) + 1] = data
    BY <1>1, <1>3, <2>1, AppendProperties
  <2>4. op.buf = Len(content) + 1  BY <1>4
  <2>5. \A i \in DOMAIN ioInFlight : op.buf # ioInFlight[i].buf
    BY <1>3, <2>4 DEF IInv, Owned
  <2>6. kind = "write" => content'[op.buf] = op.ticket  BY <2>3, <2>4 DEF data
  <2> QED BY <1>0, <1>3, <2>1, <2>2, <2>3, <2>4, <2>5, <2>6 DEF GetsBuffer
<1>5. CASE avail # <<>>
  <2>1. content' = Blit(Head(avail), data) /\ avail' = Tail(avail)  BY <1>2, <1>5 DEF AcquireBuffer
  <2>2. /\ avail' \in Seq(Nat \ {0}) /\ Len(avail') = Len(avail) - 1
        /\ \A k \in 1 .. Len(avail') : avail'[k] = avail[k + 1]
    BY <1>3, <1>5, <2>1, HeadTailProperties
  <2>3. Len(avail) # 0  BY <1>3, <1>5, EmptySeq
  <2>4. op.buf = avail[1]  BY <1>3, <1>5, <2>3
  <2>5. op.buf \in 1 .. Len(content) /\ \A i \in DOMAIN ioInFlight : op.buf # ioInFlight[i].buf
    BY <1>3, <2>3, <2>4 DEF IInv, Owned, Available
  <2>6. /\ content' \in Seq(Nat) /\ Len(content') = Len(content)
        /\ \A b \in 1 .. Len(content) : b # op.buf => content'[b] = content[b]
        /\ kind = "write" => content'[op.buf] = op.ticket
    <3>1. Head(avail) = op.buf  BY <1>5
    <3>2. CASE data = 0
      <4>1. content' = content /\ kind # "write"  BY <1>1, <2>1, <3>2 DEF Blit, data
      <4> QED BY <1>3, <4>1
    <3>3. CASE data # 0
      <4>1. content' = [content EXCEPT ![op.buf] = data] /\ data = op.ticket
        BY <2>1, <3>1, <3>3 DEF Blit, data
      <4> QED BY <1>1, <1>3, <2>5, <4>1, ExceptSeq
    <3> QED BY <3>2, <3>3
  <2>7. \A k \in 1 .. Len(avail') :
          /\ avail'[k] \in 1 .. Len(content') /\ avail'[k] # op.buf
          /\ \E l \in 1 .. Len(avail) : avail'[k] = avail[l]
          /\ \A l \in 1 .. Len(avail') : avail'[k] = avail'[l] => k = l
    <3>1. \A k \in 1 .. Len(avail') :
            k + 1 \in 1 .. Len(avail) /\ k + 1 # 1 /\ avail'[k] = avail[k + 1]
      BY <1>3, <2>2, <2>3
    <3>2. 1 \in 1 .. Len(avail)  BY <1>3, <2>3
    <3>3. \A k, l \in 1 .. Len(avail) :
            avail[k] \in 1 .. Len(content) /\ (avail[k] = avail[l] => k = l)
      BY DEF IInv, Available
    <3>4. \A k \in 1 .. Len(avail') : avail'[k] \in 1 .. Len(content') /\ avail'[k] # op.buf
      BY <2>4, <2>6, <3>1, <3>2, <3>3
    <3>5. \A k, l \in 1 .. Len(avail') : avail'[k] = avail'[l] => k = l
      BY <3>1, <3>3
    <3> QED BY <3>1, <3>4, <3>5
  <2> QED BY <1>0, <1>3, <2>2, <2>5, <2>6, <2>7 DEF GetsBuffer
<1> QED BY <1>4, <1>5

(* Operations on their way are registered, so they differ in everything.   *)
LEMMA WayOwned ==
  ASSUME IInv, NEW x \in AnyOp, Way(x)
  PROVE  /\ x.id \in DOMAIN ioInFlight /\ ioInFlight[x.id] = x
         /\ x.ticket \in 1 .. Started /\ x.buf \in 1 .. Len(content)
         /\ outcome[x.ticket] = "flying"
         /\ \A y \in AnyOp : Way(y) /\ (y.ticket = x.ticket \/ y.buf = x.buf \/ y.id = x.id) => y = x
  BY DEF IInv, Registered, Owned

LEMMA StartLists ==
  ASSUME IInv, NEW d \in Descrs, NEW kind \in Kinds, Start(d, kind)
  PROVE  /\ outcome' \in Seq({"flying", "raised", "exn", "done"})
         /\ ended' \in Seq({"no", "exn", "done"}) /\ moved' \in Seq(Nat)
         /\ Started' = Started + 1 /\ Len(ended') = Started' /\ Len(moved') = Started'
         /\ \A t \in 1 .. Started :
              outcome'[t] = outcome[t] /\ ended'[t] = ended[t] /\ moved'[t] = moved[t]
         /\ outcome'[Started + 1] \in {"flying", "raised"} /\ ended'[Started + 1] = "no"
<1>1. /\ outcome \in Seq({"flying", "raised", "exn", "done"})
      /\ ended \in Seq({"no", "exn", "done"}) /\ moved \in Seq(Nat)
      /\ Len(ended) = Len(outcome) /\ Len(moved) = Len(outcome)
  BY DEF IInv, Types, Started
<1>2. ended' = Append(ended, "no") /\ moved' = Append(moved, 0)  BY DEF Start
<1>3. PICK o \in {"flying", "raised"} : outcome' = Append(outcome, o)  BY DEF Start
<1>4. /\ ended' \in Seq({"no", "exn", "done"}) /\ Len(ended') = Len(outcome) + 1
      /\ \A t \in 1 .. Len(outcome) : ended'[t] = ended[t]
      /\ ended'[Len(outcome) + 1] = "no"
  BY <1>1, <1>2, AppendProperties
<1>5. /\ moved' \in Seq(Nat) /\ Len(moved') = Len(outcome) + 1
      /\ \A t \in 1 .. Len(outcome) : moved'[t] = moved[t]
  BY <1>1, <1>2, AppendProperties
<1>6. /\ outcome' \in Seq({"flying", "raised", "exn", "done"})
      /\ Len(outcome') = Len(outcome) + 1
      /\ \A t \in 1 .. Len(outcome) : outcome'[t] = outcome[t]
      /\ outcome'[Len(outcome) + 1] = o
  BY <1>1, <1>3, AppendProperties
<1> QED BY <1>4, <1>5, <1>6 DEF Started

(* An operation is put to the end of a helper thread's queue.              *)
LEMMA HelperAppend ==
  ASSUME helper \in [Helpers -> Seq(AnyOp \cup {Exit})],
         NEW H \in SUBSET Helpers, NEW e \in AnyOp \cup {Exit},
         helper' \in [Helpers -> Seq(AnyOp \cup {Exit})],
         \A h \in Helpers : helper'[h] = IF h \in H THEN Append(helper[h], e) ELSE helper[h]
  PROVE  \A h \in Helpers :
           /\ Len(helper[h]) \in Nat
           /\ h \notin H => helper'[h] = helper[h]
           /\ h \in H => /\ Len(helper'[h]) = Len(helper[h]) + 1
                         /\ \A i \in 1 .. Len(helper[h]) : helper'[h][i] = helper[h][i]
                         /\ helper'[h][Len(helper[h]) + 1] = e
<1> SUFFICES ASSUME NEW h \in Helpers
             PROVE  /\ Len(helper[h]) \in Nat
                    /\ h \notin H => helper'[h] = helper[h]
                    /\ h \in H => /\ Len(helper'[h]) = Len(helper[h]) + 1
                                  /\ \A i \in 1 .. Len(helper[h]) : helper'[h][i] = helper[h][i]
                                  /\ helper'[h][Len(helper[h]) + 1] = e
  OBVIOUS
<1>1. helper[h] \in Seq(AnyOp \cup {Exit})  OBVIOUS
<1>2. Len(helper[h]) \in Nat  BY <1>1, LenProperties
<1>3. CASE h \in H
  <2>1. helper'[h] = Append(helper[h], e)  BY <1>3
  <2> QED BY <1>1, <1>2, <1>3, <2>1, AppendProperties
<1>4. CASE h \notin H  BY <1>2, <1>4
<1> QED BY <1>3, <1>4

LEMMA StartWay ==
  ASSUME IInv, NEW d \in Descrs, NEW kind \in Kinds, Start(d, kind),
         NEW op,
         op = [id |-> FreeList[lastId], kind |-> kind, ticket |-> Started + 1,
               buf |-> IF avail = <<>> THEN Len(content) + 1 ELSE Head(avail)]
  PROVE  /\ kernel' \subseteq Async \X AnyOp
         /\ helper' \in [Helpers -> Seq(AnyOp \cup {Exit})]
         /\ \A x \in AnyOp : Performing(x)' =>
              Performing(x) \/ (x = op /\ outcome'[op.ticket] = "flying")
         /\ \A p, q \in kernel' : p[2] = q[2] => p = q
         /\ \A h, g \in Helpers : \A i \in 1 .. Len(helper'[h]), j \in 1 .. Len(helper'[g]) :
              helper'[h][i] = helper'[g][j] => helper'[h][i] = Exit \/ (h = g /\ i = j)
         /\ \A x \in AnyOp : ~(InKernel(x)' /\ InHelper(x)')
<1>1. op \in AnyOp /\ op.ticket = Started + 1  BY ZenonT(60), StartOp
<1>2. ~Way(op)
  <2>1. op.ticket \notin 1 .. Started
    BY <1>1, LenProperties DEF IInv, Types, Started
  <2> QED BY <1>1, <2>1, WayOwned
<1>t. /\ kernel \subseteq Async \X AnyOp
      /\ helper \in [Helpers -> Seq(AnyOp \cup {Exit})]
      /\ \A p, q \in kernel : p[2] = q[2] => p = q
      /\ \A h, g \in Helpers : \A i \in 1 .. Len(helper[h]), j \in 1 .. Len(helper[g]) :
           helper[h][i] = helper[g][j] => helper[h][i] = Exit \/ (h = g /\ i = j)
      /\ \A x \in AnyOp : ~(InKernel(x) /\ InHelper(x))
  BY DEF IInv, Types, Once
<1>o. (StartIo(d, op) /\ outcome' = Append(outcome, "flying")) \/ UNCHANGED <<kernel, helper>>
  BY DEF Start
<1>n. ~InKernel(op) /\ ~InHelper(op)  BY <1>2 DEF Way, Performing
<1>3. CASE OverlappedAction(d, op) /\ outcome' = Append(outcome, "flying")
  <2>1. d \in Async /\ kernel' = kernel \cup {<<d, op>>} /\ helper' = helper
    BY <1>3 DEF OverlappedAction
  <2>2. outcome'[op.ticket] = "flying"
    BY <1>1, <1>3, AppendProperties DEF IInv, Types, Started
  <2>3. \A x \in AnyOp : InKernel(x)' <=> InKernel(x) \/ x = op
    BY <1>1, <2>1 DEF InKernel
  <2>4. \A x \in AnyOp : InHelper(x)' <=> InHelper(x)  BY <2>1 DEF InHelper
  <2>5. \A p, q \in kernel' : p[2] = q[2] => p = q
    <3>1. \A p \in kernel : p \in Async \X AnyOp /\ p = <<p[1], p[2]>>  BY <1>t
    <3>2. \A p \in kernel : p[2] # op  BY <1>n, <3>1 DEF InKernel
    <3> QED BY <1>t, <2>1, <3>2
  <2> QED BY <1>1, <1>t, <1>n, <2>1, <2>2, <2>3, <2>4, <2>5 DEF Performing
<1>4. CASE ThreadIo(d, op) /\ outcome' = Append(outcome, "flying")
  <2> DEFINE h0 == <<d, op.kind>>
  <2>1. h0 \in Helpers
    BY <1>1, <1>4 DEF ThreadIo, Helpers, AnyOp
  <2>2. kernel' = kernel /\ helper' = [helper EXCEPT ![h0] = Append(@, op)]
    BY <1>4 DEF ThreadIo
  <2> HIDE DEF h0
  <2>3. outcome'[op.ticket] = "flying"
    BY <1>1, <1>4, AppendProperties DEF IInv, Types, Started
  <2>4. Append(helper[h0], op) \in Seq(AnyOp \cup {Exit})
    BY <1>1, <1>t, <2>1, AppendProperties
  <2>5. /\ helper' \in [Helpers -> Seq(AnyOp \cup {Exit})]
        /\ helper'[h0] = Append(helper[h0], op)
        /\ \A h \in Helpers : h # h0 => helper'[h] = helper[h]
    BY <1>t, <2>1, <2>2, <2>4
  <2>6. /\ Len(helper[h0]) \in Nat /\ Len(helper'[h0]) = Len(helper[h0]) + 1
        /\ \A k \in 1 .. Len(helper[h0]) : helper'[h0][k] = helper[h0][k]
        /\ helper'[h0][Len(helper[h0]) + 1] = op
    <3>1. helper[h0] \in Seq(AnyOp \cup {Exit})  BY <1>t, <2>1
    <3>2. op \in AnyOp \cup {Exit}  BY <1>1
    <3> QED BY <2>5, <3>1, <3>2, AppendProperties, LenProperties
  <2>7. \A h \in Helpers : \A i \in 1 .. Len(helper'[h]) :
          \/ i \in 1 .. Len(helper[h]) /\ helper'[h][i] = helper[h][i]
          \/ h = h0 /\ i = Len(helper[h]) + 1 /\ helper'[h][i] = op
    <3> SUFFICES ASSUME NEW h \in Helpers, NEW i \in 1 .. Len(helper'[h])
                 PROVE  \/ i \in 1 .. Len(helper[h]) /\ helper'[h][i] = helper[h][i]
                        \/ h = h0 /\ i = Len(helper[h]) + 1 /\ helper'[h][i] = op
      OBVIOUS
    <3>1. CASE h # h0
      <4>1. helper'[h] = helper[h]  BY <2>5, <3>1
      <4> QED BY <4>1
    <3>2. CASE h = h0
      <4>1. i \in 1 .. Len(helper[h0]) \/ i = Len(helper[h0]) + 1  BY <2>6, <3>2
      <4> QED BY <2>6, <3>2, <4>1
    <3> QED BY <3>1, <3>2
  <2>8. \A h \in Helpers : \A i \in 1 .. Len(helper[h]) : helper[h][i] # op
    BY <1>n DEF InHelper
  <2>9. \A x \in AnyOp : InHelper(x)' => InHelper(x) \/ x = op
    BY <2>7 DEF InHelper
  <2>10. \A x \in AnyOp : InKernel(x)' <=> InKernel(x)  BY <2>2 DEF InKernel
  <2>11. \A h, g \in Helpers : \A i \in 1 .. Len(helper'[h]), j \in 1 .. Len(helper'[g]) :
           helper'[h][i] = helper'[g][j] => helper'[h][i] = Exit \/ (h = g /\ i = j)
    <3> SUFFICES ASSUME NEW h \in Helpers, NEW g \in Helpers,
                        NEW i \in 1 .. Len(helper'[h]), NEW j \in 1 .. Len(helper'[g]),
                        helper'[h][i] = helper'[g][j], helper'[h][i] # Exit
                 PROVE  h = g /\ i = j
      OBVIOUS
    <3>1. CASE helper'[h][i] = op
      <4>1. h = h0 /\ i = Len(helper[h]) + 1  BY <2>7, <2>8, <3>1
      <4>2. helper'[g][j] = op  BY <3>1
      <4>3. g = h0 /\ j = Len(helper[g]) + 1  BY <2>7, <2>8, <4>2
      <4> QED BY <4>1, <4>3
    <3>2. CASE helper'[h][i] # op
      <4>1. i \in 1 .. Len(helper[h]) /\ helper'[h][i] = helper[h][i]  BY <2>7, <3>2
      <4>2. j \in 1 .. Len(helper[g]) /\ helper'[g][j] = helper[g][j]  BY <2>7, <3>2
      <4>3. helper[h][i] = helper[g][j] /\ helper[h][i] # Exit  BY <4>1, <4>2
      <4> QED BY <1>t, <4>1, <4>2, <4>3
    <3> QED BY <3>1, <3>2
  <2> QED BY <1>t, <1>n, <2>2, <2>3, <2>5, <2>9, <2>10, <2>11 DEF Performing
<1>5. CASE UNCHANGED <<kernel, helper>>
  <2>1. kernel' = kernel /\ helper' = helper  BY <1>5
  <2>2. \A x \in AnyOp : (InKernel(x)' <=> InKernel(x)) /\ (InHelper(x)' <=> InHelper(x))
    BY <2>1 DEF InKernel, InHelper
  <2> QED BY <1>t, <2>1, <2>2 DEF Performing
<1> QED BY <1>o, <1>3, <1>4, <1>5 DEF StartIo

(* Whose result an entry of the queues is.                                 *)
LEMMA QueuedOps ==
  ASSUME IInv
  PROVE  /\ \A i \in 1 .. Len(apc) : apc[i].op \in AnyOp /\ Way(apc[i].op)
         /\ \A i \in 1 .. Len(events) : events[i].op \in AnyOp /\ Way(events[i].op)
<1>1. apc \in Seq(AnyInfo) /\ events \in Seq(AnyInfo)  BY DEF IInv, Types
<1>2. \A i \in 1 .. Len(apc) : apc[i] \in AnyInfo  BY <1>1, ElementOfSeq
<1>3. \A i \in 1 .. Len(events) : events[i] \in AnyInfo  BY <1>1, ElementOfSeq
<1> QED BY <1>2, <1>3 DEF AnyInfo, Way, InApc, InEvents

(* What is being performed has no result yet.                              *)
LEMMA NotQueued ==
  ASSUME IInv, NEW x \in AnyOp, Performing(x)
  PROVE  /\ \A i \in 1 .. Len(apc) : apc[i].op # x
         /\ \A i \in 1 .. Len(events) : events[i].op # x
  BY DEF IInv, Progress, Done, Result

(* A result only depends on what is known of its operation.                *)
LEMMA SameResult ==
  ASSUME NEW e, NEW end, NEW mov, NEW con, Result(e, end, mov, con),
         NEW end2, NEW mov2, NEW con2,
         end2[e.op.ticket] = end[e.op.ticket], mov2[e.op.ticket] = mov[e.op.ticket],
         con2[e.op.buf] = con[e.op.buf]
  PROVE  Result(e, end2, mov2, con2)
  BY DEF Result

(* What this loop does changes nothing for the loops around it.            *)
LEMMA SameStack ==
  ASSUME Stacked, outer' = outer, base' = base, base <= Len(events')
  PROVE  Stacked'
  BY DEF Stacked, Frame

(* A loop is entered inside this one.                                      *)
LEMMA NestStack ==
  ASSUME IInv, ret \in Nat, Nest
  PROVE  Stacked'
<1> DEFINE f == [ret |-> ret, base |-> base, pc |-> pc]
<1>1. /\ outer' = Append(outer, f) /\ pc \in Threads /\ events' = events
      /\ base' = base \/ base' = Len(events)
  BY DEF Nest, queuevars
<1>2. /\ outer \in Seq(Frame) /\ base \in Nat /\ base <= Len(events) /\ Len(events) \in Nat
      /\ \A i \in 1 .. Len(outer) :
           outer[i].base <= base /\ \A j \in 1 .. i : outer[j].base <= outer[i].base
  BY LenProperties DEF IInv, Stacked, Types
<1>3. f \in Frame /\ f.base = base  BY <1>1, <1>2 DEF Frame
<1> HIDE DEF f
<1>4. /\ outer' \in Seq(Frame) /\ Len(outer') = Len(outer) + 1 /\ Len(outer) \in Nat
      /\ \A i \in 1 .. Len(outer) : outer'[i] = outer[i]
      /\ outer'[Len(outer) + 1] = f
  BY <1>1, <1>2, <1>3, AppendProperties, LenProperties
<1>5. base' \in Nat /\ base' <= Len(events) /\ base <= base'  BY <1>1, <1>2
<1>6. \A i \in 1 .. Len(outer) : outer[i].base \in Nat
  <2>1. \A i \in 1 .. Len(outer) : outer[i] \in Frame  BY <1>2, ElementOfSeq
  <2> QED BY <2>1 DEF Frame
<1>7. \A i \in 1 .. Len(outer') :
        outer'[i].base <= base' /\ \A j \in 1 .. i : outer'[j].base <= outer'[i].base
  <2> SUFFICES ASSUME NEW i \in 1 .. Len(outer')
               PROVE  outer'[i].base <= base' /\ \A j \in 1 .. i : outer'[j].base <= outer'[i].base
    OBVIOUS
  <2>1. CASE i \in 1 .. Len(outer)
    <3>1. \A j \in 1 .. i : j \in 1 .. Len(outer)  BY <1>4, <2>1
    <3> QED BY <1>2, <1>4, <1>5, <1>6, <2>1, <3>1
  <2>2. CASE i = Len(outer) + 1
    <3>1. \A j \in 1 .. i : j \in 1 .. Len(outer) \/ j = i  BY <1>4, <2>2
    <3> QED BY <1>2, <1>3, <1>4, <1>5, <2>2, <3>1
  <2> QED BY <1>4, <2>1, <2>2
<1> QED BY <1>1, <1>4, <1>5, <1>7 DEF Stacked, Frame

(* The first elements of a list, and the others                            *)
LEMMA Parts ==
  ASSUME NEW X, NEW s \in Seq(X), NEW k \in 0 .. Len(s)
  PROVE  /\ SubSeq(s, 1, k) \in Seq(X) /\ Len(SubSeq(s, 1, k)) = k
         /\ \A i \in 1 .. k : SubSeq(s, 1, k)[i] = s[i]
         /\ SubSeq(s, k + 1, Len(s)) \in Seq(X) /\ Len(SubSeq(s, k + 1, Len(s))) = Len(s) - k
         /\ \A i \in 1 .. Len(s) - k : SubSeq(s, k + 1, Len(s))[i] = s[k + i]
<1>1. Len(s) \in Nat /\ k \in Nat  BY LenProperties
<1> QED BY <1>1

(* This loop ends, and the one around it goes on.                          *)
LEMMA ResumeStack ==
  ASSUME IInv, Resume, events' = events
  PROVE  /\ Stacked'
         /\ ret' \in Nat /\ pc' \in Threads
<1>1. /\ outer # <<>> /\ outer' = Front(outer)
      /\ ret' = Last(outer).ret /\ base' = Last(outer).base /\ pc' = Last(outer).pc
  BY DEF Resume
<1>2. /\ outer \in Seq(Frame) /\ base \in Nat /\ base <= Len(events) /\ Len(events) \in Nat
      /\ \A i \in 1 .. Len(outer) :
           outer[i].base <= base /\ \A j \in 1 .. i : outer[j].base <= outer[i].base
  BY LenProperties DEF IInv, Stacked, Types
<1>3. Len(outer) \in Nat /\ Len(outer) # 0  BY <1>1, <1>2, EmptySeq, LenProperties
<1> DEFINE n == Len(outer)
<1>4. n \in 1 .. n /\ Last(outer) = outer[n]  BY <1>3 DEF Last
<1>5. outer[n] \in Frame  BY <1>2, <1>4, ElementOfSeq
<1>6. ret' \in Nat /\ pc' \in Threads /\ base' \in Nat  BY <1>1, <1>4, <1>5 DEF Frame
<1>7. outer' = SubSeq(outer, 1, n - 1)  BY <1>1 DEF Front
<1>8. /\ outer' \in Seq(Frame) /\ Len(outer') = n - 1
      /\ \A i \in 1 .. n - 1 : outer'[i] = outer[i]
  <2>1. /\ SubSeq(outer, 1, n - 1) \in Seq(Frame)
        /\ Len(SubSeq(outer, 1, n - 1)) = n - 1
        /\ \A i \in 1 .. n - 1 : SubSeq(outer, 1, n - 1)[i] = outer[i]
    <3>1. n - 1 \in 0 .. Len(outer)  BY <1>3
    <3> HIDE DEF n
    <3> QED BY <1>2, <3>1, Parts
  <2> QED BY <1>7, <2>1
<1>9. \A i \in 1 .. Len(outer') : i \in 1 .. n /\ outer'[i] = outer[i] /\ i \in 1 .. n - 1
  BY <1>3, <1>8
<1>10. \A i \in 1 .. Len(outer') :
         outer'[i].base <= base' /\ \A j \in 1 .. i : outer'[j].base <= outer'[i].base
  <2> SUFFICES ASSUME NEW i \in 1 .. Len(outer')
               PROVE  outer'[i].base <= base' /\ \A j \in 1 .. i : outer'[j].base <= outer'[i].base
    OBVIOUS
  <2>1. outer[i].base <= outer[n].base  BY <1>2, <1>4, <1>9
  <2>2. \A j \in 1 .. i : j \in 1 .. Len(outer')  BY <1>3, <1>8
  <2> QED BY <1>1, <1>2, <1>4, <1>9, <2>1, <2>2
<1>11. base' <= Len(events')
  <2>1. outer[n].base <= base  BY <1>2, <1>4
  <2> QED BY <1>1, <1>2, <1>4, <1>6, <2>1
<1> QED BY <1>6, <1>8, <1>10, <1>11 DEF Stacked

LEMMA StartStep ==
  ASSUME IInv, NEW d \in Descrs, NEW kind \in Kinds, Start(d, kind)
  PROVE  IInv'
<1> DEFINE new == [id |-> FreeList[lastId], kind |-> kind, ticket |-> Started + 1,
                   buf |-> IF avail = <<>> THEN Len(content) + 1 ELSE Head(avail)]
<1>0. PICK op : op = new  OBVIOUS
<1>1. /\ op \in AnyOp
      /\ op.id \notin DOMAIN ioInFlight /\ op.ticket = Started + 1 /\ op.kind = kind
      /\ DOMAIN ioInFlight' = DOMAIN ioInFlight \cup {op.id}
      /\ ioInFlight'[op.id] = op
      /\ \A i \in DOMAIN ioInFlight : ioInFlight'[i] = ioInFlight[i]
  <2>1. /\ op \in AnyOp
        /\ op.id \notin DOMAIN ioInFlight /\ op.ticket = Started + 1 /\ op.kind = kind
    BY ZenonT(60), <1>0, StartOp
  <2>2. DOMAIN ioInFlight' = DOMAIN ioInFlight \cup {op.id}  BY ZenonT(60), <1>0, StartOp
  <2>3. ioInFlight'[op.id] = op  BY ZenonT(60), <1>0, StartOp
  <2>4. \A i \in DOMAIN ioInFlight : ioInFlight'[i] = ioInFlight[i]  BY <1>0, StartOp
  <2> QED BY <2>1, <2>2, <2>3, <2>4
<1>t. ioInFlight' \in [DOMAIN ioInFlight' -> AnyOp]
  <2>1. ioInFlight' = With(ioInFlight, op.id, op)  BY <1>0 DEF Start
  <2>2. ioInFlight \in [DOMAIN ioInFlight -> AnyOp]  BY DEF IInv, Types
  <2>3. ioInFlight' \in [DOMAIN ioInFlight \cup {op.id} -> AnyOp]
    BY <1>1, <2>1, <2>2 DEF With
  <2> QED BY <1>1, <2>3
<1>2. /\ content' \in Seq(Nat) /\ avail' \in Seq(Nat \ {0})
      /\ Len(content) <= Len(content')
      /\ op.buf \in 1 .. Len(content')
      /\ \A i \in DOMAIN ioInFlight : op.buf # ioInFlight[i].buf
      /\ \A b \in 1 .. Len(content) : b # op.buf => content'[b] = content[b]
      /\ kind = "write" => content'[op.buf] = op.ticket
      /\ \A k \in 1 .. Len(avail') :
           /\ avail'[k] \in 1 .. Len(content') /\ avail'[k] # op.buf
           /\ \E l \in 1 .. Len(avail) : avail'[k] = avail[l]
           /\ \A l \in 1 .. Len(avail') : avail'[k] = avail'[l] => k = l
  <2>1. GetsBuffer(op)  BY <1>0, StartBuffers
  <2>2. op.kind = kind  BY <1>1
  <2> QED BY <2>1, <2>2, Zenon DEF GetsBuffer
<1>3. /\ outcome' \in Seq({"flying", "raised", "exn", "done"})
      /\ ended' \in Seq({"no", "exn", "done"}) /\ moved' \in Seq(Nat)
      /\ Started' = Started + 1 /\ Len(ended') = Started' /\ Len(moved') = Started'
      /\ \A t \in 1 .. Started :
           outcome'[t] = outcome[t] /\ ended'[t] = ended[t] /\ moved'[t] = moved[t]
      /\ outcome'[Started + 1] \in {"flying", "raised"} /\ ended'[Started + 1] = "no"
  BY StartLists
<1>4. /\ kernel' \subseteq Async \X AnyOp
      /\ helper' \in [Helpers -> Seq(AnyOp \cup {Exit})]
      /\ \A x \in AnyOp : Performing(x)' =>
           Performing(x) \/ (x = op /\ outcome'[op.ticket] = "flying")
      /\ \A p, q \in kernel' : p[2] = q[2] => p = q
      /\ \A h, g \in Helpers : \A i \in 1 .. Len(helper'[h]), j \in 1 .. Len(helper'[g]) :
           helper'[h][i] = helper'[g][j] => helper'[h][i] = Exit \/ (h = g /\ i = j)
      /\ \A x \in AnyOp : ~(InKernel(x)' /\ InHelper(x)')
  BY <1>0, StartWay
<1>5. /\ open' = open /\ apc' = apc /\ events' = events /\ pc' = pc
      /\ outer' = outer /\ base' = base
  BY DEF Start, queuevars, loopvars
<1>6. Started \in Nat /\ Len(content) \in Nat /\ Len(content') \in Nat
  BY <1>2, LenProperties DEF IInv, Types, Started
<1>7. \A x \in AnyOp : Way(x)' => Way(x) \/ (x = op /\ outcome'[op.ticket] = "flying")
  BY <1>4, <1>5 DEF Way, InApc, InEvents
<1>8. \A x \in AnyOp : Way(x) =>
        /\ x.id \in DOMAIN ioInFlight /\ ioInFlight[x.id] = x
        /\ x.ticket \in 1 .. Started /\ x.buf \in 1 .. Len(content) /\ x.buf # op.buf
        /\ outcome[x.ticket] = "flying"
        /\ content'[x.buf] = content[x.buf]
  BY <1>2, WayOwned
<1>9. Types'  BY <1>1, <1>t, <1>2, <1>3, <1>4, <1>5 DEF IInv, Types
<1>10. Owned'
  <2> SUFFICES ASSUME NEW i \in DOMAIN ioInFlight'
               PROVE  /\ ioInFlight'[i].id = i
                      /\ ioInFlight'[i].ticket \in 1 .. Started'
                      /\ ioInFlight'[i].buf \in 1 .. Len(content')
                      /\ \A k \in 1 .. Len(avail') : avail'[k] # ioInFlight'[i].buf
                      /\ \A j \in DOMAIN ioInFlight' :
                           \/ ioInFlight'[i].ticket = ioInFlight'[j].ticket
                           \/ ioInFlight'[i].buf = ioInFlight'[j].buf
                           => i = j
    BY DEF Owned
  <2>o. \A k \in DOMAIN ioInFlight :
          /\ ioInFlight[k].id = k
          /\ ioInFlight[k].ticket \in 1 .. Started
          /\ ioInFlight[k].buf \in 1 .. Len(content)
          /\ \A l \in 1 .. Len(avail) : avail[l] # ioInFlight[k].buf
          /\ \A j \in DOMAIN ioInFlight :
               \/ ioInFlight[k].ticket = ioInFlight[j].ticket
               \/ ioInFlight[k].buf = ioInFlight[j].buf
               => k = j
    BY DEF IInv, Owned
  <2>1. CASE i = op.id
    <3>1. ioInFlight'[i] = op  BY <1>1, <2>1
    <3>2. \A j \in DOMAIN ioInFlight :
            ioInFlight'[j].ticket # op.ticket /\ ioInFlight'[j].buf # op.buf
      BY <1>1, <1>2, <1>6, <2>o
    <3>3. \A j \in DOMAIN ioInFlight' :
            \/ ioInFlight'[i].ticket = ioInFlight'[j].ticket
            \/ ioInFlight'[i].buf = ioInFlight'[j].buf
            => i = j
      <4>1. \A j \in DOMAIN ioInFlight' : j \in DOMAIN ioInFlight \/ j = op.id  BY <1>1
      <4>2. \A j \in DOMAIN ioInFlight : ioInFlight'[j] = ioInFlight[j]  BY <1>1
      <4> QED BY <2>1, <3>1, <3>2, <4>1, <4>2
    <3>4. op.ticket \in 1 .. Started'  BY <1>1, <1>3, <1>6
    <3>5. op.buf \in 1 .. Len(content') /\ \A k \in 1 .. Len(avail') : avail'[k] # op.buf
      BY <1>2
    <3> QED BY <2>1, <3>1, <3>3, <3>4, <3>5
  <2>2. CASE i \in DOMAIN ioInFlight
    <3>1. ioInFlight'[i] = ioInFlight[i]  BY <1>1, <2>2
    <3>2. ioInFlight[i].ticket # op.ticket /\ ioInFlight[i].buf # op.buf
      BY <1>1, <1>2, <1>6, <2>2, <2>o
    <3>3. /\ ioInFlight[i].ticket \in 1 .. Started'
          /\ ioInFlight[i].buf \in 1 .. Len(content')
      BY <1>2, <1>3, <1>6, <2>2, <2>o
    <3>4. \A k \in 1 .. Len(avail') : avail'[k] # ioInFlight[i].buf
      <4>1. \A k \in 1 .. Len(avail') : \E l \in 1 .. Len(avail) : avail'[k] = avail[l]
        BY <1>2
      <4>2. \A l \in 1 .. Len(avail) : avail[l] # ioInFlight[i].buf  BY <2>2, <2>o
      <4> QED BY <4>1, <4>2
    <3>5. \A j \in DOMAIN ioInFlight' :
            \/ ioInFlight'[i].ticket = ioInFlight'[j].ticket
            \/ ioInFlight'[i].buf = ioInFlight'[j].buf
            => i = j
      BY <1>1, <2>2, <2>o, <3>1, <3>2
    <3> QED BY <2>2, <2>o, <3>1, <3>3, <3>4, <3>5
  <2> QED BY <1>1, <2>1, <2>2
<1>11. Available'  BY <1>2 DEF Available
<1>12. IdsFree'  BY StartIds DEF IInv
<1>13. Once'
  <2>1. \A x \in AnyOp : (InApc(x)' <=> InApc(x)) /\ (InEvents(x)' <=> InEvents(x))
    BY <1>5 DEF InApc, InEvents
  <2>2. \A x \in AnyOp : ~(InApc(x) /\ InEvents(x))  BY DEF IInv, Once
  <2>3. /\ \A i, j \in 1 .. Len(apc') : apc'[i].op = apc'[j].op => i = j
        /\ \A i, j \in 1 .. Len(events') : events'[i].op = events'[j].op => i = j
    BY <1>5 DEF IInv, Once
  <2> QED BY <1>4, <2>1, <2>2, <2>3 DEF Once
<1>14. Registered'
  <2> SUFFICES ASSUME NEW x \in AnyOp, Way(x)'
               PROVE  /\ x.id \in DOMAIN ioInFlight' /\ ioInFlight'[x.id] = x
                      /\ outcome'[x.ticket] = "flying"
    BY DEF Registered
  <2>1. CASE Way(x)  BY <1>1, <1>3, <1>8, <2>1
  <2>2. CASE x = op /\ outcome'[op.ticket] = "flying"  BY <1>1, <2>2
  <2> QED BY <1>7, <2>1, <2>2
<1>15. Progress'
  <2>1. ASSUME NEW x \in AnyOp, Performing(x)'
        PROVE  ended'[x.ticket] = "no" /\ (x.kind = "write" => content'[x.buf] = x.ticket)
    <3>1. CASE Performing(x)
      <4>1. Way(x)  BY <3>1 DEF Way
      <4>2. ended[x.ticket] = "no" /\ (x.kind = "write" => content[x.buf] = x.ticket)
        BY <3>1 DEF IInv, Progress
      <4> QED BY <1>3, <1>8, <4>1, <4>2
    <3>2. CASE x = op  BY <1>1, <1>2, <1>3, <3>2
    <3> QED BY <1>4, <2>1, <3>1, <3>2
  <2>2. \A x \in AnyOp : Way(x) =>
          /\ ended'[x.ticket] = ended[x.ticket] /\ moved'[x.ticket] = moved[x.ticket]
          /\ content'[x.buf] = content[x.buf]
    BY <1>3, <1>8
  <2>3. /\ \A i \in 1 .. Len(apc) : Result(apc[i], ended, moved, content)
        /\ \A i \in 1 .. Len(events) :
             /\ Result(events[i], ended, moved, content)
             /\ events[i].err <=> events[i].len = -1
    BY DEF IInv, Progress, Done
  <2>4. \A i \in 1 .. Len(apc) : Result(apc[i], ended', moved', content')
    BY <2>2, <2>3, QueuedOps, SameResult
  <2>5. \A i \in 1 .. Len(events) : Result(events[i], ended', moved', content')
    BY <2>2, <2>3, QueuedOps, SameResult
  <2> QED BY <1>5, <2>1, <2>3, <2>4, <2>5 DEF Progress, Done
<1>16. OwnResult'
  <2>1. DOMAIN outcome' = 1 .. Started + 1 /\ DOMAIN outcome = 1 .. Started
    BY <1>3, LenProperties DEF Started, IInv, Types
  <2>2. \A t \in 1 .. Started + 1 : t \in 1 .. Started \/ t = Started + 1
    BY <1>6
  <2> QED BY <1>3, <2>1, <2>2 DEF OwnResult, IInv
<1>17. Stacked'  BY <1>5, SameStack DEF IInv, Stacked
<1> QED BY <1>9, <1>10, <1>11, <1>12, <1>13, <1>14, <1>15, <1>16, <1>17 DEF IInv

-----------------------------------------------------------------------------
(* Nothing happens to the operations; a helper thread may be told to leave *)
(* or leave, and the loop goes on.                                         *)
Unaffected == <<kernel, queuevars, idvars, datavars>>

HelperOnce ==
  \A h, g \in Helpers : \A i \in 1 .. Len(helper[h]), j \in 1 .. Len(helper[g]) :
    helper[h][i] = helper[g][j] => helper[h][i] = Exit \/ (h = g /\ i = j)

LEMMA OtherStep ==
  ASSUME IInv, UNCHANGED Unaffected, open' \subseteq Descrs,
         helper' \in [Helpers -> Seq(AnyOp \cup {Exit})],
         \A x \in AnyOp : InHelper(x)' => InHelper(x),
         HelperOnce', Stacked'
  PROVE  IInv'
<1>1. /\ kernel' = kernel /\ apc' = apc /\ events' = events
      /\ ioInFlight' = ioInFlight /\ lastId' = lastId /\ freeList' = freeList /\ avail' = avail
      /\ content' = content /\ ended' = ended /\ moved' = moved /\ outcome' = outcome
  BY DEF Unaffected, queuevars, idvars, datavars
<1>2. Types'  BY <1>1 DEF IInv, Types, Started
<1>3. Owned' /\ Available' /\ IdsFree' /\ OwnResult'
  <2>1. Owned'  BY <1>1 DEF IInv, Owned, Started
  <2>2. Available'  BY <1>1 DEF IInv, Available
  <2>3. IdsFree'
    <3>1. PICK size \in Nat \ {0} : Identifiers(size)  BY DEF IInv, IdsFree
    <3>2. ioInFlight' = ioInFlight /\ lastId' = lastId /\ freeList' = freeList  BY <1>1
    <3>3. Identifiers(size)'  BY <3>1, <3>2 DEF Identifiers
    <3> QED BY <3>3 DEF IdsFree
  <2>4. OwnResult'  BY <1>1 DEF IInv, OwnResult
  <2> QED BY <2>1, <2>2, <2>3, <2>4
<1>4. \A x \in AnyOp : /\ InKernel(x)' <=> InKernel(x)
                       /\ InApc(x)' <=> InApc(x)
                       /\ InEvents(x)' <=> InEvents(x)
  BY <1>1 DEF InKernel, InApc, InEvents
<1>5. \A x \in AnyOp : (Performing(x)' => Performing(x)) /\ (Way(x)' => Way(x))
  BY <1>4 DEF Performing, Way
<1>6. Once'
  <2>1. /\ \A p, q \in kernel : p[2] = q[2] => p = q
        /\ \A i, j \in 1 .. Len(apc) : apc[i].op = apc[j].op => i = j
        /\ \A i, j \in 1 .. Len(events) : events[i].op = events[j].op => i = j
        /\ \A op \in AnyOp : ~(InKernel(op) /\ InHelper(op)) /\ ~(InApc(op) /\ InEvents(op))
    BY DEF IInv, Once
  <2>2. \A op \in AnyOp : ~(InKernel(op)' /\ InHelper(op)') /\ ~(InApc(op)' /\ InEvents(op)')
    BY <1>4, <2>1
  <2> QED BY <1>1, <2>1, <2>2 DEF Once, HelperOnce
<1>7. Registered'  BY <1>1, <1>5 DEF IInv, Registered
<1>8. Progress'  BY <1>1, <1>5 DEF IInv, Progress, Done
<1> QED BY <1>2, <1>3, <1>6, <1>7, <1>8 DEF IInv

(* The helper threads and their queues do not change at all.               *)
LEMMA LoopStep ==
  ASSUME IInv, UNCHANGED <<Unaffected, open, helper>>, Stacked'
  PROVE  IInv'
<1>1. UNCHANGED Unaffected /\ open' = open /\ helper' = helper  OBVIOUS
<1>2. open' \subseteq Descrs /\ helper' \in [Helpers -> Seq(AnyOp \cup {Exit})]
  BY <1>1 DEF IInv, Types
<1>3. \A x \in AnyOp : InHelper(x)' => InHelper(x)  BY <1>1 DEF InHelper
<1>4. HelperOnce'  BY <1>1 DEF IInv, Once, HelperOnce
<1> QED BY <1>1, <1>2, <1>3, <1>4, OtherStep

LEMMA CloseStep ==
  ASSUME IInv, NEW d \in Descrs, Close(d)
  PROVE  IInv'
<1> DEFINE H == {h \in Helpers : h[1] = d /\ h \in thread}
<1>1. /\ open' = open \ {d} /\ UNCHANGED <<Unaffected, outer, base>> /\ events' = events
      /\ helper' = [h \in DOMAIN helper |->
                      IF h[1] = d /\ h \in thread THEN Append(helper[h], Exit) ELSE helper[h]]
  BY DEF Close, Unaffected, queuevars, loopvars
<1>2. helper \in [Helpers -> Seq(AnyOp \cup {Exit})] /\ open \subseteq Descrs
  BY DEF IInv, Types
<1>3. \A h \in Helpers : Append(helper[h], Exit) \in Seq(AnyOp \cup {Exit})
  BY <1>2, AppendProperties
<1>4. /\ helper' \in [Helpers -> Seq(AnyOp \cup {Exit})]
      /\ \A h \in Helpers : helper'[h] = IF h \in H THEN Append(helper[h], Exit) ELSE helper[h]
  BY <1>1, <1>2, <1>3
<1> HIDE DEF H
<1>5. H \in SUBSET Helpers /\ Exit \in AnyOp \cup {Exit}  BY DEF H
<1>6. \A h \in Helpers :
        /\ Len(helper[h]) \in Nat
        /\ h \notin H => helper'[h] = helper[h]
        /\ h \in H => /\ Len(helper'[h]) = Len(helper[h]) + 1
                      /\ \A i \in 1 .. Len(helper[h]) : helper'[h][i] = helper[h][i]
                      /\ helper'[h][Len(helper[h]) + 1] = Exit
  BY <1>2, <1>4, <1>5, HelperAppend
<1>7. \A h \in Helpers : \A i \in 1 .. Len(helper'[h]) :
        \/ i \in 1 .. Len(helper[h]) /\ helper'[h][i] = helper[h][i]
        \/ helper'[h][i] = Exit
  <2> SUFFICES ASSUME NEW h \in Helpers, NEW i \in 1 .. Len(helper'[h])
               PROVE  \/ i \in 1 .. Len(helper[h]) /\ helper'[h][i] = helper[h][i]
                      \/ helper'[h][i] = Exit
    OBVIOUS
  <2>1. CASE h \notin H
    <3>1. helper'[h] = helper[h]  BY <1>6, <2>1
    <3> QED BY <3>1
  <2>2. CASE h \in H
    <3>1. /\ Len(helper[h]) \in Nat /\ Len(helper'[h]) = Len(helper[h]) + 1
          /\ \A k \in 1 .. Len(helper[h]) : helper'[h][k] = helper[h][k]
          /\ helper'[h][Len(helper[h]) + 1] = Exit
      BY <1>6, <2>2
    <3>2. i \in 1 .. Len(helper[h]) \/ i = Len(helper[h]) + 1  BY <3>1
    <3> QED BY <3>1, <3>2
  <2> QED BY <2>1, <2>2
<1>8. \A x \in AnyOp : InHelper(x)' => InHelper(x)
  BY <1>7, ExitIsNoOp DEF InHelper
<1>9. HelperOnce'
  <2>1. \A x, y \in Helpers : \A k \in 1 .. Len(helper[x]), l \in 1 .. Len(helper[y]) :
          helper[x][k] = helper[y][l] => helper[x][k] = Exit \/ (x = y /\ k = l)
    BY DEF IInv, Once
  <2> SUFFICES ASSUME NEW h \in Helpers, NEW g \in Helpers,
                      NEW i \in 1 .. Len(helper'[h]), NEW j \in 1 .. Len(helper'[g]),
                      helper'[h][i] = helper'[g][j], helper'[h][i] # Exit
               PROVE  h = g /\ i = j
    BY DEF HelperOnce
  <2>2. i \in 1 .. Len(helper[h]) /\ helper'[h][i] = helper[h][i]  BY <1>7
  <2>3. j \in 1 .. Len(helper[g]) /\ helper'[g][j] = helper[g][j]  BY <1>7
  <2>4. helper[h][i] = helper[g][j] /\ helper[h][i] # Exit  BY <2>2, <2>3
  <2> QED BY <2>1, <2>2, <2>3, <2>4
<1>10. Stacked'  BY <1>1, SameStack DEF IInv, Stacked
<1>11. open' \subseteq Descrs  BY <1>1, <1>2
<1> QED BY <1>1, <1>4, <1>8, <1>9, <1>10, <1>11, OtherStep

LEMMA ExitsStep ==
  ASSUME IInv, NEW h \in Helpers, HelperExits(h)
  PROVE  IInv'
<1>1. /\ open' = open /\ UNCHANGED <<Unaffected, outer, base>> /\ events' = events
      /\ helper' = [helper EXCEPT ![h] = <<>>]
  BY DEF HelperExits, Unaffected, queuevars, loopvars
<1>2. helper \in [Helpers -> Seq(AnyOp \cup {Exit})] /\ open \subseteq Descrs
  BY DEF IInv, Types
<1>3. /\ helper' \in [Helpers -> Seq(AnyOp \cup {Exit})]
      /\ helper'[h] = <<>> /\ \A g \in Helpers : g # h => helper'[g] = helper[g]
  BY <1>1, <1>2
<1>4. \A g \in Helpers : \A i \in 1 .. Len(helper'[g]) : g # h
  BY <1>3
<1>5. \A x \in AnyOp : InHelper(x)' => InHelper(x)
  BY <1>3, <1>4 DEF InHelper
<1>6. HelperOnce'
  <2>1. \A x, y \in Helpers : \A k \in 1 .. Len(helper[x]), l \in 1 .. Len(helper[y]) :
          helper[x][k] = helper[y][l] => helper[x][k] = Exit \/ (x = y /\ k = l)
    BY DEF IInv, Once
  <2> SUFFICES ASSUME NEW x \in Helpers, NEW y \in Helpers,
                      NEW k \in 1 .. Len(helper'[x]), NEW l \in 1 .. Len(helper'[y]),
                      helper'[x][k] = helper'[y][l]
               PROVE  helper'[x][k] = Exit \/ (x = y /\ k = l)
    BY DEF HelperOnce
  <2>2. helper'[x] = helper[x] /\ helper'[y] = helper[y]  BY <1>3, <1>4
  <2> QED BY <2>1, <2>2
<1>7. Stacked'  BY <1>1, SameStack DEF IInv, Stacked
<1>8. open' \subseteq Descrs  BY <1>1, <1>2
<1> QED BY <1>1, <1>3, <1>5, <1>6, <1>7, <1>8, OtherStep

-----------------------------------------------------------------------------
(* An operation is done: its data are where they belong, and its result is *)
(* queued; nothing changes for the others.                                 *)
LEMMA PerformedStep ==
  ASSUME IInv, NEW op \in AnyOp, Performing(op),
         NEW how \in {"exn", "done"}, NEW len \in {-1, 0, 1}, how = "done" => len = 1,
         Performed(op, how, len),
         kernel' \subseteq kernel, helper' \in [Helpers -> Seq(AnyOp \cup {Exit})],
         \A x \in AnyOp : (InKernel(x)' => InKernel(x) /\ x # op)
                         /\ (InHelper(x)' => InHelper(x) /\ x # op),
         HelperOnce'
  PROVE  IInv'
<1> DEFINE e == [op |-> op, len |-> len, err |-> how = "exn"]
<1>1. /\ apc' = Append(apc, e) /\ events' = events /\ open' = open
      /\ outer' = outer /\ base' = base
      /\ ioInFlight' = ioInFlight /\ lastId' = lastId /\ freeList' = freeList /\ avail' = avail
      /\ outcome' = outcome
      /\ ended' = [ended EXCEPT ![op.ticket] = how]
  BY DEF Performed, idvars, loopvars
<1>2. /\ content' = IF how = "done" /\ op.kind # "write"
                    THEN [content EXCEPT ![op.buf] = op.ticket] ELSE content
      /\ moved' = IF how = "done" /\ op.kind = "write"
                  THEN [moved EXCEPT ![op.ticket] = content[op.buf]] ELSE moved
  BY DEF Performed
<1>e. e \in AnyInfo /\ e.op = op /\ e.len = len /\ (e.err <=> how = "exn")
  BY DEF AnyInfo
<1> HIDE DEF e
<1>3. /\ op.ticket \in 1 .. Started /\ op.buf \in 1 .. Len(content)
      /\ op.ticket \in Nat /\ op.kind \in Kinds
      /\ outcome[op.ticket] = "flying"
  <2>1. Way(op)  BY DEF Way
  <2> QED BY <2>1, WayOwned DEF AnyOp
<1>4. /\ ended \in Seq({"no", "exn", "done"}) /\ moved \in Seq(Nat) /\ content \in Seq(Nat)
      /\ Len(ended) = Started /\ Len(moved) = Started /\ Started \in Nat
  BY LenProperties DEF IInv, Types, Started
<1>5. /\ ended' \in Seq({"no", "exn", "done"}) /\ Len(ended') = Started
      /\ ended'[op.ticket] = how
      /\ \A t \in 1 .. Started : t # op.ticket => ended'[t] = ended[t]
  <2>1. how \in {"no", "exn", "done"}  OBVIOUS
  <2> QED BY <1>1, <1>3, <1>4, <2>1, ExceptSeq
<1>6. /\ content' \in Seq(Nat) /\ Len(content') = Len(content)
      /\ \A b \in 1 .. Len(content) : b # op.buf => content'[b] = content[b]
      /\ how = "done" /\ op.kind = "read" => content'[op.buf] = op.ticket
  <2>1. CASE how = "done" /\ op.kind # "write"
    <3>1. content' = [content EXCEPT ![op.buf] = op.ticket]  BY <1>2, <2>1
    <3> QED BY <1>3, <1>4, <3>1, ExceptSeq
  <2>2. CASE ~(how = "done" /\ op.kind # "write")  BY <1>2, <1>4, <2>2
  <2> QED BY <2>1, <2>2
<1>7. /\ moved' \in Seq(Nat) /\ Len(moved') = Started
      /\ \A t \in 1 .. Started : t # op.ticket => moved'[t] = moved[t]
      /\ how = "done" /\ op.kind = "write" => moved'[op.ticket] = op.ticket
  <2>1. CASE how = "done" /\ op.kind = "write"
    <3>1. content[op.buf] = op.ticket  BY <2>1 DEF IInv, Progress
    <3>2. moved' = [moved EXCEPT ![op.ticket] = op.ticket]  BY <1>2, <2>1, <3>1
    <3> QED BY <1>3, <1>4, <3>2, ExceptSeq
  <2>2. CASE ~(how = "done" /\ op.kind = "write")  BY <1>2, <1>4, <2>2
  <2> QED BY <2>1, <2>2
<1>8. apc \in Seq(AnyInfo) /\ Len(apc) \in Nat  BY LenProperties DEF IInv, Types
<1>9. /\ apc' \in Seq(AnyInfo) /\ Len(apc') = Len(apc) + 1
      /\ \A i \in 1 .. Len(apc) : apc'[i] = apc[i]
      /\ apc'[Len(apc) + 1] = e
  BY <1>1, <1>8, <1>e, AppendProperties
<1>10. \A i \in 1 .. Len(apc') : i \in 1 .. Len(apc) \/ i = Len(apc) + 1  BY <1>8, <1>9
<1>11. \A x \in AnyOp : InApc(x)' => InApc(x) \/ x = op
  BY <1>9, <1>10, <1>e DEF InApc
<1>12. \A x \in AnyOp : InEvents(x)' <=> InEvents(x)  BY <1>1 DEF InEvents
<1>13. ~InApc(op) /\ ~InEvents(op)  BY NotQueued DEF InApc, InEvents
<1>14. \A x \in AnyOp : Way(x)' => Way(x)
  BY <1>11, <1>12 DEF Way, Performing
<1>15. \A x \in AnyOp : Way(x) /\ x # op =>
         /\ ended'[x.ticket] = ended[x.ticket] /\ moved'[x.ticket] = moved[x.ticket]
         /\ content'[x.buf] = content[x.buf]
  <2> SUFFICES ASSUME NEW x \in AnyOp, Way(x), x # op
               PROVE  /\ ended'[x.ticket] = ended[x.ticket] /\ moved'[x.ticket] = moved[x.ticket]
                      /\ content'[x.buf] = content[x.buf]
    OBVIOUS
  <2>1. Way(op)  BY DEF Way
  <2>2. /\ x.ticket \in 1 .. Started /\ x.buf \in 1 .. Len(content)
        /\ x.ticket # op.ticket /\ x.buf # op.buf
    BY <2>1, WayOwned
  <2> QED BY <1>5, <1>6, <1>7, <2>2
<1>16. Types'  BY <1>1, <1>5, <1>6, <1>7, <1>9 DEF IInv, Types, Started
<1>17. Owned' /\ Available' /\ IdsFree'
  <2>1. Owned'  BY <1>1, <1>6 DEF IInv, Owned, Started
  <2>2. Available'  BY <1>1, <1>6 DEF IInv, Available
  <2>3. IdsFree'
    <3>1. PICK size \in Nat \ {0} : Identifiers(size)  BY DEF IInv, IdsFree
    <3>2. ioInFlight' = ioInFlight /\ lastId' = lastId /\ freeList' = freeList  BY <1>1
    <3>3. Identifiers(size)'  BY <3>1, <3>2 DEF Identifiers
    <3> QED BY <3>3 DEF IdsFree
  <2> QED BY <2>1, <2>2, <2>3
<1>18. Once'
  <2>1. /\ \A p, q \in kernel : p[2] = q[2] => p = q
        /\ \A i, j \in 1 .. Len(apc) : apc[i].op = apc[j].op => i = j
        /\ \A i, j \in 1 .. Len(events) : events[i].op = events[j].op => i = j
        /\ \A x \in AnyOp : ~(InKernel(x) /\ InHelper(x)) /\ ~(InApc(x) /\ InEvents(x))
    BY DEF IInv, Once
  <2>2. \A p, q \in kernel' : p[2] = q[2] => p = q  BY <2>1
  <2>3. \A i, j \in 1 .. Len(apc') : apc'[i].op = apc'[j].op => i = j
    <3>1. \A i \in 1 .. Len(apc) : apc[i].op # op  BY NotQueued
    <3> QED BY <1>9, <1>10, <1>e, <2>1, <3>1
  <2>4. \A i, j \in 1 .. Len(events') : events'[i].op = events'[j].op => i = j
    BY <1>1, <2>1
  <2>5. \A x \in AnyOp : ~(InKernel(x)' /\ InHelper(x)') /\ ~(InApc(x)' /\ InEvents(x)')
    BY <1>11, <1>12, <1>13, <2>1
  <2> QED BY <2>2, <2>3, <2>4, <2>5 DEF Once, HelperOnce
<1>19. Registered'  BY <1>1, <1>14 DEF IInv, Registered
<1>20. Progress'
  <2>1. \A x \in AnyOp : Performing(x)' =>
          ended'[x.ticket] = "no" /\ (x.kind = "write" => content'[x.buf] = x.ticket)
    <3> SUFFICES ASSUME NEW x \in AnyOp, Performing(x)'
                 PROVE  ended'[x.ticket] = "no" /\ (x.kind = "write" => content'[x.buf] = x.ticket)
      OBVIOUS
    <3>1. Performing(x) /\ x # op  BY DEF Performing
    <3>2. ended[x.ticket] = "no" /\ (x.kind = "write" => content[x.buf] = x.ticket)
      BY <3>1 DEF IInv, Progress
    <3> QED BY <1>15, <3>1, <3>2 DEF Way
  <2>2. /\ \A i \in 1 .. Len(apc) : Result(apc[i], ended, moved, content)
        /\ \A i \in 1 .. Len(events) :
             /\ Result(events[i], ended, moved, content)
             /\ events[i].err <=> events[i].len = -1
    BY DEF IInv, Progress, Done
  <2>3. \A i \in 1 .. Len(apc) : Result(apc[i], ended', moved', content')
    BY <1>15, <2>2, QueuedOps, NotQueued, SameResult
  <2>4. \A i \in 1 .. Len(events) : Result(events[i], ended', moved', content')
    BY <1>15, <2>2, QueuedOps, NotQueued, SameResult
  <2>5. Result(e, ended', moved', content')
    BY <1>3, <1>5, <1>6, <1>7, <1>e DEF Result, Kinds
  <2>6. \A i \in 1 .. Len(apc') : Result(apc'[i], ended', moved', content')
    BY <1>9, <1>10, <2>3, <2>5
  <2> QED BY <1>1, <2>1, <2>2, <2>4, <2>6 DEF Progress, Done
<1>21. OwnResult'
  <2>1. DOMAIN outcome = 1 .. Started  BY LenProperties DEF IInv, Types, Started
  <2>2. \A t \in 1 .. Started : t # op.ticket =>
          ended'[t] = ended[t] /\ moved'[t] = moved[t]
    BY <1>5, <1>7
  <2> QED BY <1>1, <1>3, <2>1, <2>2 DEF OwnResult, IInv
<1>22. Stacked'  BY <1>1, SameStack DEF IInv, Stacked
<1> QED BY <1>16, <1>17, <1>18, <1>19, <1>20, <1>21, <1>22 DEF IInv

LEMMA KernelStep ==
  ASSUME IInv, NEW d, NEW op, NEW how \in {"exn", "done"}, KernelPerforms(d, op, how)
  PROVE  IInv'
<1> DEFINE len == IF how = "done" THEN 1 ELSE 0
<1>1. /\ <<d, op>> \in kernel /\ kernel' = kernel \ {<<d, op>>} /\ helper' = helper
      /\ Performed(op, how, len)
  BY DEF KernelPerforms
<1>2. len \in {-1, 0, 1} /\ (how = "done" => len = 1)  OBVIOUS
<1> HIDE DEF len
<1>3. /\ kernel \subseteq Async \X AnyOp
      /\ helper \in [Helpers -> Seq(AnyOp \cup {Exit})]
      /\ \A p, q \in kernel : p[2] = q[2] => p = q
      /\ \A x \in AnyOp : ~(InKernel(x) /\ InHelper(x))
  BY DEF IInv, Types, Once
<1>4. op \in AnyOp /\ d \in Async /\ InKernel(op)  BY <1>1, <1>3 DEF InKernel
<1>5. ~InHelper(op) /\ Performing(op)  BY <1>3, <1>4 DEF Performing
<1>6. \A x \in AnyOp : InKernel(x)' => InKernel(x) /\ x # op
  <2> SUFFICES ASSUME NEW x \in AnyOp, NEW c \in Async, <<c, x>> \in kernel'
               PROVE  InKernel(x) /\ x # op
    BY DEF InKernel
  <2>1. <<c, x>> \in kernel /\ <<c, x>> # <<d, op>>  BY <1>1
  <2>2. x = op => <<c, x>> = <<d, op>>  BY <1>1, <1>3, <2>1
  <2> QED BY <2>1, <2>2 DEF InKernel
<1>7. \A x \in AnyOp : InHelper(x)' <=> InHelper(x)  BY <1>1 DEF InHelper
<1>8. HelperOnce'  BY <1>1 DEF IInv, Once, HelperOnce
<1>9. \A x \in AnyOp : (InKernel(x)' => InKernel(x) /\ x # op)
                       /\ (InHelper(x)' => InHelper(x) /\ x # op)
  BY <1>5, <1>6, <1>7
<1>10. kernel' \subseteq kernel /\ helper' \in [Helpers -> Seq(AnyOp \cup {Exit})]
  BY <1>1, <1>3
<1> QED BY <1>1, <1>2, <1>4, <1>5, <1>8, <1>9, <1>10, PerformedStep

LEMMA HelperStep ==
  ASSUME IInv, NEW h \in Helpers, NEW how \in {"exn", "done"}, HelperPerforms(h, how)
  PROVE  IInv'
<1> DEFINE op == Head(helper[h])
           len == IF how = "done" THEN 1 ELSE -1
<1>1. /\ helper[h] # <<>> /\ op # Exit
      /\ helper' = [helper EXCEPT ![h] = Tail(helper[h])] /\ kernel' = kernel
      /\ Performed(op, how, len)
  BY DEF HelperPerforms
<1>2. len \in {-1, 0, 1} /\ (how = "done" => len = 1)  OBVIOUS
<1> HIDE DEF len
<1>3. /\ helper \in [Helpers -> Seq(AnyOp \cup {Exit})]
      /\ \A x, y \in Helpers : \A k \in 1 .. Len(helper[x]), l \in 1 .. Len(helper[y]) :
           helper[x][k] = helper[y][l] => helper[x][k] = Exit \/ (x = y /\ k = l)
      /\ \A x \in AnyOp : ~(InKernel(x) /\ InHelper(x))
  BY DEF IInv, Types, Once
<1>4. helper[h] \in Seq(AnyOp \cup {Exit})  BY <1>3
<1>5. /\ Tail(helper[h]) \in Seq(AnyOp \cup {Exit})
      /\ Len(Tail(helper[h])) = Len(helper[h]) - 1
      /\ \A i \in 1 .. Len(Tail(helper[h])) : Tail(helper[h])[i] = helper[h][i + 1]
      /\ op \in AnyOp \cup {Exit} /\ op = helper[h][1]
      /\ Len(helper[h]) \in Nat /\ Len(helper[h]) # 0
  BY <1>1, <1>4, HeadTailProperties, EmptySeq, LenProperties
<1>6. op \in AnyOp /\ 1 \in 1 .. Len(helper[h])  BY <1>1, <1>5
<1> HIDE DEF op
<1>7. /\ helper' \in [Helpers -> Seq(AnyOp \cup {Exit})]
      /\ helper'[h] = Tail(helper[h])
      /\ \A g \in Helpers : g # h => helper'[g] = helper[g]
  BY <1>1, <1>3, <1>5
<1> DEFINE pos(g, i) == IF g = h THEN i + 1 ELSE i
<1>8. \A g \in Helpers : \A i \in 1 .. Len(helper'[g]) :
        /\ pos(g, i) \in 1 .. Len(helper[g])
        /\ helper'[g][i] = helper[g][pos(g, i)]
        /\ g = h => pos(g, i) # 1
        /\ i \in Nat
  <2> SUFFICES ASSUME NEW g \in Helpers, NEW i \in 1 .. Len(helper'[g])
               PROVE  /\ pos(g, i) \in 1 .. Len(helper[g])
                      /\ helper'[g][i] = helper[g][pos(g, i)]
                      /\ g = h => pos(g, i) # 1
                      /\ i \in Nat
    OBVIOUS
  <2>1. CASE g = h
    <3>1. i \in 1 .. Len(Tail(helper[h]))  BY <1>7, <2>1
    <3>2. i + 1 \in 1 .. Len(helper[h]) /\ i + 1 # 1 /\ i \in Nat  BY <1>5, <3>1
    <3>3. helper'[h][i] = helper[h][i + 1]  BY <1>5, <1>7, <3>1
    <3> QED BY <2>1, <3>2, <3>3
  <2>2. CASE g # h
    <3>1. helper'[g] = helper[g]  BY <1>7, <2>2
    <3> QED BY <2>2, <3>1
  <2> QED BY <2>1, <2>2
<1>9. \A g \in Helpers : \A i, j \in Nat : pos(g, i) = pos(g, j) => i = j  OBVIOUS
<1> HIDE DEF pos
<1>10. InHelper(op)  BY <1>5, <1>6 DEF InHelper
<1>11. ~InKernel(op) /\ Performing(op)  BY <1>3, <1>6, <1>10 DEF Performing
<1>12. \A x \in AnyOp : InHelper(x)' => InHelper(x) /\ x # op
  <2> SUFFICES ASSUME NEW x \in AnyOp, NEW g \in Helpers, NEW i \in 1 .. Len(helper'[g]),
                      helper'[g][i] = x
               PROVE  InHelper(x) /\ x # op
    BY DEF InHelper
  <2>1. /\ pos(g, i) \in 1 .. Len(helper[g]) /\ helper[g][pos(g, i)] = x
        /\ g = h => pos(g, i) # 1
    BY <1>8
  <2>2. InHelper(x)  BY <2>1 DEF InHelper
  <2>3. ASSUME x = op PROVE FALSE
    <3>1. helper[g][pos(g, i)] = helper[h][1] /\ helper[g][pos(g, i)] # Exit
      BY <1>1, <1>5, <2>1, <2>3
    <3>2. g = h /\ pos(g, i) = 1  BY <1>3, <1>6, <2>1, <3>1
    <3> QED BY <2>1, <3>2
  <2> QED BY <2>2, <2>3
<1>13. \A x \in AnyOp : InKernel(x)' <=> InKernel(x)  BY <1>1 DEF InKernel
<1>14. HelperOnce'
  <2> SUFFICES ASSUME NEW x \in Helpers, NEW y \in Helpers,
                      NEW k \in 1 .. Len(helper'[x]), NEW l \in 1 .. Len(helper'[y]),
                      helper'[x][k] = helper'[y][l], helper'[x][k] # Exit
               PROVE  x = y /\ k = l
    BY DEF HelperOnce
  <2>1. /\ pos(x, k) \in 1 .. Len(helper[x]) /\ helper'[x][k] = helper[x][pos(x, k)]
        /\ pos(y, l) \in 1 .. Len(helper[y]) /\ helper'[y][l] = helper[y][pos(y, l)]
        /\ k \in Nat /\ l \in Nat
    BY <1>8
  <2>2. helper[x][pos(x, k)] = helper[y][pos(y, l)] /\ helper[x][pos(x, k)] # Exit
    BY <2>1
  <2>3. x = y /\ pos(x, k) = pos(y, l)  BY <1>3, <2>1, <2>2
  <2> QED BY <1>9, <2>1, <2>3
<1>15. \A x \in AnyOp : (InKernel(x)' => InKernel(x) /\ x # op)
                        /\ (InHelper(x)' => InHelper(x) /\ x # op)
  BY <1>11, <1>12, <1>13
<1>16. kernel' \subseteq kernel  BY <1>1
<1> QED BY <1>1, <1>2, <1>6, <1>7, <1>11, <1>14, <1>15, <1>16, PerformedStep

-----------------------------------------------------------------------------
(* Three lists one after the other                                         *)
LEMMA Joined ==
  ASSUME NEW X, NEW a \in Seq(X), NEW q \in Seq(X), NEW b \in Seq(X)
  PROVE  /\ a \o q \o b \in Seq(X) /\ Len(a \o q \o b) = Len(a) + Len(q) + Len(b)
         /\ \A i \in 1 .. Len(a) + Len(q) + Len(b) :
              (a \o q \o b)[i] = IF i <= Len(a) THEN a[i]
                                 ELSE IF i <= Len(a) + Len(q) THEN q[i - Len(a)]
                                 ELSE b[i - (Len(a) + Len(q))]
<1>1. Len(a) \in Nat /\ Len(q) \in Nat /\ Len(b) \in Nat  BY LenProperties
<1> DEFINE c == a \o q
           t == c \o b
<1>2. /\ c \in Seq(X) /\ Len(c) = Len(a) + Len(q)
      /\ \A i \in 1 .. Len(a) + Len(q) : c[i] = IF i <= Len(a) THEN a[i] ELSE q[i - Len(a)]
  BY ConcatProperties
<1> HIDE DEF c
<1>3. /\ t \in Seq(X) /\ Len(t) = Len(c) + Len(b)
      /\ \A i \in 1 .. Len(c) + Len(b) : t[i] = IF i <= Len(c) THEN c[i] ELSE b[i - Len(c)]
  <2>1. c \in Seq(X)  BY <1>2
  <2> QED BY <2>1, ConcatProperties
<1> HIDE DEF t
<1>4. ASSUME NEW i \in 1 .. Len(a) + Len(q) + Len(b)
      PROVE  t[i] = IF i <= Len(a) THEN a[i]
                    ELSE IF i <= Len(a) + Len(q) THEN q[i - Len(a)]
                    ELSE b[i - (Len(a) + Len(q))]
  <2>1. Len(c) + Len(b) = Len(a) + Len(q) + Len(b)  BY <1>1, <1>2
  <2>2. t[i] = IF i <= Len(c) THEN c[i] ELSE b[i - Len(c)]  BY <1>3, <2>1
  <2>3. CASE i <= Len(a) + Len(q)
    <3>1. i \in 1 .. Len(a) + Len(q)  BY <1>1, <2>3
    <3> QED BY <1>1, <1>2, <2>2, <2>3, <3>1
  <2>4. CASE ~(i <= Len(a) + Len(q))
    <3>1. ~(i <= Len(a))  BY <1>1, <2>4
    <3> QED BY <1>2, <2>2, <2>4, <3>1
  <2> QED BY <2>3, <2>4
<1> QED BY <1>1, <1>2, <1>3, <1>4 DEF t, c

(* The calls queued to the main thread become results to hand on.          *)
LEMMA WaitCompletionStep ==
  ASSUME IInv, WaitCompletion
  PROVE  IInv'
<1> DEFINE own == SubSeq(events, 1, Own)
           rest == SubSeq(events, Own + 1, Len(events))
<1>1. /\ events' = own \o GetQueue \o rest /\ apc' = <<>>
      /\ outer' = outer /\ base' = base
      /\ open' = open /\ kernel' = kernel /\ helper' = helper
      /\ ioInFlight' = ioInFlight /\ lastId' = lastId /\ freeList' = freeList /\ avail' = avail
      /\ content' = content /\ ended' = ended /\ moved' = moved /\ outcome' = outcome
  BY DEF WaitCompletion, devvars, idvars, datavars
<1>2. /\ apc \in Seq(AnyInfo) /\ Len(apc) \in Nat
      /\ events \in Seq(AnyInfo) /\ Len(events) \in Nat
      /\ Own \in 0 .. Len(events) /\ base = Len(events) - Own
  BY LenProperties DEF IInv, Types, Stacked, Own
<1>3. GetQueue = [i \in 1 .. Len(apc) |-> CalledBack(apc[i])]
  BY <1>2 DEF GetQueue, ComplQueue
<1>4. \A i \in 1 .. Len(apc) :
        /\ apc[i] \in AnyInfo
        /\ CalledBack(apc[i]) \in AnyInfo
        /\ CalledBack(apc[i]).op = apc[i].op
        /\ CalledBack(apc[i]).err = apc[i].err
        /\ CalledBack(apc[i]).len = IF apc[i].err THEN -1 ELSE apc[i].len
  <2> SUFFICES ASSUME NEW i \in 1 .. Len(apc)
               PROVE  /\ apc[i] \in AnyInfo
                      /\ CalledBack(apc[i]) \in AnyInfo
                      /\ CalledBack(apc[i]).op = apc[i].op
                      /\ CalledBack(apc[i]).err = apc[i].err
                      /\ CalledBack(apc[i]).len = IF apc[i].err THEN -1 ELSE apc[i].len
    OBVIOUS
  <2>1. apc[i] \in AnyInfo  BY <1>2, ElementOfSeq
  <2> QED BY <2>1 DEF CalledBack, AnyInfo
<1> DEFINE m == Len(apc)
<1>m. m = Len(apc) /\ m \in Nat  BY <1>2
<1>5. /\ GetQueue \in Seq(AnyInfo) /\ Len(GetQueue) = m
      /\ \A i \in 1 .. m : GetQueue[i] = CalledBack(apc[i])
  BY <1>2, <1>3, <1>4
<1>6. apc' \in Seq(AnyInfo) /\ Len(apc') = 0  BY <1>1
<1>i. /\ events' \in Seq(AnyInfo) /\ Len(events') = Len(events) + m
      /\ \A i \in 1 .. Len(events') :
           events'[i] = IF i <= Own THEN own[i]
                        ELSE IF i <= Own + m THEN GetQueue[i - Own]
                        ELSE rest[i - (Own + m)]
  <2>1. own \in Seq(AnyInfo) /\ rest \in Seq(AnyInfo) /\ Len(own) = Own /\ Len(rest) = Len(events) - Own
    <3> HIDE DEF m
    <3> QED BY <1>2, Parts
  <2> HIDE DEF own, rest
  <2>2. Len(own) + Len(GetQueue) + Len(rest) = Len(events) + m  BY <1>2, <1>m, <1>5, <2>1
  <2>3. GetQueue \in Seq(AnyInfo) /\ Len(GetQueue) = m  BY <1>5
  <2> HIDE DEF m
  <2>4. /\ own \o GetQueue \o rest \in Seq(AnyInfo)
        /\ Len(own \o GetQueue \o rest) = Len(own) + Len(GetQueue) + Len(rest)
        /\ \A i \in 1 .. Len(own) + Len(GetQueue) + Len(rest) :
             (own \o GetQueue \o rest)[i]
               = IF i <= Len(own) THEN own[i]
                 ELSE IF i <= Len(own) + Len(GetQueue) THEN GetQueue[i - Len(own)]
                 ELSE rest[i - (Len(own) + Len(GetQueue))]
    <3>1. own \in Seq(AnyInfo) /\ GetQueue \in Seq(AnyInfo) /\ rest \in Seq(AnyInfo)
      BY <2>1, <2>3
    <3> QED BY <3>1, Joined
  <2>5. events' = own \o GetQueue \o rest  BY <1>1
  <2> QED BY <2>1, <2>2, <2>3, <2>4, <2>5
<1>o. /\ \A i \in 1 .. Own : own[i] = events[i]
      /\ \A i \in 1 .. Len(events) - Own : rest[i] = events[Own + i]
  <2> HIDE DEF m
  <2> QED BY <1>2, Parts
<1> HIDE DEF m, own, rest
<1>p. \A i \in 1 .. Len(events') :
        \/ i \in 1 .. Own /\ i \in 1 .. Len(events) /\ events'[i] = events[i]
        \/ /\ i \in Own + 1 .. Own + m /\ i - Own \in 1 .. Len(apc)
           /\ events'[i] = CalledBack(apc[i - Own])
        \/ /\ i \in Own + m + 1 .. Len(events) + m /\ i - m \in Own + 1 .. Len(events)
           /\ i - m \in 1 .. Len(events) /\ events'[i] = events[i - m]
  <2> SUFFICES ASSUME NEW i \in 1 .. Len(events')
               PROVE  \/ i \in 1 .. Own /\ i \in 1 .. Len(events) /\ events'[i] = events[i]
                      \/ /\ i \in Own + 1 .. Own + m /\ i - Own \in 1 .. Len(apc)
                         /\ events'[i] = CalledBack(apc[i - Own])
                      \/ /\ i \in Own + m + 1 .. Len(events) + m /\ i - m \in Own + 1 .. Len(events)
                         /\ i - m \in 1 .. Len(events) /\ events'[i] = events[i - m]
    OBVIOUS
  <2>1. /\ i \in Nat /\ 1 <= i /\ i <= Len(events) + m
        /\ Own \in Nat /\ Own <= Len(events) /\ Len(events) \in Nat /\ m \in Nat
    <3>1. Len(events') \in Nat /\ Len(events') = Len(events) + m  BY <1>i, LenProperties
    <3>2. i \in Nat /\ 1 <= i /\ i <= Len(events')  BY <3>1
    <3> QED BY <1>2, <1>m, <3>1, <3>2
  <2>2. CASE i <= Own
    <3>1. i \in 1 .. Own /\ i \in 1 .. Len(events)  BY <2>1, <2>2
    <3> QED BY <1>i, <1>o, <2>2, <3>1
  <2>3. CASE ~(i <= Own) /\ i <= Own + m
    <3>1. i \in Own + 1 .. Own + m /\ i - Own \in 1 .. m  BY <2>1, <2>3
    <3> QED BY <1>5, <1>i, <1>m, <2>3, <3>1
  <2>4. CASE ~(i <= Own) /\ ~(i <= Own + m)
    <3>1. /\ i \in Own + m + 1 .. Len(events) + m /\ i - m \in Own + 1 .. Len(events)
          /\ i - m \in 1 .. Len(events)
          /\ i - (Own + m) \in 1 .. Len(events) - Own /\ Own + (i - (Own + m)) = i - m
      BY <2>1, <2>4
    <3>2. events'[i] = rest[i - (Own + m)]  BY <1>i, <2>4
    <3> QED BY <1>o, <3>1, <3>2
  <2> QED BY <2>2, <2>3, <2>4
<1>7. Types'  BY <1>1, <1>i, <1>6 DEF IInv, Types, Started
<1>8. Owned' /\ Available' /\ IdsFree' /\ OwnResult'
  <2>1. Owned'  BY <1>1 DEF IInv, Owned, Started
  <2>2. Available'  BY <1>1 DEF IInv, Available
  <2>3. IdsFree'
    <3>1. PICK size \in Nat \ {0} : Identifiers(size)  BY DEF IInv, IdsFree
    <3>2. ioInFlight' = ioInFlight /\ lastId' = lastId /\ freeList' = freeList  BY <1>1
    <3>3. Identifiers(size)'  BY <3>1, <3>2 DEF Identifiers
    <3> QED BY <3>3 DEF IdsFree
  <2>4. OwnResult'  BY <1>1 DEF IInv, OwnResult
  <2> QED BY <2>1, <2>2, <2>3, <2>4
<1>9. \A x \in AnyOp : /\ InKernel(x)' <=> InKernel(x)
                       /\ InHelper(x)' <=> InHelper(x)
                       /\ InEvents(x)' => InApc(x) \/ InEvents(x)
                       /\ ~InApc(x)'
  <2>1. \A x \in AnyOp : (InKernel(x)' <=> InKernel(x)) /\ (InHelper(x)' <=> InHelper(x))
    BY <1>1 DEF InKernel, InHelper
  <2>2. \A x \in AnyOp : InEvents(x)' => InApc(x) \/ InEvents(x)
    <3> SUFFICES ASSUME NEW x \in AnyOp, NEW i \in 1 .. Len(events'), events'[i].op = x
                 PROVE  InApc(x) \/ InEvents(x)
      BY DEF InEvents
    <3> QED BY <1>4, <1>p DEF InEvents, InApc
  <2>3. \A x \in AnyOp : ~InApc(x)'  BY <1>6 DEF InApc
  <2> QED BY <2>1, <2>2, <2>3
<1>10. \A x \in AnyOp : (Performing(x)' => Performing(x)) /\ (Way(x)' => Way(x))
  BY <1>9 DEF Performing, Way
<1>11. Once'
  <2>1. /\ \A p, q \in kernel : p[2] = q[2] => p = q
        /\ \A i, j \in 1 .. Len(apc) : apc[i].op = apc[j].op => i = j
        /\ \A i, j \in 1 .. Len(events) : events[i].op = events[j].op => i = j
        /\ \A x \in AnyOp : ~(InKernel(x) /\ InHelper(x)) /\ ~(InApc(x) /\ InEvents(x))
    BY DEF IInv, Once
  <2>2. HelperOnce'  BY <1>1 DEF IInv, Once, HelperOnce
  <2>3. \A i, j \in 1 .. Len(events') : events'[i].op = events'[j].op => i = j
    <3>1. \A k \in 1 .. Len(apc), l \in 1 .. Len(events) : apc[k].op # events[l].op
      <4> SUFFICES ASSUME NEW k \in 1 .. Len(apc), NEW l \in 1 .. Len(events),
                          apc[k].op = events[l].op
                   PROVE  FALSE
        OBVIOUS
      <4>1. apc[k].op \in AnyOp  BY QueuedOps
      <4> QED BY <2>1, <4>1 DEF InApc, InEvents
    <3> SUFFICES ASSUME NEW i \in 1 .. Len(events'), NEW j \in 1 .. Len(events'),
                        events'[i].op = events'[j].op
                 PROVE  i = j
      OBVIOUS
    <3> DEFINE Old(k) == k \in 1 .. Own \/ k \in Own + m + 1 .. Len(events) + m
               at(k) == IF k <= Own THEN k ELSE k - m
    <3>2. \A k \in 1 .. Len(events') :
            \/ Old(k) /\ at(k) \in 1 .. Len(events) /\ events'[k] = events[at(k)]
            \/ /\ k \in Own + 1 .. Own + m /\ k - Own \in 1 .. Len(apc)
               /\ events'[k].op = apc[k - Own].op
      <4> SUFFICES ASSUME NEW k \in 1 .. Len(events')
                   PROVE  \/ Old(k) /\ at(k) \in 1 .. Len(events) /\ events'[k] = events[at(k)]
                          \/ /\ k \in Own + 1 .. Own + m /\ k - Own \in 1 .. Len(apc)
                             /\ events'[k].op = apc[k - Own].op
        OBVIOUS
      <4>1. CASE k \in 1 .. Own /\ k \in 1 .. Len(events) /\ events'[k] = events[k]
        BY <1>2, <4>1
      <4>2. CASE /\ k \in Own + 1 .. Own + m /\ k - Own \in 1 .. Len(apc)
                 /\ events'[k] = CalledBack(apc[k - Own])
        BY <1>4, <4>2
      <4>3. CASE /\ k \in Own + m + 1 .. Len(events) + m
                 /\ k - m \in 1 .. Len(events) /\ events'[k] = events[k - m]
        <5>1. at(k) = k - m  BY <1>2, <1>m, <4>3
        <5> QED BY <4>3, <5>1
      <4> QED BY <1>p, <4>1, <4>2, <4>3
    <3>3. Old(i) /\ Old(j) /\ at(i) = at(j) => i = j  BY <1>2, <1>m
    <3> HIDE DEF Old, at
    <3>4. CASE Old(i) /\ at(i) \in 1 .. Len(events) /\ events'[i] = events[at(i)]
      BY <2>1, <3>1, <3>2, <3>3, <3>4
    <3>5. CASE /\ i \in Own + 1 .. Own + m /\ i - Own \in 1 .. Len(apc)
               /\ events'[i].op = apc[i - Own].op
      <4>1. j \in Own + 1 .. Own + m /\ j - Own \in 1 .. Len(apc) /\ events'[j].op = apc[j - Own].op
        BY <3>1, <3>2, <3>5
      <4>2. i - Own = j - Own  BY <2>1, <3>5, <4>1
      <4> QED BY <1>2, <4>2
    <3> QED BY <3>2, <3>4, <3>5
  <2>4. \A x \in AnyOp : ~(InKernel(x)' /\ InHelper(x)') /\ ~(InApc(x)' /\ InEvents(x)')
    BY <1>9, <2>1
  <2>5. \A i, j \in 1 .. Len(apc') : apc'[i].op = apc'[j].op => i = j  BY <1>6
  <2> QED BY <1>1, <2>1, <2>2, <2>3, <2>4, <2>5 DEF Once, HelperOnce
<1>12. Registered'  BY <1>1, <1>10 DEF IInv, Registered
<1>13. Progress'
  <2>1. \A i \in 1 .. Len(apc) : Result(apc[i], ended, moved, content)
    BY DEF IInv, Progress, Done
  <2>0. \A i \in 1 .. Len(events) :
          Result(events[i], ended, moved, content) /\ (events[i].err <=> events[i].len = -1)
    BY DEF IInv, Progress, Done
  <2>2. \A i \in 1 .. Len(events') :
          Result(events'[i], ended, moved, content) /\ (events'[i].err <=> events'[i].len = -1)
    <3>0. \A i \in 1 .. Len(apc) :
            /\ Result(CalledBack(apc[i]), ended, moved, content)
            /\ CalledBack(apc[i]).err <=> CalledBack(apc[i]).len = -1
      <4> SUFFICES ASSUME NEW i \in 1 .. Len(apc)
                   PROVE  /\ Result(CalledBack(apc[i]), ended, moved, content)
                          /\ CalledBack(apc[i]).err <=> CalledBack(apc[i]).len = -1
        OBVIOUS
      <4>1. Result(apc[i], ended, moved, content)  BY <2>1
      <4>2. /\ CalledBack(apc[i]).op = apc[i].op /\ CalledBack(apc[i]).err = apc[i].err
            /\ CalledBack(apc[i]).len = IF apc[i].err THEN -1 ELSE apc[i].len
        BY <1>4
      <4>3. apc[i].err \in BOOLEAN  BY <1>4 DEF AnyInfo
      <4> QED BY <4>1, <4>2, <4>3 DEF Result
    <3> QED BY <1>p, <2>0, <3>0
  <2>3. \A x \in AnyOp : Performing(x)' =>
          ended'[x.ticket] = "no" /\ (x.kind = "write" => content'[x.buf] = x.ticket)
    BY <1>1, <1>10 DEF IInv, Progress
  <2> QED BY <1>1, <1>6, <2>2, <2>3 DEF Progress, Done
<1>14. Stacked'  BY <1>1, <1>2, <1>i, <1>m, SameStack DEF IInv, Stacked
<1> QED BY <1>7, <1>8, <1>11, <1>12, <1>13, <1>14 DEF IInv

(* The first result is handed on.                                          *)
LEMMA HandleStep ==
  ASSUME IInv, HandleCompletionEvent
  PROVE  IInv'
<1> DEFINE e == Head(events)
<1>0. events # <<>> /\ base <= Len(events) - 1
  <2>1. base \in Nat /\ base <= Len(events) /\ Len(events) \in Nat
    BY LenProperties DEF IInv, Types, Stacked
  <2>2. Len(events) - base > 0  BY DEF HandleCompletionEvent, Own
  <2>3. Len(events) # 0  BY <2>1, <2>2
  <2> QED BY <2>1, <2>2, <2>3
<1>1. /\ events # <<>> /\ events' = Tail(events) /\ outer' = outer /\ base' = base
      /\ e.op.id \in DOMAIN ioInFlight
      /\ ioInFlight' = Without(ioInFlight, e.op.id)
      /\ avail' = <<ioInFlight[e.op.id].buf>> \o avail
      /\ outcome' = [outcome EXCEPT ![ioInFlight[e.op.id].ticket] =
                       IF e.len = -1 THEN "exn" ELSE "done"]
      /\ moved' = IF ioInFlight[e.op.id].kind = "read" /\ e.len > 0
                  THEN [moved EXCEPT ![ioInFlight[e.op.id].ticket]
                          = content[ioInFlight[e.op.id].buf]] ELSE moved
      /\ open' = open /\ kernel' = kernel /\ helper' = helper /\ apc' = apc
      /\ content' = content /\ ended' = ended
  BY <1>0 DEF HandleCompletionEvent, ReleaseBuffer, DataIn, devvars, loopvars
<1>2. events \in Seq(AnyInfo)  BY DEF IInv, Types
<1>3. /\ Tail(events) \in Seq(AnyInfo) /\ Len(Tail(events)) = Len(events) - 1
      /\ \A i \in 1 .. Len(Tail(events)) : Tail(events)[i] = events[i + 1]
      /\ e \in AnyInfo /\ e = events[1] /\ Len(events) \in Nat /\ Len(events) # 0
  BY <1>1, <1>2, HeadTailProperties, EmptySeq, LenProperties
<1> HIDE DEF e
<1> DEFINE op == e.op
<1>4. 1 \in 1 .. Len(events) /\ op \in AnyOp  BY <1>3 DEF AnyInfo
<1>5. InEvents(op) /\ Way(op)  BY <1>3, <1>4 DEF InEvents, Way
<1>6. /\ ioInFlight[op.id] = op /\ op.id \in DOMAIN ioInFlight
      /\ op.ticket \in 1 .. Started /\ op.buf \in 1 .. Len(content)
      /\ outcome[op.ticket] = "flying"
      /\ op.kind \in Kinds /\ op.ticket \in Nat /\ op.buf \in Nat \ {0} /\ op.id \in Nat
  BY <1>4, <1>5, WayOwned DEF AnyOp
<1>7. /\ Result(e, ended, moved, content) /\ (e.err <=> e.len = -1)
  BY <1>3, <1>4 DEF IInv, Progress, Done
<1>8. /\ ioInFlight' = Without(ioInFlight, op.id)
      /\ avail' = <<op.buf>> \o avail
      /\ outcome' = [outcome EXCEPT ![op.ticket] = IF e.len = -1 THEN "exn" ELSE "done"]
      /\ moved' = IF op.kind = "read" /\ e.len > 0
                  THEN [moved EXCEPT ![op.ticket] = content[op.buf]] ELSE moved
  BY <1>1, <1>6
<1> HIDE DEF op
<1>t. /\ ended \in Seq({"no", "exn", "done"}) /\ moved \in Seq(Nat) /\ content \in Seq(Nat)
      /\ outcome \in Seq({"flying", "raised", "exn", "done"}) /\ Len(outcome) = Started
      /\ Len(ended) = Started /\ Len(moved) = Started /\ Started \in Nat
      /\ avail \in Seq(Nat \ {0}) /\ Len(avail) \in Nat
      /\ ioInFlight \in [DOMAIN ioInFlight -> AnyOp]
  BY LenProperties DEF IInv, Types, Started
<1>9. /\ outcome' \in Seq({"flying", "raised", "exn", "done"}) /\ Started' = Started
      /\ outcome'[op.ticket] = IF e.len = -1 THEN "exn" ELSE "done"
      /\ \A t \in 1 .. Started : t # op.ticket => outcome'[t] = outcome[t]
  <2>1. (IF e.len = -1 THEN "exn" ELSE "done") \in {"flying", "raised", "exn", "done"}  OBVIOUS
  <2> QED BY <1>6, <1>8, <1>t, <2>1, ExceptSeq DEF Started
<1>10. /\ moved' \in Seq(Nat) /\ Len(moved') = Started
       /\ \A t \in 1 .. Started : t # op.ticket => moved'[t] = moved[t]
       /\ ~e.err => moved'[op.ticket] = op.ticket
  <2>1. e.err \in BOOLEAN /\ e.len \in {-1, 0, 1}  BY <1>3 DEF AnyInfo
  <2>2. ~e.err => /\ e.len = 1
                  /\ op.kind = "write" => moved[op.ticket] = op.ticket
                  /\ op.kind = "read" => content[op.buf] = op.ticket
    BY <1>7 DEF Result, op
  <2>3. CASE op.kind = "read" /\ e.len > 0
    <3>1. ~e.err  BY <1>7, <2>1, <2>3
    <3>2. moved' = [moved EXCEPT ![op.ticket] = op.ticket]  BY <1>8, <2>2, <2>3, <3>1
    <3> QED BY <1>6, <1>t, <3>2, ExceptSeq
  <2>4. CASE ~(op.kind = "read" /\ e.len > 0)
    <3>1. moved' = moved  BY <1>8, <2>4
    <3>2. ~e.err => op.kind = "write"  BY <1>6, <2>2, <2>4 DEF Kinds
    <3> QED BY <1>t, <2>2, <3>1, <3>2
  <2> QED BY <2>3, <2>4
<1>11. /\ avail' \in Seq(Nat \ {0}) /\ Len(avail') = Len(avail) + 1
       /\ avail'[1] = op.buf
       /\ \A k \in 1 .. Len(avail) : avail'[k + 1] = avail[k]
  <2>1. <<op.buf>> \in Seq(Nat \ {0}) /\ Len(<<op.buf>>) = 1 /\ <<op.buf>>[1] = op.buf
    BY <1>6
  <2>2. /\ <<op.buf>> \o avail \in Seq(Nat \ {0})
        /\ Len(<<op.buf>> \o avail) = 1 + Len(avail)
        /\ \A k \in 1 .. 1 + Len(avail) :
             (<<op.buf>> \o avail)[k] = IF k <= 1 THEN <<op.buf>>[k] ELSE avail[k - 1]
    BY <1>t, <2>1, ConcatProperties
  <2>3. \A k \in 1 .. Len(avail) : k + 1 \in 1 .. 1 + Len(avail) /\ ~(k + 1 <= 1) /\ (k + 1) - 1 = k
    BY <1>t
  <2>4. \A k \in 1 .. Len(avail) : avail'[k + 1] = avail[k]  BY <1>8, <2>2, <2>3
  <2>5. 1 \in 1 .. 1 + Len(avail)  BY <1>t
  <2>6. avail'[1] = op.buf  BY <1>8, <2>1, <2>2, <2>5
  <2> QED BY SMTT(30), <1>8, <1>t, <2>2, <2>4, <2>6
<1>12. \A k \in 1 .. Len(avail') :
         k = 1 \/ (k - 1 \in 1 .. Len(avail) /\ avail'[k] = avail[k - 1])
  <2> SUFFICES ASSUME NEW k \in 1 .. Len(avail'), k # 1
               PROVE  k - 1 \in 1 .. Len(avail) /\ avail'[k] = avail[k - 1]
    OBVIOUS
  <2>1. k - 1 \in 1 .. Len(avail) /\ (k - 1) + 1 = k  BY <1>11, <1>t
  <2>2. avail'[(k - 1) + 1] = avail[k - 1]  BY <1>11, <2>1
  <2> QED BY <2>1, <2>2
<1>13. /\ DOMAIN ioInFlight' = DOMAIN ioInFlight \ {op.id}
       /\ \A i \in DOMAIN ioInFlight' : ioInFlight'[i] = ioInFlight[i] /\ i # op.id
       /\ ioInFlight' \in [DOMAIN ioInFlight' -> AnyOp]
  <2>1. /\ DOMAIN ioInFlight' = DOMAIN ioInFlight \ {op.id}
        /\ \A i \in DOMAIN ioInFlight' : ioInFlight'[i] = ioInFlight[i] /\ i # op.id
    BY <1>8 DEF Without
  <2>2. ioInFlight' \in [DOMAIN ioInFlight \ {op.id} -> AnyOp]
    BY <1>8, <1>t DEF Without
  <2> QED BY <2>1, <2>2
<1>o. \A i \in DOMAIN ioInFlight :
        /\ ioInFlight[i].id = i
        /\ ioInFlight[i].ticket \in 1 .. Started
        /\ ioInFlight[i].buf \in 1 .. Len(content)
        /\ \A k \in 1 .. Len(avail) : avail[k] # ioInFlight[i].buf
        /\ \A j \in DOMAIN ioInFlight :
             \/ ioInFlight[i].ticket = ioInFlight[j].ticket
             \/ ioInFlight[i].buf = ioInFlight[j].buf
             => i = j
  BY DEF IInv, Owned
<1>14. Owned'
  <2> SUFFICES ASSUME NEW i \in DOMAIN ioInFlight'
               PROVE  /\ ioInFlight'[i].id = i
                      /\ ioInFlight'[i].ticket \in 1 .. Started'
                      /\ ioInFlight'[i].buf \in 1 .. Len(content')
                      /\ \A k \in 1 .. Len(avail') : avail'[k] # ioInFlight'[i].buf
                      /\ \A j \in DOMAIN ioInFlight' :
                           \/ ioInFlight'[i].ticket = ioInFlight'[j].ticket
                           \/ ioInFlight'[i].buf = ioInFlight'[j].buf
                           => i = j
    BY DEF Owned
  <2>1. i \in DOMAIN ioInFlight /\ i # op.id /\ ioInFlight'[i] = ioInFlight[i]  BY <1>13
  <2>2. ioInFlight[i].buf # op.buf  BY <1>6, <1>o, <2>1
  <2>3. \A k \in 1 .. Len(avail') : avail'[k] # ioInFlight[i].buf
    <3>1. \A k \in 1 .. Len(avail') : avail'[k] = op.buf \/ \E l \in 1 .. Len(avail) : avail'[k] = avail[l]
      BY <1>11, <1>12
    <3>2. \A l \in 1 .. Len(avail) : avail[l] # ioInFlight[i].buf  BY <1>o, <2>1
    <3> QED BY <2>2, <3>1, <3>2
  <2>4. \A j \in DOMAIN ioInFlight' :
          \/ ioInFlight[i].ticket = ioInFlight'[j].ticket
          \/ ioInFlight[i].buf = ioInFlight'[j].buf
          => i = j
    BY <1>13, <1>o, <2>1
  <2>5. /\ ioInFlight[i].id = i /\ ioInFlight[i].ticket \in 1 .. Started
        /\ ioInFlight[i].buf \in 1 .. Len(content)
    BY <1>o, <2>1
  <2> QED BY <1>1, <1>9, <2>1, <2>3, <2>4, <2>5
<1>15. Available'
  <2>1. \A k, l \in 1 .. Len(avail) :
          avail[k] \in 1 .. Len(content) /\ (avail[k] = avail[l] => k = l)
    BY DEF IInv, Available
  <2>2. \A k \in 1 .. Len(avail) : avail[k] # op.buf  BY <1>6, <1>o
  <2>3. \A k \in 1 .. Len(avail') : avail'[k] \in 1 .. Len(content)
    BY <1>6, <1>11, <1>12, <2>1
  <2>4. \A k, l \in 1 .. Len(avail') : avail'[k] = avail'[l] => k = l
    <3> SUFFICES ASSUME NEW k \in 1 .. Len(avail'), NEW l \in 1 .. Len(avail'),
                        avail'[k] = avail'[l]
                 PROVE  k = l
      OBVIOUS
    <3>1. CASE k = 1 \/ l = 1  BY <1>11, <1>12, <2>2, <3>1
    <3>2. CASE k # 1 /\ l # 1
      <4>1. /\ k - 1 \in 1 .. Len(avail) /\ avail'[k] = avail[k - 1]
            /\ l - 1 \in 1 .. Len(avail) /\ avail'[l] = avail[l - 1]
        BY <1>12, <3>2
      <4>2. k - 1 = l - 1  BY <2>1, <4>1
      <4>3. k \in Int /\ l \in Int  OBVIOUS
      <4> QED BY <4>2, <4>3
    <3> QED BY <3>1, <3>2
  <2> QED BY <1>1, <2>3, <2>4 DEF Available
<1>16. IdsFree'  BY HandleIds DEF IInv
<1>17. Types'
  BY <1>1, <1>3, <1>9, <1>10, <1>11, <1>13, <1>t DEF IInv, Types, Started
<1>18. /\ Len(events') = Len(events) - 1
       /\ \A i \in 1 .. Len(events') :
            i + 1 \in 1 .. Len(events) /\ i + 1 # 1 /\ i \in Nat /\ events'[i] = events[i + 1]
  BY <1>1, <1>3
<1>19. /\ \A p, q \in kernel : p[2] = q[2] => p = q
       /\ \A i, j \in 1 .. Len(apc) : apc[i].op = apc[j].op => i = j
       /\ \A i, j \in 1 .. Len(events) : events[i].op = events[j].op => i = j
       /\ \A x \in AnyOp : ~(InKernel(x) /\ InHelper(x)) /\ ~(InApc(x) /\ InEvents(x))
  BY DEF IInv, Once
<1>20. \A x \in AnyOp : InEvents(x)' => InEvents(x) /\ x # op
  <2> SUFFICES ASSUME NEW x \in AnyOp, NEW i \in 1 .. Len(events'), events'[i].op = x
               PROVE  InEvents(x) /\ x # op
    BY DEF InEvents
  <2>1. i + 1 \in 1 .. Len(events) /\ i + 1 # 1 /\ events[i + 1].op = x  BY <1>18
  <2>2. events[1].op = op  BY <1>3 DEF op
  <2> QED BY <1>4, <1>19, <2>1, <2>2 DEF InEvents
<1>21. \A x \in AnyOp : /\ InKernel(x)' <=> InKernel(x)
                        /\ InHelper(x)' <=> InHelper(x)
                        /\ InApc(x)' <=> InApc(x)
  BY <1>1 DEF InKernel, InHelper, InApc
<1>22. ~Performing(op) /\ ~InApc(op)
  <2>1. Performing(op) => \A i \in 1 .. Len(events) : events[i].op # op
    BY <1>4, NotQueued
  <2>2. events[1].op = op  BY <1>3 DEF op
  <2> QED BY <1>4, <1>5, <1>19, <2>1, <2>2
<1>23. \A x \in AnyOp : Way(x)' => Way(x) /\ x # op
  BY <1>20, <1>21, <1>22 DEF Way, Performing
<1>24. \A x \in AnyOp : Way(x) /\ x # op =>
         /\ x.id # op.id /\ x.ticket # op.ticket /\ x.ticket \in 1 .. Started
         /\ x.id \in DOMAIN ioInFlight /\ ioInFlight[x.id] = x
         /\ outcome[x.ticket] = "flying"
  BY <1>4, <1>5, WayOwned
<1>25. Once'
  <2>1. HelperOnce'  BY <1>1 DEF IInv, Once, HelperOnce
  <2>2. \A i, j \in 1 .. Len(events') : events'[i].op = events'[j].op => i = j
    <3> SUFFICES ASSUME NEW i \in 1 .. Len(events'), NEW j \in 1 .. Len(events'),
                        events'[i].op = events'[j].op
                 PROVE  i = j
      OBVIOUS
    <3>1. /\ i + 1 \in 1 .. Len(events) /\ j + 1 \in 1 .. Len(events)
          /\ i \in Nat /\ j \in Nat /\ events[i + 1].op = events[j + 1].op
      BY <1>18
    <3>2. i + 1 = j + 1  BY <1>19, <3>1
    <3> QED BY <3>1, <3>2
  <2>3. \A x \in AnyOp : ~(InKernel(x)' /\ InHelper(x)') /\ ~(InApc(x)' /\ InEvents(x)')
    BY <1>19, <1>20, <1>21
  <2> QED BY <1>1, <1>19, <2>1, <2>2, <2>3 DEF Once, HelperOnce
<1>26. Registered'
  <2> SUFFICES ASSUME NEW x \in AnyOp, Way(x)'
               PROVE  /\ x.id \in DOMAIN ioInFlight' /\ ioInFlight'[x.id] = x
                      /\ outcome'[x.ticket] = "flying"
    BY DEF Registered
  <2>1. Way(x) /\ x # op  BY <1>23
  <2> QED BY <1>9, <1>13, <1>24, <2>1
<1>27. Progress'
  <2>1. \A x \in AnyOp : Performing(x)' =>
          ended'[x.ticket] = "no" /\ (x.kind = "write" => content'[x.buf] = x.ticket)
    BY <1>1, <1>21 DEF IInv, Progress, Performing
  <2>2. /\ \A i \in 1 .. Len(apc) : Result(apc[i], ended, moved, content)
        /\ \A i \in 1 .. Len(events) :
             /\ Result(events[i], ended, moved, content)
             /\ events[i].err <=> events[i].len = -1
    BY DEF IInv, Progress, Done
  <2>3. \A x \in AnyOp : Way(x) /\ x # op => moved'[x.ticket] = moved[x.ticket]
    BY <1>10, <1>24
  <2>4. \A i \in 1 .. Len(apc) : Result(apc[i], ended, moved', content)
    <3> SUFFICES ASSUME NEW i \in 1 .. Len(apc)
                 PROVE  Result(apc[i], ended, moved', content)
      OBVIOUS
    <3>1. apc[i].op \in AnyOp /\ Way(apc[i].op) /\ apc[i].op # op
      BY <1>22, QueuedOps DEF InApc
    <3> QED BY <2>2, <2>3, <3>1, SameResult
  <2>5. \A i \in 1 .. Len(events') :
          Result(events'[i], ended, moved', content) /\ (events'[i].err <=> events'[i].len = -1)
    <3> SUFFICES ASSUME NEW i \in 1 .. Len(events')
                 PROVE  /\ Result(events'[i], ended, moved', content)
                        /\ events'[i].err <=> events'[i].len = -1
      OBVIOUS
    <3>1. /\ i + 1 \in 1 .. Len(events) /\ i + 1 # 1 /\ events'[i] = events[i + 1]
      BY <1>18
    <3>2. events[i + 1].op \in AnyOp /\ Way(events[i + 1].op)  BY <3>1, QueuedOps
    <3>3. events[i + 1].op # op
      <4>1. events[1].op = op  BY <1>3 DEF op
      <4> QED BY <1>4, <1>19, <3>1, <4>1
    <3>4. Result(events[i + 1], ended, moved', content)
      BY <2>2, <2>3, <3>1, <3>2, <3>3, SameResult
    <3> QED BY <2>2, <3>1, <3>4
  <2> QED BY <1>1, <2>1, <2>4, <2>5 DEF Progress, Done
<1>28. OwnResult'
  <2>1. DOMAIN outcome' = 1 .. Started /\ DOMAIN outcome = 1 .. Started
    BY <1>9, <1>t, LenProperties DEF Started
  <2> SUFFICES ASSUME NEW t \in 1 .. Started
               PROVE  /\ outcome'[t] \notin {"flying", "raised"} => outcome'[t] = ended'[t]
                      /\ outcome'[t] = "done" => moved'[t] = t
    BY <2>1 DEF OwnResult
  <2>2. CASE t = op.ticket
    <3>1. /\ ended[t] \in {"exn", "done"} /\ (e.err <=> ended[t] = "exn")
      BY <1>7, <2>2 DEF Result, op
    <3> QED BY <1>1, <1>7, <1>9, <1>10, <2>2, <3>1
  <2>3. CASE t # op.ticket
    <3>1. outcome'[t] = outcome[t] /\ moved'[t] = moved[t] /\ ended'[t] = ended[t]
      BY <1>1, <1>9, <1>10, <2>3
    <3> QED BY <2>1, <3>1 DEF IInv, OwnResult
  <2> QED BY <2>2, <2>3
<1>29. Stacked'  BY <1>0, <1>1, <1>18, SameStack DEF IInv, Stacked
<1> QED BY <1>14, <1>15, <1>16, <1>17, <1>25, <1>26, <1>27, <1>28, <1>29 DEF IInv

-----------------------------------------------------------------------------
LEMMA InitIInv == Init => IInv
<1> SUFFICES ASSUME Init PROVE IInv
  OBVIOUS
<1>1. /\ open = Descrs /\ kernel = {} /\ apc = <<>> /\ events = <<>>
      /\ helper = [h \in Helpers |-> <<>>]
      /\ ioInFlight = <<>> /\ lastId = 0 /\ freeList = [i \in {0} |-> 0] /\ avail = <<>>
      /\ content = <<>> /\ ended = <<>> /\ moved = <<>> /\ outcome = <<>>
      /\ outer = <<>> /\ base = 0
  BY DEF Init, NoHelpers, Helpers
<1>2. DOMAIN ioInFlight = {} /\ ioInFlight \in [{} -> AnyOp]  BY <1>1
<1>3. Types
  <2>1. helper \in [Helpers -> Seq(AnyOp \cup {Exit})]  BY <1>1
  <2>2. ioInFlight \in [DOMAIN ioInFlight -> AnyOp]  BY <1>2
  <2>3. /\ content \in Seq(Nat) /\ avail \in Seq(Nat \ {0})
        /\ outcome \in Seq({"flying", "raised", "exn", "done"})
        /\ ended \in Seq({"no", "exn", "done"}) /\ moved \in Seq(Nat)
        /\ Len(ended) = Started /\ Len(moved) = Started
        /\ apc \in Seq(AnyInfo) /\ events \in Seq(AnyInfo)
    BY <1>1 DEF Started
  <2> QED BY <1>1, <2>1, <2>2, <2>3 DEF Types
<1>4. Owned  BY <1>2 DEF Owned
<1>5. Available  BY <1>1 DEF Available
<1>6. IdsFree
  <2>1. freeList \in [0 .. 1 - 1 -> 0 .. 1 - 1]  BY <1>1
  <2>2. Cardinality(DOMAIN ioInFlight) = lastId  BY <1>1, <1>2, FS_EmptySet
  <2>3. Identifiers(1)  BY <1>1, <1>2, <2>1, <2>2 DEF Identifiers
  <2> QED BY <2>3 DEF IdsFree
<1>7. \A x \in AnyOp : ~InKernel(x) /\ ~InHelper(x) /\ ~InApc(x) /\ ~InEvents(x)
  BY <1>1 DEF InKernel, InHelper, InApc, InEvents
<1>8. Once  BY <1>1, <1>7 DEF Once
<1>9. Registered /\ Progress  BY <1>1, <1>7 DEF Registered, Progress, Way, Performing
<1>10. OwnResult  BY <1>1 DEF OwnResult
<1>11. Stacked  BY <1>1 DEF Stacked
<1> QED BY <1>3, <1>4, <1>5, <1>6, <1>8, <1>9, <1>10, <1>11 DEF IInv

(* Every step: an operation starts, is done or is handed on, or nothing    *)
(* happens to the operations.                                              *)
LEMMA NextIInv == IInv /\ ret \in Nat /\ [Next]_vars => IInv'
<1> SUFFICES ASSUME IInv, ret \in Nat, [Next]_vars PROVE IInv'
  OBVIOUS
<1>1. \A d \in Descrs, kind \in Kinds : Start(d, kind) => IInv'  BY StartStep
<1>2. \A d \in Descrs : Close(d) => IInv'  BY CloseStep
<1>3. ASSUME NEW p \in kernel, NEW how \in {"exn", "done"}, KernelPerforms(p[1], p[2], how)
      PROVE  IInv'
  BY <1>3, KernelStep
<1>4. ASSUME NEW h \in Sync \X Kinds, NEW how \in {"exn", "done"}, HelperPerforms(h, how)
      PROVE  IInv'
  BY <1>4, HelperStep DEF Helpers
<1>5. ASSUME NEW h \in Sync \X Kinds, HelperExits(h)
      PROVE  IInv'
  BY <1>5, ExitsStep DEF Helpers
<1>6. ASSUME UNCHANGED <<devvars, queuevars, idvars, datavars>>, Stacked' PROVE IInv'
  <2>1. UNCHANGED <<Unaffected, open, helper>>  BY <1>6 DEF Unaffected, devvars
  <2> QED BY <1>6, <2>1, LoopStep
<1>7. ASSUME UNCHANGED <<devvars, queuevars, idvars, datavars>>, UNCHANGED <<outer, base>>
      PROVE  IInv'
  <2>1. events' = events  BY <1>7 DEF queuevars
  <2>2. Stacked'  BY <1>7, <2>1, SameStack DEF IInv, Stacked
  <2> QED BY <1>6, <1>7, <2>2
<1>8. ASSUME UNCHANGED <<devvars, queuevars, idvars, datavars>>, Raise PROVE IInv'
  <2>1. CASE Resume
    <3>1. events' = events  BY <1>8 DEF queuevars
    <3> QED BY <1>6, <1>8, <2>1, <3>1, ResumeStack
  <2>2. CASE ~Resume
    <3>1. UNCHANGED <<outer, base>>  BY <1>8, <2>2 DEF Raise
    <3> QED BY <1>7, <1>8, <3>1
  <2> QED BY <2>1, <2>2
<1>9. \A h \in live : Signal(h) => IInv'
  BY <1>7 DEF Signal, loopvars
<1>10. \A kind \in {"accept", "connect"} : Register(kind) => IInv'
  BY <1>7 DEF Register, loopvars
<1>11. WaitCompletion \/ HandleCompletionEvent => IInv'  BY WaitCompletionStep, HandleStep
<1>12. WaitEvent \/ Restarted \/ Handled => IInv'
  BY <1>7 DEF WaitEvent, Restarted, Handled
<1>13. \A closed \in BOOLEAN : Dispatch(closed) => IInv'
  BY <1>7 DEF Dispatch, NextWait
<1>14. DispatchAgain => IInv'
  BY <1>7 DEF DispatchAgain, NextWait
<1>15. WaitFails \/ NoSuchEvent \/ DispatchAgainFails => IInv'
  BY <1>8 DEF WaitFails, NoSuchEvent, DispatchAgainFails
<1>16. Nest => IInv'
  <2> SUFFICES ASSUME Nest PROVE IInv'
    OBVIOUS
  <2>1. Stacked'  BY NestStack
  <2> QED BY <1>6, <2>1 DEF Nest
<1>17. Return => IInv'
  BY <1>8 DEF Return, Raise
<1>18. UNCHANGED vars => IInv'
  BY <1>7 DEF vars, loopvars
<1>19. Loop => IInv'  BY <1>11, <1>12, <1>13, <1>14, <1>15 DEF Loop
<1>20. Device => IInv'  BY <1>3, <1>4, <1>5 DEF Device
<1> QED BY <1>1, <1>2, <1>9, <1>10, <1>16, <1>17, <1>18, <1>19, <1>20 DEF Next

-----------------------------------------------------------------------------
(* Event objects.                                                          *)
Conn == [h : 1 .. made, kind : {"accept", "connect"}]

Apart(c) == \A i, j \in 1 .. Len(c) : c[i].h = c[j].h => i = j

(* The sockets that wait have event objects of their own, which are open,  *)
(* or that a loop inside another one has left.                             *)
Sockets ==
  /\ made \in Nat /\ conn \in Seq(Conn)
  /\ live \subseteq 1 .. made /\ sig \subseteq 1 .. made /\ left \subseteq 1 .. made
  /\ Apart(conn)
  /\ pc # "ended" => \A i \in 1 .. Len(conn) : conn[i].h \in live \cup left
  /\ ret \in Nat /\ pc \in Threads \cup {"dispatch", "ended"}

(* The connections that are left, one after the other.                     *)
LEMMA OthersFold ==
  ASSUME NEW X, conn \in Seq(X), NEW h
  PROVE  \E r :
           /\ r[0] = <<>>
           /\ \A k \in 1 .. Len(conn) :
                r[k] = IF conn[k].h = h THEN r[k - 1] ELSE Append(r[k - 1], conn[k])
           /\ Others(h) = r[Len(conn)]
<1> DEFINE n == Len(conn)
           S == 1 .. n
           F == [p \in S \X Seq(X) |-> IF conn[p[1]].h = h THEN p[2] ELSE Append(p[2], conn[p[1]])]
           iter == CHOOSE it : it = [s \in SUBSET S |->
                     IF s = {} THEN <<>>
                     ELSE IF conn[Max(s)].h = h THEN it[s \ {Max(s)}]
                          ELSE Append(it[s \ {Max(s)}], conn[Max(s)])]
<1>1. DOMAIN conn = S /\ n \in Nat  BY LenProperties
<1>2. Others(h) = iter[S]  BY <1>1 DEF Others, FoldLeft, MapThenFoldSet
<1>3. F \in [S \X Seq(X) -> Seq(X)]  BY <1>1, ElementOfSeq, AppendProperties
<1>4. IsFiniteSet(S) /\ Chooses(Greatest(S), S)
  <2>1. S = 1 .. n  OBVIOUS
  <2> HIDE DEF S, n
  <2> QED BY <1>1, <2>1, ChoosesGreatest
<1>5. PICK g : IsFold(g, S, F, <<>>, Greatest(S), Seq(X))
  <2> DEFINE Y == Seq(X)
             none == <<>>
  <2>1. none \in Y /\ F \in [S \X Y -> Y]  BY <1>3
  <2> HIDE DEF F, S, Y, none
  <2>2. \E g : IsFold(g, S, F, none, Greatest(S), Y)  BY <1>4, <2>1, FoldExists
  <2> QED BY <2>2 DEF Y, none
<1>6. g = [s \in SUBSET S |->
             IF s = {} THEN <<>>
             ELSE IF conn[Max(s)].h = h THEN g[s \ {Max(s)}]
                  ELSE Append(g[s \ {Max(s)}], conn[Max(s)])]
  <2> HIDE DEF S
  <2> QED BY <1>4, <1>5 DEF IsFold, Chooses, Greatest
<1>7. iter = [s \in SUBSET S |->
                IF s = {} THEN <<>>
                ELSE IF conn[Max(s)].h = h THEN iter[s \ {Max(s)}]
                     ELSE Append(iter[s \ {Max(s)}], conn[Max(s)])]
  <2> HIDE DEF S, n
  <2> QED BY <1>6
<1> DEFINE r == [k \in 0 .. n |-> iter[1 .. k]]
<1>8. \A k \in S : r[k] = IF conn[k].h = h THEN r[k - 1] ELSE Append(r[k - 1], conn[k])
  <2> SUFFICES ASSUME NEW k \in S
               PROVE  r[k] = IF conn[k].h = h THEN r[k - 1] ELSE Append(r[k - 1], conn[k])
    OBVIOUS
  <2> DEFINE I == 1 .. k
  <2>1. /\ I \in SUBSET S /\ I # {} /\ Max(I) = k /\ I \ {k} = 1 .. k - 1
        /\ k \in 0 .. n /\ k - 1 \in 0 .. n
    BY <1>1, Prefix
  <2>2. r[k] = iter[I] /\ r[k - 1] = iter[I \ {k}]  BY <2>1
  <2> HIDE DEF iter, S, I, r
  <2> QED BY <1>7, <2>1, <2>2
<1>9. r[0] = <<>> /\ r[n] = iter[S]
  <2>1. 1 .. 0 = {} /\ {} \in SUBSET S /\ 0 \in 0 .. n /\ n \in 0 .. n  BY <1>1
  <2>2. r[0] = iter[{}] /\ r[n] = iter[S]  BY <2>1
  <2> HIDE DEF iter, r, S
  <2> QED BY <1>7, <2>1, <2>2
<1> QED BY <1>2, <1>8, <1>9

(* They are those with another event object.                               *)
LEMMA OthersLeft ==
  ASSUME NEW X, conn \in Seq(X), Apart(conn), NEW h
  PROVE  /\ Others(h) \in Seq(X) /\ Apart(Others(h))
         /\ \A i \in 1 .. Len(Others(h)) :
              \E j \in 1 .. Len(conn) : Others(h)[i] = conn[j] /\ conn[j].h # h
<1> DEFINE n == Len(conn)
<1>1. n \in Nat /\ \A k \in 1 .. n : conn[k] \in X  BY LenProperties, ElementOfSeq
<1>2. PICK r :
        /\ r[0] = <<>>
        /\ \A k \in 1 .. n :
             r[k] = IF conn[k].h = h THEN r[k - 1] ELSE Append(r[k - 1], conn[k])
        /\ Others(h) = r[n]
  BY OthersFold
<1> DEFINE P(k) == /\ r[k] \in Seq(X) /\ Apart(r[k])
                   /\ \A i \in 1 .. Len(r[k]) : \E j \in 1 .. k : r[k][i] = conn[j] /\ conn[j].h # h
           Q == {k \in 0 .. n : P(k)}
<1>3. 0 \in Q
  <2>1. r[0] \in Seq(X) /\ 1 .. Len(r[0]) = {}  BY <1>2
  <2>2. P(0)  BY <2>1 DEF Apart
  <2>3. 0 \in 0 .. n  BY <1>1
  <2> QED BY <2>2, <2>3
<1>4. ASSUME NEW k \in 0 .. n - 1, k \in Q PROVE k + 1 \in Q
  <2>1. k + 1 \in 1 .. n /\ k + 1 \in 0 .. n /\ (k + 1) - 1 = k /\ k \in Nat  BY <1>1
  <2>2. P(k)  BY <1>4
  <2>3. CASE conn[k + 1].h = h
    <3>1. r[k + 1] = r[k]  BY <1>2, <2>1, <2>3
    <3> HIDE DEF n
    <3>2. P(k + 1)  BY <2>1, <2>2, <3>1
    <3> QED BY <2>1, <3>2
  <2>4. CASE conn[k + 1].h # h
    <3>1. r[k + 1] = Append(r[k], conn[k + 1])  BY <1>2, <2>1, <2>4
    <3>2. /\ r[k + 1] \in Seq(X) /\ Len(r[k + 1]) = Len(r[k]) + 1 /\ Len(r[k]) \in Nat
          /\ \A i \in 1 .. Len(r[k]) : r[k + 1][i] = r[k][i]
          /\ r[k + 1][Len(r[k]) + 1] = conn[k + 1]
      BY <1>1, <2>1, <2>2, <3>1, AppendProperties, LenProperties
    <3>3. \A i \in 1 .. Len(r[k]) : \E j \in 1 .. k : r[k][i] = conn[j] /\ conn[j].h # h
      BY <2>2
    <3>4. \A i \in 1 .. Len(r[k]) : r[k][i].h # conn[k + 1].h
      <4> SUFFICES ASSUME NEW i \in 1 .. Len(r[k]) PROVE r[k][i].h # conn[k + 1].h
        OBVIOUS
      <4>1. PICK j \in 1 .. k : r[k][i] = conn[j]  BY <3>3
      <4>2. j \in 1 .. n /\ j # k + 1  BY <1>1, <2>1
      <4>3. conn[j].h # conn[k + 1].h  BY <2>1, <4>2 DEF Apart
      <4> QED BY <4>1, <4>3
    <3> HIDE DEF n
    <3>5. Apart(r[k + 1])
      <4> DEFINE m == Len(r[k])
                 c == r[k + 1]
      <4>1. \A i, j \in 1 .. m : c[i].h = c[j].h => i = j  BY <2>2, <3>2 DEF Apart
      <4>2. \A i \in 1 .. m : c[i].h # c[m + 1].h  BY <3>2, <3>4
      <4>3. m \in Nat /\ Len(c) = m + 1  BY <3>2
      <4> HIDE DEF m, c
      <4>4. \A i \in 1 .. Len(c) : i \in 1 .. m \/ i = m + 1  BY <4>3
      <4>5. \A i, j \in 1 .. Len(c) : c[i].h = c[j].h => i = j  BY <4>1, <4>2, <4>4
      <4> QED BY <4>5 DEF Apart, c
    <3>6. \A i \in 1 .. Len(r[k + 1]) :
            \E j \in 1 .. k + 1 : r[k + 1][i] = conn[j] /\ conn[j].h # h
      <4> SUFFICES ASSUME NEW i \in 1 .. Len(r[k]) + 1
                   PROVE  \E j \in 1 .. k + 1 : r[k + 1][i] = conn[j] /\ conn[j].h # h
        BY <3>2
      <4>1. CASE i = Len(r[k]) + 1  BY <2>1, <2>4, <3>2, <4>1
      <4>2. CASE i \in 1 .. Len(r[k])
        <5>1. PICK j \in 1 .. k : r[k][i] = conn[j] /\ conn[j].h # h  BY <3>3, <4>2
        <5>2. j \in 1 .. k + 1  BY <2>1
        <5> QED BY <3>2, <4>2, <5>1, <5>2
      <4> QED BY <3>2, <4>1, <4>2
    <3> QED BY <2>1, <3>2, <3>5, <3>6
  <2> QED BY <2>3, <2>4
<1>5. n \in Q
  <2> HIDE DEF Q, n
  <2> QED BY <1>1, <1>3, <1>4, IntervalInduction
<1> QED BY <1>2, <1>5

LEMMA InitSockets == Init => Sockets
  BY DEF Init, Sockets, Apart, Conn, Threads

(* Without a step of the sockets nothing changes; more event objects do    *)
(* not harm those there are.                                               *)
LEMMA MoreConns ==
  ASSUME made \in Nat, made' \in Nat, made <= made'
  PROVE  Conn \subseteq Conn'
  BY DEF Conn

LEMMA NextSockets == IInv /\ Sockets /\ [Next]_vars => Sockets'
<1> SUFFICES ASSUME IInv, Sockets, [Next]_vars PROVE Sockets'
  OBVIOUS
<1>1. /\ made \in Nat /\ conn \in Seq(Conn) /\ Len(conn) \in Nat /\ DOMAIN conn = 1 .. Len(conn)
      /\ live \subseteq 1 .. made /\ sig \subseteq 1 .. made /\ left \subseteq 1 .. made
      /\ Apart(conn) /\ \A i \in 1 .. Len(conn) : conn[i] \in Conn
      /\ pc # "ended" => \A i \in 1 .. Len(conn) : conn[i].h \in live \cup left
      /\ ret \in Nat /\ pc \in Threads \cup {"dispatch", "ended"}
  BY LenProperties, ElementOfSeq DEF Sockets
<1>2. ASSUME made' = made, conn' = conn, sig' = sig, live' \subseteq live, left \subseteq left',
             left' \subseteq 1 .. made, ret' \in Nat, pc' \in Threads \cup {"dispatch", "ended"},
             pc' # "ended" => pc # "ended" /\ live \subseteq live' \cup left'
      PROVE  Sockets'
  <2>1. Conn' = Conn /\ Apart(conn)'  BY <1>1, <1>2 DEF Conn, Apart
  <2> QED BY <1>1, <1>2, <2>1 DEF Sockets
<1>3. ASSUME UNCHANGED waitvars, ret' \in Nat, pc' \in Threads \cup {"dispatch", "ended"},
             pc' # "ended" => pc # "ended"
      PROVE  Sockets'
  BY <1>1, <1>2, <1>3 DEF waitvars
<1>4. ASSUME UNCHANGED <<waitvars, ret, pc>> PROVE Sockets'
  BY <1>1, <1>3, <1>4
<1>5. ASSUME NEW kind \in {"accept", "connect"}, Register(kind) PROVE Sockets'
  <2> DEFINE new == [h |-> made + 1, kind |-> kind]
  <2>1. /\ made' = made + 1 /\ live' = live \cup {made + 1} /\ sig' = sig /\ left' = left
        /\ conn' = <<new>> \o conn /\ ret' = ret /\ pc' = pc
    BY <1>5 DEF Register, loopvars
  <2>2. conn \in Seq(Conn') /\ new \in Conn' /\ <<new>> \in Seq(Conn')
    <3>1. Conn \subseteq Conn'  BY <1>1, <2>1, MoreConns
    <3>2. new \in Conn'  BY <1>1, <2>1 DEF Conn
    <3>3. \A i \in 1 .. Len(conn) : conn[i] \in Conn'  BY <1>1, <3>1
    <3> HIDE DEF new
    <3>4. conn \in Seq(Conn')  BY <1>1, <3>1, <3>3, SeqDef
    <3> QED BY <3>2, <3>4
  <2>3. /\ conn' \in Seq(Conn') /\ Len(conn') = Len(conn) + 1
        /\ conn'[1] = new /\ \A i \in 2 .. Len(conn') : conn'[i] = conn[i - 1]
    <3> HIDE DEF new
    <3> QED BY <1>1, <2>1, <2>2, ConcatProperties
  <2>4. \A i \in 2 .. Len(conn') : i - 1 \in 1 .. Len(conn)  BY <1>1, <2>3
  <2>5. \A i \in 1 .. Len(conn') : i = 1 \/ i \in 2 .. Len(conn')  BY <1>1, <2>3
  <2>6. \A i \in 1 .. Len(conn) : conn[i].h \in 1 .. made  BY <1>1 DEF Conn
  <2>7. Apart(conn')
    <3>1. conn'[1].h = made + 1 /\ \A i \in 2 .. Len(conn') : conn'[i].h # made + 1
      BY <1>1, <2>3, <2>4, <2>6
    <3>2. \A i, j \in 2 .. Len(conn') : conn'[i].h = conn'[j].h => i = j
      <4> SUFFICES ASSUME NEW i \in 2 .. Len(conn'), NEW j \in 2 .. Len(conn'),
                          conn'[i].h = conn'[j].h
                   PROVE  i = j
        OBVIOUS
      <4>1. i - 1 = j - 1  BY <1>1, <2>3, <2>4 DEF Apart
      <4> QED BY <4>1
    <3> QED BY <2>5, <3>1, <3>2 DEF Apart
  <2>8. pc # "ended" => \A i \in 1 .. Len(conn') : conn'[i].h \in live' \cup left'
    BY <1>1, <2>1, <2>3, <2>4, <2>5
  <2>9. live' \subseteq 1 .. made' /\ sig' \subseteq 1 .. made' /\ left' \subseteq 1 .. made' /\ made' \in Nat
    BY <1>1, <2>1
  <2> QED BY <1>1, <2>1, <2>3, <2>7, <2>8, <2>9 DEF Sockets, Apart
<1>6. ASSUME NEW h \in live, Signal(h) PROVE Sockets'
  <2>1. /\ made' = made /\ conn' = conn /\ live' = live /\ left' = left /\ sig' = sig \cup {h}
        /\ ret' = ret /\ pc' = pc
    BY <1>6 DEF Signal, loopvars
  <2>2. Conn' = Conn /\ Apart(conn)'  BY <1>1, <2>1 DEF Conn, Apart
  <2> QED BY <1>1, <2>1, <2>2 DEF Sockets
<1>7. ASSUME NEW closed \in BOOLEAN, Dispatch(closed) PROVE Sockets'
  <2> DEFINE h == conn[ret].h
  <2>1. /\ live' = IF closed THEN live \ {h} ELSE live
        /\ conn' = Others(h) /\ pc # "ended"
        /\ ret' = 0 /\ pc' = "run" /\ sig' = sig /\ made' = made /\ left' = left
    BY <1>7 DEF Dispatch, Forget, NextWait
  <2> HIDE DEF h
  <2>2. /\ conn' \in Seq(Conn) /\ Apart(conn')
        /\ \A i \in 1 .. Len(conn') : \E j \in 1 .. Len(conn) : conn'[i] = conn[j] /\ conn[j].h # h
    BY <1>1, <2>1, OthersLeft
  <2>3. Conn' = Conn  BY <2>1 DEF Conn
  <2>4. \A i \in 1 .. Len(conn') : conn'[i].h \in live' \cup left'  BY <1>1, <2>1, <2>2
  <2> QED BY <1>1, <2>1, <2>2, <2>3, <2>4 DEF Sockets, Apart, Threads
<1>8. ASSUME DispatchAgain PROVE Sockets'
  <2>1. /\ pc = "dispatch" /\ ret \in DOMAIN conn /\ made' = made + 1
        /\ live' = (live \ {conn[ret].h}) \cup {made + 1}
        /\ conn' = [conn EXCEPT ![ret].h = made + 1]
        /\ ret' = 0 /\ pc' = "run" /\ sig' = sig /\ left' = left
    BY <1>8 DEF DispatchAgain, WouldBlock, NextWait
  <2>2. ret \in 1 .. Len(conn)  BY <1>1, <2>1
  <2> DEFINE new == [conn[ret] EXCEPT !.h = made + 1]
  <2>3. new \in Conn' /\ new.h = made + 1
    <3>1. conn[ret] \in Conn  BY <1>1, <2>2
    <3>2. new = [h |-> made + 1, kind |-> conn[ret].kind] /\ conn[ret].kind \in {"accept", "connect"}
      BY <3>1 DEF Conn
    <3>3. made + 1 \in 1 .. made'  BY <1>1, <2>1
    <3> QED BY <3>2, <3>3 DEF Conn
  <2>4. conn \in Seq(Conn')
    <3>1. Conn \subseteq Conn'  BY <1>1, <2>1, MoreConns
    <3> QED BY <1>1, <3>1, SeqDef
  <2>5. conn' = [conn EXCEPT ![ret] = new]  BY <2>1
  <2> HIDE DEF new
  <2>6. /\ conn' \in Seq(Conn') /\ Len(conn') = Len(conn) /\ conn'[ret] = new
        /\ \A i \in 1 .. Len(conn) : i # ret => conn'[i] = conn[i]
    BY <1>1, <2>2, <2>3, <2>4, <2>5, ExceptSeq
  <2>7. \A i \in 1 .. Len(conn) : conn[i].h \in 1 .. made  BY <1>1 DEF Conn
  <2>8. Apart(conn')  BY <1>1, <2>2, <2>3, <2>6, <2>7 DEF Apart
  <2>9. \A i \in 1 .. Len(conn') : conn'[i].h \in live' \cup left'
    <3>1. \A i \in 1 .. Len(conn) : i # ret => conn[i].h # conn[ret].h  BY <1>1, <2>2 DEF Apart
    <3> QED BY <1>1, <2>1, <2>2, <2>3, <2>6, <3>1
  <2>10. live' \subseteq 1 .. made' /\ sig' \subseteq 1 .. made' /\ left' \subseteq 1 .. made' /\ made' \in Nat
    BY <1>1, <2>1
  <2> QED BY <1>1, <2>1, <2>6, <2>8, <2>9, <2>10 DEF Sockets, Apart, Threads
<1>9. ASSUME WaitEvent PROVE Sockets'
  <2>1. pc = "run" /\ ret' \in Signaled /\ pc' = "restart" /\ UNCHANGED waitvars
    BY <1>9 DEF WaitEvent
  <2>2. ret' \in Nat  BY <1>1, <2>1 DEF Signaled
  <2> QED BY <1>3, <2>1, <2>2 DEF Threads
<1>10. ASSUME WaitCompletion \/ HandleCompletionEvent \/ Restarted \/ Handled PROVE Sockets'
  <2>1. UNCHANGED waitvars /\ ret' = ret /\ pc # "ended"
        /\ pc' \in Threads \cup {"dispatch", "ended"}
    BY <1>1, <1>10 DEF WaitCompletion, HandleCompletionEvent, Restarted, Handled, loopvars, Threads
  <2> QED BY <1>1, <1>3, <2>1
<1>11. ASSUME Raise, UNCHANGED queuevars
       PROVE  ret' \in Nat /\ pc' \in Threads \cup {"dispatch", "ended"} /\ (outer = <<>> => pc' = "ended")
  <2>1. CASE Resume
    <3>1. ret' \in Nat /\ pc' \in Threads  BY <1>11, <2>1, ResumeStack DEF queuevars
    <3> QED BY <2>1, <3>1 DEF Resume
  <2>2. CASE ~Resume  BY <1>1, <1>11, <2>2 DEF Raise
  <2> QED BY <2>1, <2>2
<1>12. ASSUME WaitFails \/ NoSuchEvent \/ Return PROVE Sockets'
  <2>1. pc # "ended" /\ Raise /\ UNCHANGED waitvars /\ UNCHANGED queuevars
    BY <1>12 DEF WaitFails, NoSuchEvent, Return, Raise
  <2> QED BY <1>3, <1>11, <2>1
<1>13. ASSUME DispatchAgainFails PROVE Sockets'
  <2> DEFINE h == conn[ret].h
  <2>1. /\ pc = "dispatch" /\ ret \in DOMAIN conn /\ live' = live \ {h}
        /\ left' = IF outer = <<>> THEN left ELSE left \cup {h}
        /\ Raise /\ UNCHANGED queuevars /\ conn' = conn /\ sig' = sig /\ made' = made
    BY <1>13 DEF DispatchAgainFails, WouldBlock
  <2>2. h \in 1 .. made
    <3>1. conn[ret] \in Conn  BY <1>1, <2>1
    <3> QED BY <3>1 DEF Conn
  <2> HIDE DEF h
  <2>3. ret' \in Nat /\ pc' \in Threads \cup {"dispatch", "ended"} /\ (outer = <<>> => pc' = "ended")
    BY <1>11, <2>1
  <2> QED BY <1>1, <1>2, <2>1, <2>2, <2>3
<1>14. ASSUME Nest PROVE Sockets'
  <2>1. UNCHANGED waitvars /\ ret' = 0 /\ pc' = "run" /\ pc # "ended"
    BY <1>14 DEF Nest, Threads
  <2> QED BY <1>3, <2>1 DEF Threads
<1>15. ASSUME Device PROVE Sockets'
  BY <1>4, <1>15 DEF Device, KernelPerforms, HelperPerforms, HelperExits, Performed, loopvars
<1>16. ASSUME NEW d, NEW kind, Close(d) \/ Start(d, kind) PROVE Sockets'
  BY <1>4, <1>16 DEF Close, Start, loopvars
<1>17. ASSUME UNCHANGED vars PROVE Sockets'
  BY <1>4, <1>17 DEF vars, loopvars
<1> QED
  BY <1>5, <1>6, <1>7, <1>8, <1>9, <1>10, <1>12, <1>13, <1>14, <1>15, <1>16, <1>17 DEF Next, Loop

(* In every reachable state the strengthened invariant holds.              *)
THEOREM InductiveInvariant == Spec => [](IInv /\ Sockets)
<1>1. Init => IInv /\ Sockets  BY InitIInv, InitSockets
<1>2. IInv /\ Sockets /\ [Next]_vars => IInv' /\ Sockets'
  BY NextIInv, NextSockets DEF Sockets
<1> QED BY <1>1, <1>2, PTL DEF Spec

(* No result ever reaches another operation, however identifiers are used  *)
(* again: the assertion of handleCompletionEvent holds (lwt_unix_impl.ml). *)
THEOREM ResultsMatch == Spec => []Matched
<1>1. IInv => Matched
  <2> SUFFICES ASSUME IInv, NEW op \in OnTheWay
               PROVE  op.id \in DOMAIN ioInFlight /\ ioInFlight[op.id] = op
    BY DEF Matched
  <2>1. /\ kernel \subseteq Async \X AnyOp /\ helper \in [Helpers -> Seq(AnyOp \cup {Exit})]
        /\ apc \in Seq(AnyInfo) /\ events \in Seq(AnyInfo)
    BY DEF IInv, Types
  <2>2. CASE op \in {p[2] : p \in kernel}
    <3>1. PICK p \in kernel : op = p[2]  BY <2>2
    <3>2. p \in Async \X AnyOp /\ p = <<p[1], p[2]>>  BY <2>1, <3>1
    <3>3. op \in AnyOp /\ InKernel(op)  BY <3>1, <3>2 DEF InKernel
    <3> QED BY <3>3, WayOwned DEF Way, Performing
  <2>3. CASE op \in UNION {Range(helper[h]) \ {Exit} : h \in DOMAIN helper}
    <3>1. PICK h \in Helpers : op \in Range(helper[h]) /\ op # Exit  BY <2>1, <2>3
    <3>2. helper[h] \in Seq(AnyOp \cup {Exit})  BY <2>1
    <3>3. DOMAIN helper[h] = 1 .. Len(helper[h])  BY <3>2, LenProperties
    <3>4. PICK i \in 1 .. Len(helper[h]) : op = helper[h][i]  BY <3>1, <3>3 DEF Range
    <3>5. op \in AnyOp  BY <3>1, <3>2, <3>4, ElementOfSeq
    <3>6. InHelper(op)  BY <3>4 DEF InHelper
    <3> QED BY <3>5, <3>6, WayOwned DEF Way, Performing
  <2>4. CASE op \in {e.op : e \in Range(apc) \cup Range(events)}
    <3>1. PICK e \in Range(apc) \cup Range(events) : op = e.op  BY <2>4
    <3>2. DOMAIN apc = 1 .. Len(apc) /\ DOMAIN events = 1 .. Len(events)  BY <2>1, LenProperties
    <3>3. \/ \E i \in 1 .. Len(apc) : e = apc[i]
          \/ \E i \in 1 .. Len(events) : e = events[i]
      BY <3>1, <3>2 DEF Range
    <3>4. op \in AnyOp /\ Way(op)  BY <3>1, <3>3, QueuedOps
    <3> QED BY <3>4, WayOwned
  <2> QED BY <2>2, <2>3, <2>4 DEF OnTheWay
<1> QED BY <1>1, InductiveInvariant, PTL

(* Every thread is told how its own operation ended and gets its own data. *)
THEOREM ResultsOwn == Spec => []OwnResult
<1>1. IInv => OwnResult  BY DEF IInv
<1> QED BY <1>1, InductiveInvariant, PTL

(* Whatever fails, the loop waits for no event object that is closed, but  *)
(* for those that a loop inside another one has left in the list when      *)
(* win_register_wait failed (run, handle_wait_event in lwt_unix_impl.ml).  *)
THEOREM SocketsLive == Spec => []WaitsForLive
<1>1. Sockets => WaitsForLive
  <2> SUFFICES ASSUME Sockets PROVE WaitsForLive
    OBVIOUS
  <2>1. DOMAIN conn = 1 .. Len(conn)  BY LenProperties DEF Sockets
  <2> QED BY <2>1 DEF Sockets, WaitsForLive, WaitsFor
<1> QED BY <1>1, InductiveInvariant, PTL

-----------------------------------------------------------------------------
(* The bounds of the types: every operation and every event object is      *)
(* counted; there are no more buffers and identifiers in use than          *)
(* operations, and at most twice as many identifiers.                      *)
Data == 0 .. MaxOps

Bounds ==
  /\ inner \in Nat /\ Started + made + inner <= MaxOps
  /\ lastId <= Started /\ Len(content) <= Started
  /\ \A i \in DOMAIN freeList : i = 0 \/ i < 2 * Started
  /\ content \in Seq(Data) /\ moved \in Seq(Data)
  /\ thread \subseteq Helpers

LEMMA InitBounds == Init => Bounds
<1> SUFFICES ASSUME Init PROVE Bounds
  OBVIOUS
<1>1. Started = 0 /\ made = 0 /\ inner = 0 /\ MaxOps \in Nat  BY BoundAssumption DEF Init, Started
<1> QED BY <1>1 DEF Init, Bounds

LEMMA StartBounds ==
  ASSUME IInv, Sockets, Bounds, NEW d \in Descrs, NEW kind \in Kinds, Start(d, kind)
  PROVE  Bounds'
<1> DEFINE op == [id |-> FreeList[lastId], kind |-> kind, ticket |-> Started + 1,
                  buf |-> IF avail = <<>> THEN Len(content) + 1 ELSE Head(avail)]
           data == IF kind = "write" THEN op.ticket ELSE 0
<1>1. /\ Bounded /\ freeList' = FreeList /\ lastId' = lastId + 1 /\ AcquireBuffer(data)
      /\ moved' = Append(moved, 0) /\ made' = made /\ inner' = inner
  BY DEF Start, waitvars, loopvars
<1>2. Started' = Started + 1  BY StartLists
<1>3. /\ Started \in Nat /\ made \in Nat /\ inner \in Nat /\ MaxOps \in Nat
      /\ content \in Seq(Data) /\ moved \in Seq(Data) /\ Len(content) \in Nat
      /\ Len(content) <= Started /\ lastId <= Started /\ Started < MaxOps
      /\ Started + made + inner < MaxOps
  BY <1>1, BoundAssumption, LenProperties DEF IInv, Types, Sockets, Bounds, Bounded, Started
<1>4. PICK size \in Nat \ {0} : Identifiers(size)  BY DEF IInv, IdsFree
<1>5. lastId \in Nat /\ lastId \in 0 .. size /\ DOMAIN freeList = 0 .. size - 1
  BY <1>4 DEF Identifiers
<1>6. Cardinality(DOMAIN freeList) = size  BY <1>5, FS_Interval
<1>7. \A i \in DOMAIN freeList' : i = 0 \/ i < 2 * Started'
  <2>1. CASE lastId < size
    <3>1. freeList' = freeList  BY <1>1, <1>6, <2>1 DEF FreeList
    <3>2. \A i \in DOMAIN freeList : i \in Int /\ (i = 0 \/ i < 2 * Started)  BY <1>5 DEF Bounds
    <3> QED BY <1>2, <1>3, <3>1, <3>2
  <2>2. CASE lastId = size
    <3>1. DOMAIN freeList' = 0 .. 2 * size - 1  BY <1>1, <1>6, <2>2 DEF FreeList
    <3> QED BY <1>2, <1>3, <2>2, <3>1
  <2> QED BY <1>5, <2>1, <2>2
<1>8. 0 \in Data /\ data \in Data  BY <1>3 DEF Data
<1> HIDE DEF data
<1>9. content' \in Seq(Data) /\ Len(content') <= Len(content) + 1
  <2>1. CASE avail = <<>>
    <3>1. content' = Append(content, data)  BY <1>1, <2>1 DEF AcquireBuffer
    <3> QED BY <1>3, <1>8, <3>1, AppendProperties
  <2>2. CASE avail # <<>>
    <3>1. content' = content \/ content' = [content EXCEPT ![Head(avail)] = data]
      BY <1>1, <2>2 DEF AcquireBuffer, Blit
    <3>2. Head(avail) \in 1 .. Len(content)
      <4>1. avail \in Seq(Nat \ {0}) /\ Len(avail) # 0 /\ Len(avail) \in Nat
        BY <2>2, EmptySeq, LenProperties DEF IInv, Types
      <4>2. Head(avail) = avail[1] /\ 1 \in 1 .. Len(avail)  BY <2>2, <4>1
      <4> QED BY <4>2 DEF IInv, Available
    <3> QED BY <1>3, <1>8, <3>1, <3>2, ExceptSeq
  <2> QED BY <2>1, <2>2
<1>10. moved' \in Seq(Data)  BY <1>1, <1>3, <1>8, AppendProperties
<1>11. thread' \subseteq Helpers
  <2>1. thread' = thread \/ (d \in Sync /\ thread' = thread \cup {<<d, kind>>})
    BY DEF Start, StartIo, OverlappedAction, ThreadIo, GetHelperThread
  <2> QED BY <2>1 DEF Bounds, Helpers
<1>12. inner' \in Nat /\ Started' + made' + inner' <= MaxOps  BY <1>1, <1>2, <1>3
<1>13. lastId' <= Started' /\ Len(content') <= Started'
  <2>1. Len(content') \in Nat  BY <1>9, LenProperties
  <2> QED BY <1>1, <1>2, <1>3, <1>5, <1>9, <2>1
<1> QED BY <1>7, <1>9, <1>10, <1>11, <1>12, <1>13 DEF Bounds

(* The end of an operation puts data where there are some.                 *)
LEMMA PerformedBounds ==
  ASSUME IInv, Sockets, Bounds, NEW op \in AnyOp, Performing(op), NEW how, NEW len, Performed(op, how, len)
  PROVE  content' \in Seq(Data) /\ Len(content') = Len(content) /\ moved' \in Seq(Data)
<1>1. op.ticket \in 1 .. Started /\ op.buf \in 1 .. Len(content)  BY WayOwned DEF Way
<1>2. /\ content \in Seq(Data) /\ moved \in Seq(Data) /\ Len(moved) = Started
      /\ Started \in Nat /\ MaxOps \in Nat /\ Started <= MaxOps
  <2>1. Started \in Nat  BY LenProperties DEF IInv, Types, Started
  <2>2. Started + made + inner <= MaxOps /\ made \in Nat /\ inner \in Nat  BY DEF Sockets, Bounds
  <2> QED BY <2>1, <2>2, BoundAssumption DEF IInv, Types, Bounds
<1>3. op.ticket \in Data  BY <1>1, <1>2 DEF Data
<1>4. content[op.buf] \in Data  BY <1>1, <1>2, ElementOfSeq
<1>5. content' = content \/ content' = [content EXCEPT ![op.buf] = op.ticket]  BY DEF Performed
<1>6. moved' = moved \/ moved' = [moved EXCEPT ![op.ticket] = content[op.buf]]  BY DEF Performed
<1>7. content' \in Seq(Data) /\ Len(content') = Len(content)
  BY <1>1, <1>2, <1>3, <1>5, ExceptSeq
<1>8. moved' \in Seq(Data)  BY <1>1, <1>2, <1>4, <1>6, ExceptSeq
<1> QED BY <1>7, <1>8

LEMMA NextBounds == IInv /\ Sockets /\ Bounds /\ [Next]_vars => Bounds'
<1> SUFFICES ASSUME IInv, Sockets, Bounds, [Next]_vars PROVE Bounds'
  OBVIOUS
<1>1. /\ Started \in Nat /\ made \in Nat /\ inner \in Nat /\ MaxOps \in Nat
      /\ content \in Seq(Data) /\ moved \in Seq(Data) /\ Len(moved) = Started
      /\ Started + made + inner <= MaxOps /\ thread \subseteq Helpers
  BY BoundAssumption, LenProperties DEF IInv, Types, Sockets, Bounds, Started
<1>2. ASSUME Started' = Started, made' = made, inner' = inner, UNCHANGED idvars,
             thread' \subseteq Helpers,
             content' \in Seq(Data), Len(content') = Len(content), moved' \in Seq(Data)
      PROVE  Bounds'
  BY <1>2 DEF Bounds, idvars
<1>3. ASSUME UNCHANGED <<idvars, datavars>>, thread' \subseteq Helpers,
             \/ made' = made /\ inner' = inner
             \/ Bounded /\ made' = made + 1 /\ inner' = inner
             \/ Bounded /\ made' = made /\ inner' = inner + 1
      PROVE  Bounds'
  <2>1. Started' = Started /\ content' = content /\ moved' = moved
    BY <1>3 DEF datavars, Started
  <2>2. inner' \in Nat /\ Started' + made' + inner' <= MaxOps  BY <1>1, <1>3, <2>1 DEF Bounded
  <2> QED BY <1>3, <2>1, <2>2 DEF Bounds, idvars
<1>4. \A d \in Descrs, kind \in Kinds : Start(d, kind) => Bounds'  BY StartBounds
<1>5. ASSUME NEW d, Close(d) PROVE Bounds'
  BY <1>1, <1>3, <1>5 DEF Close, waitvars, loopvars
<1>6. ASSUME NEW h, Signal(h) \/ HelperExits(h) PROVE Bounds'
  BY <1>1, <1>3, <1>6 DEF Signal, HelperExits, devvars, waitvars, loopvars
<1>7. ASSUME NEW kind, Register(kind) PROVE Bounds'
  BY <1>1, <1>3, <1>7 DEF Register, devvars, loopvars
<1>8. ASSUME WaitCompletion \/ WaitEvent \/ Restarted \/ Handled \/ DispatchAgain PROVE Bounds'
  BY <1>1, <1>3, <1>8
  DEF WaitCompletion, WaitEvent, Restarted, Handled, DispatchAgain, NextWait, devvars, waitvars
<1>9. ASSUME NEW closed, Dispatch(closed) PROVE Bounds'
  BY <1>1, <1>3, <1>9 DEF Dispatch, NextWait, devvars
<1>r. ASSUME WaitFails \/ NoSuchEvent \/ DispatchAgainFails \/ Nest \/ Return PROVE Bounds'
  BY <1>1, <1>3, <1>r
  DEF WaitFails, NoSuchEvent, DispatchAgainFails, Nest, Return, Raise, Resume, devvars, waitvars
<1>10. ASSUME UNCHANGED vars PROVE Bounds'
  BY <1>1, <1>3, <1>10 DEF vars, devvars, waitvars, loopvars
<1>11. ASSUME NEW op, NEW how, NEW len, Performed(op, how, len)
       PROVE  /\ UNCHANGED idvars /\ Started' = Started /\ made' = made /\ inner' = inner
              /\ thread' = thread
  BY <1>11 DEF Performed, waitvars, loopvars, Started
<1>12. ASSUME NEW p \in kernel, NEW how, KernelPerforms(p[1], p[2], how) PROVE Bounds'
  <2> DEFINE len == IF how = "done" THEN 1 ELSE 0
  <2>1. p[2] \in AnyOp /\ Performing(p[2])
    <3>1. p \in Async \X AnyOp /\ p = <<p[1], p[2]>>  BY DEF IInv, Types
    <3> QED BY <3>1 DEF Performing, InKernel
  <2>2. Performed(p[2], how, len)  BY <1>12 DEF KernelPerforms
  <2> HIDE DEF len
  <2>3. content' \in Seq(Data) /\ Len(content') = Len(content) /\ moved' \in Seq(Data)
    BY <2>1, <2>2, PerformedBounds
  <2> QED BY <1>1, <1>2, <1>11, <2>2, <2>3
<1>13. ASSUME NEW h \in Helpers, NEW how, HelperPerforms(h, how) PROVE Bounds'
  <2> DEFINE len == IF how = "done" THEN 1 ELSE -1
             op == Head(helper[h])
  <2>1. op \in AnyOp /\ Performing(op)
    <3>1. helper[h] \in Seq(AnyOp \cup {Exit}) /\ helper[h] # <<>> /\ op # Exit
      BY <1>13 DEF HelperPerforms, IInv, Types
    <3>2. Len(helper[h]) \in Nat /\ Len(helper[h]) # 0  BY <3>1, EmptySeq, LenProperties
    <3>3. 1 \in 1 .. Len(helper[h]) /\ op = helper[h][1]  BY <3>1, <3>2
    <3>4. op \in AnyOp  BY <3>1, <3>3, ElementOfSeq
    <3> QED BY <3>3, <3>4 DEF Performing, InHelper
  <2>2. Performed(op, how, len)  BY <1>13 DEF HelperPerforms
  <2> HIDE DEF len, op
  <2>3. content' \in Seq(Data) /\ Len(content') = Len(content) /\ moved' \in Seq(Data)
    BY <2>1, <2>2, PerformedBounds
  <2> QED BY <1>1, <1>2, <1>11, <2>2, <2>3
<1>14. ASSUME HandleCompletionEvent PROVE Bounds'
  <2> DEFINE op == ioInFlight[Head(events).op.id]
  <2>1. /\ Head(events).op.id \in DOMAIN ioInFlight
        /\ moved' = moved \/ moved' = [moved EXCEPT ![op.ticket] = content[op.buf]]
        /\ outcome' = [outcome EXCEPT ![op.ticket] = IF Head(events).len = -1 THEN "exn" ELSE "done"]
        /\ lastId' = lastId - 1 /\ freeList' = [freeList EXCEPT ![lastId - 1] = Head(events).op.id]
        /\ content' = content /\ made' = made /\ inner' = inner /\ thread' = thread
    BY <1>14 DEF HandleCompletionEvent, ReleaseId, devvars, waitvars, loopvars, DataIn
  <2>2. op.ticket \in 1 .. Started /\ op.buf \in 1 .. Len(content)  BY <2>1 DEF IInv, Owned
  <2> HIDE DEF op
  <2>3. content[op.buf] \in Data  BY <1>1, <2>2, ElementOfSeq
  <2>4. moved' \in Seq(Data)
    <3>1. op.ticket \in 1 .. Len(moved)  BY <1>1, <2>2
    <3>2. [moved EXCEPT ![op.ticket] = content[op.buf]] \in Seq(Data)
      BY <1>1, <2>3, <3>1, ExceptSeq
    <3> QED BY <1>1, <2>1, <3>2
  <2>5. Started' = Started
    <3> DEFINE o == IF Head(events).len = -1 THEN "exn" ELSE "done"
    <3>1. o \in {"flying", "raised", "exn", "done"} /\ outcome' = [outcome EXCEPT ![op.ticket] = o]
      BY <2>1
    <3> HIDE DEF o
    <3> QED BY <2>2, <3>1, ExceptSeq DEF IInv, Types, Started
  <2>6. lastId' <= Started'
    <3>1. lastId \in Nat  BY DEF IInv, IdsFree, Identifiers
    <3> QED BY <1>1, <2>1, <2>5, <3>1 DEF Bounds
  <2>7. DOMAIN freeList' = DOMAIN freeList  BY <2>1
  <2> QED BY <1>1, <2>1, <2>4, <2>5, <2>6, <2>7 DEF Bounds
<1> QED
  BY <1>4, <1>5, <1>6, <1>7, <1>8, <1>9, <1>r, <1>10, <1>12, <1>13, <1>14
  DEF Next, Loop, Device, Helpers

LEMMA InSeq ==
  ASSUME NEW X, NEW s \in Seq(X)
  PROVE  Range(s) \subseteq X
  BY LenProperties, ElementOfSeq DEF Range

(* Operations, their identifiers and buffers stay within the bounds of the *)
(* model; the table of identifiers grows with the operations in progress.  *)
THEOREM TypeCorrect == Spec => []TypeOK
<1>1. IInv /\ Sockets /\ Bounds => TypeOK
  <2> SUFFICES ASSUME IInv, Sockets, Bounds PROVE TypeOK
    OBVIOUS
  <2>1. /\ Started \in Nat /\ MaxOps \in Nat /\ made \in Nat /\ Started <= MaxOps
        /\ Len(content) <= Started /\ Len(content) \in Nat
    <3>1. Started \in Nat /\ Len(content) \in Nat  BY LenProperties DEF IInv, Types, Started
    <3> QED BY <3>1, BoundAssumption DEF Sockets, Bounds
  <2>2. PICK size \in Nat \ {0} : Identifiers(size)  BY DEF IInv, IdsFree
  <2>3. \A i \in DOMAIN ioInFlight : ioInFlight[i] \in Op /\ ioInFlight[i].id = i
    <3> SUFFICES ASSUME NEW i \in DOMAIN ioInFlight
                 PROVE  ioInFlight[i] \in Op /\ ioInFlight[i].id = i
      OBVIOUS
    <3>1. ioInFlight[i] \in AnyOp  BY DEF IInv, Types
    <3>2. /\ ioInFlight[i].id = i /\ ioInFlight[i].ticket \in 1 .. Started
          /\ ioInFlight[i].buf \in 1 .. Len(content)
      BY DEF IInv, Owned
    <3>3. i \in 0 .. 2 * MaxOps
      <4>1. i \in 0 .. size - 1 /\ i \in DOMAIN freeList  BY <2>2 DEF Identifiers
      <4>2. i = 0 \/ i < 2 * Started  BY <4>1 DEF Bounds
      <4> QED BY <2>1, <4>1, <4>2
    <3>4. ioInFlight[i].ticket \in 1 .. MaxOps /\ ioInFlight[i].buf \in 1 .. MaxOps
      BY <2>1, <3>2
    <3> QED BY <3>1, <3>2, <3>3, <3>4 DEF AnyOp, Op
  <2>4. \A op \in AnyOp : Way(op) => op \in Op  BY <2>3, WayOwned
  <2>5. kernel \subseteq Async \X Op
    <3> SUFFICES ASSUME NEW p \in kernel PROVE p \in Async \X Op
      OBVIOUS
    <3>1. p \in Async \X AnyOp /\ p = <<p[1], p[2]>>  BY DEF IInv, Types
    <3>2. Way(p[2])  BY <3>1 DEF Way, Performing, InKernel
    <3> QED BY <2>4, <3>1, <3>2
  <2>6. DOMAIN helper = Sync \X Kinds /\ \A h \in DOMAIN helper : Range(helper[h]) \subseteq Op \cup {Exit}
    <3>1. helper \in [Helpers -> Seq(AnyOp \cup {Exit})]  BY DEF IInv, Types
    <3> SUFFICES ASSUME NEW h \in Helpers, NEW op \in Range(helper[h]) PROVE op \in Op \cup {Exit}
      BY <3>1 DEF Helpers
    <3>2. helper[h] \in Seq(AnyOp \cup {Exit})  BY <3>1
    <3>3. PICK i \in 1 .. Len(helper[h]) : op = helper[h][i]  BY <3>2, LenProperties DEF Range
    <3>4. op \in AnyOp \cup {Exit}  BY <3>2, <3>3, ElementOfSeq
    <3>5. CASE op \in AnyOp
      <4>1. Way(op)  BY <3>3 DEF Way, Performing, InHelper
      <4> QED BY <2>4, <3>5, <4>1
    <3> QED BY <3>4, <3>5
  <2>7. \A q \in {apc, events} : Range(q) \subseteq Info
    <3>1. apc \in Seq(AnyInfo) /\ events \in Seq(AnyInfo)  BY DEF IInv, Types
    <3>2. \A i \in 1 .. Len(apc) : apc[i] \in AnyInfo /\ apc[i].op \in Op
      BY <2>4, <3>1, QueuedOps, ElementOfSeq
    <3>3. \A i \in 1 .. Len(events) : events[i] \in AnyInfo /\ events[i].op \in Op
      BY <2>4, <3>1, QueuedOps, ElementOfSeq
    <3>4. \A e \in AnyInfo : e.op \in Op => e \in Info  BY DEF AnyInfo, Info
    <3>5. DOMAIN apc = 1 .. Len(apc) /\ DOMAIN events = 1 .. Len(events)  BY <3>1, LenProperties
    <3>6. Range(apc) \subseteq Info  BY <3>2, <3>4, <3>5 DEF Range
    <3>7. Range(events) \subseteq Info  BY <3>3, <3>4, <3>5 DEF Range
    <3> QED BY <3>6, <3>7
  <2>8. lastId \in Nat /\ Range(freeList) \subseteq DOMAIN freeList
    BY <2>2 DEF Identifiers, Range
  <2>9. Range(avail) \subseteq DOMAIN content
    <3>1. DOMAIN avail = 1 .. Len(avail) /\ DOMAIN content = 1 .. Len(content)
      BY LenProperties DEF IInv, Types
    <3> QED BY <3>1 DEF Range, IInv, Available
  <2>10. Range(content) \subseteq 0 .. MaxOps /\ Range(moved) \subseteq 0 .. MaxOps
    BY InSeq DEF Bounds, Data
  <2>11. /\ Range(ended) \subseteq {"no", "exn", "done"}
         /\ Range(outcome) \subseteq {"flying", "raised", "exn", "done"}
    BY InSeq DEF IInv, Types
  <2>12. Range(conn) \subseteq [h : 1 .. made, kind : {"accept", "connect"}]
    BY InSeq DEF Sockets, Conn
  <2>13. open \subseteq Descrs /\ thread \subseteq Sync \X Kinds  BY DEF IInv, Types, Bounds, Helpers
  <2>14. /\ live \subseteq 1 .. made /\ sig \subseteq 1 .. made /\ left \subseteq 1 .. made
         /\ ret \in Nat /\ pc \in Threads \cup {"dispatch", "ended"}
    BY DEF Sockets
  <2>15. base \in 0 .. Len(events) /\ inner \in 0 .. MaxOps
    <3>1. Len(events) \in Nat  BY LenProperties DEF IInv, Types
    <3> QED BY <2>1, <3>1 DEF IInv, Stacked, Bounds
  <2>16. Range(outer) \subseteq [ret : Nat, base : 0 .. base, pc : Threads]
    <3>1. outer \in Seq(Frame) /\ DOMAIN outer = 1 .. Len(outer) /\ base \in Nat
      BY LenProperties DEF IInv, Stacked
    <3>2. \A i \in 1 .. Len(outer) : outer[i] \in Frame /\ outer[i].base <= base
      BY <3>1, ElementOfSeq DEF IInv, Stacked
    <3>3. \A f \in Frame : f.base <= base => f \in [ret : Nat, base : 0 .. base, pc : Threads]
      BY <3>1 DEF Frame
    <3> QED BY <3>1, <3>2, <3>3 DEF Range
  <2> QED
    BY <2>3, <2>5, <2>6, <2>7, <2>8, <2>9, <2>10, <2>11, <2>12, <2>13, <2>14, <2>15, <2>16
    DEF TypeOK
<1>2. Init => Bounds  BY InitBounds
<1>4. Spec => []Bounds
  <2>1. IInv /\ Sockets /\ Bounds /\ [Next]_vars => Bounds'  BY NextBounds
  <2> QED BY <1>2, <2>1, InductiveInvariant, PTL DEF Spec
<1> QED BY <1>1, <1>4, InductiveInvariant, PTL

=============================================================================
