--------------------------- MODULE FileCallsProofs --------------------------
(***************************************************************************)
(* Files of any length, copied in pieces of any size; attributes with any  *)
(* values; any number of changes by other programs and of failing calls.   *)
(* In this order: copies (CopyInv: Placed, Whole), the mode (ModeSafe:     *)
(* ModeKept), the attributes that are read and written (XattrInv:          *)
(* ReadWhole, OnlySynced), what reading and setting them amounts to        *)
(* (XattrWork), and access control lists (AclInv).  The last two give      *)
(* Applied and NotRefused.                                                 *)
(***************************************************************************)
EXTENDS FileCalls, FoldLemmas

-----------------------------------------------------------------------------
(* Copying.  What is a byte of the target.                                 *)
Byte == Stale..MaxLength

CopyTypes ==
  /\ fileLength \in 0..MaxLength
  /\ mode \in {"local", "rsync"} /\ (mode = "rsync" => fileLength >= 2)
  /\ pc \in {"path", "file", "piece", "range", "sendfile", "duplicate", "read",
             "ok", "failed"}
  /\ srcLen \in 0..MaxLength /\ edits \in 0..MaxEdits
  /\ edits = 0 => srcLen = fileLength
  /\ outPos \in Nat /\ inPos \in Nat /\ copied \in Nat /\ left \in Nat
  /\ dst \in Seq(Byte) /\ buffer \in Seq(Byte)

(* The byte b may be at i.                                                 *)
Right(i, b) == b = Expected(i) \/ (edits > 0 /\ (mode = "rsync" \/ b = 0))

(* What is written belongs there, and what the buffer holds back will.     *)
Contents ==
  /\ outPos <= Len(dst) /\ (edits = 0 => Len(dst) <= GoalLength)
  /\ \A i \in 1..outPos : Right(i, dst[i])
  /\ \A j \in 1..Len(buffer) : Right(outPos + j, buffer[j])

(* The pieces ps are still to come, from offset s of the target.           *)
At(ps, s) ==
  IF mode = "local"
  THEN \/ ps = <<Block(0, fileLength)>> /\ s = 0
       \/ ps = <<>> /\ s = fileLength
  ELSE \/ ps = <<String(1), Block(1, fileLength - 1), String(2), Block(0, 1)>> /\ s = 0
       \/ ps = <<Block(1, fileLength - 1), String(2), Block(0, 1)>> /\ s = 1
       \/ ps = <<String(2), Block(0, 1)>> /\ s = fileLength
       \/ ps = <<Block(0, 1)>> /\ s = fileLength + 1
       \/ ps = <<>> /\ s = fileLength + 2

(* Where the copy is.  Once the file has changed, the decompressor may be  *)
(* anywhere in it.                                                         *)
Untouched == outPos = 0 /\ buffer = <<>> /\ inPos = 0
Steady == mode = "local" \/ edits = 0

InBlock == pieces # <<>> /\ block.kind = "block"

Phase(s) ==
  CASE pc \in {"path", "file"} -> mode = "local" /\ pieces # <<>> /\ copied = 0 /\ Untouched
    [] pc = "piece" ->
         /\ copied = 0
         /\ edits = 0 => outPos + Len(buffer) = s
         /\ mode = "local" /\ pieces # <<>> => Untouched
    [] pc \in {"range", "sendfile", "duplicate"} ->
         /\ InBlock /\ copied < block.len /\ buffer = <<>>
         /\ Steady => outPos = s + copied
         /\ mode = "local" => inPos = 0
    [] pc = "read" ->
         /\ InBlock
         /\ Steady => outPos + Len(buffer) = s + inPos - block.off
         /\ edits = 0 => inPos \in block.off..block.off + block.len
         /\ IF mode = "rsync" THEN edits = 0 => inPos + left = block.off + block.len
            ELSE inPos + left >= fileLength
    [] pc = "ok" -> edits = 0 => dst = [i \in 1..GoalLength |-> Expected(i)]
    [] OTHER -> TRUE

CopyInv == CopyTypes /\ Contents /\ \E s \in Nat : At(pieces, s) /\ Phase(s)

-----------------------------------------------------------------------------
(* What the operators of the copy compute.                                 *)
LEMMA MaxOfTwo ==
  ASSUME NEW a \in Int, NEW b \in Int
  PROVE  Max({a, b}) = IF a >= b THEN a ELSE b
<1>1. IsFiniteSet({a, b})
  <2>1. IsFiniteSet({a})  BY FS_Singleton
  <2>2. {a, b} = {a} \cup {b}  OBVIOUS
  <2> QED BY <2>1, <2>2, FS_AddElement
<1>2. Max({a, b}) \in {a, b} /\ a <= Max({a, b}) /\ b <= Max({a, b})
  <2> DEFINE S == {a, b}
  <2>1. S \subseteq Int /\ S # {} /\ a \in S /\ b \in S  OBVIOUS
  <2> HIDE DEF S
  <2>2. Max(S) \in S /\ \A x \in S : x <= Max(S)  BY <1>1, <2>1, MaxInSet DEF S
  <2> QED BY <2>1, <2>2 DEF S
<1> QED BY <1>2

LEMMA SeqOfLen ==
  ASSUME NEW X, NEW n \in Nat, NEW w \in [1..n -> X]
  PROVE  w \in Seq(X) /\ Len(w) = n
<1>1. w \in Seq(X)  BY SeqDef
<1>2. DOMAIN w = 1..Len(w) /\ Len(w) \in Nat /\ DOMAIN w = 1..n  BY <1>1, LenProperties
<1>3. Len(w) = n
  <2>1. ASSUME Len(w) < n PROVE FALSE
    <3>1. n \in 1..n /\ n \notin 1..Len(w)  BY <1>2, <2>1
    <3> QED BY <1>2, <3>1
  <2>2. ASSUME n < Len(w) PROVE FALSE
    <3>1. Len(w) \in 1..Len(w) /\ Len(w) \notin 1..n  BY <1>2, <2>2
    <3> QED BY <1>2, <3>1
  <2> QED BY <1>2, <2>1, <2>2
<1> QED BY <1>1, <1>3

LEMMA WrittenIs ==
  ASSUME NEW X, 0 \in X, NEW d \in Seq(X), NEW p \in Nat, NEW b \in Seq(X)
  PROVE  /\ Written(d, p, b) \in Seq(X)
         /\ Len(Written(d, p, b)) = IF Len(d) >= p + Len(b) THEN Len(d) ELSE p + Len(b)
         /\ \A i \in 1..Len(d) : i <= p => Written(d, p, b)[i] = d[i]
         /\ \A j \in 1..Len(b) : Written(d, p, b)[p + j] = b[j]
<1> DEFINE m == Max({Len(d), p + Len(b)})
           w == [i \in 1..m |-> IF i \in p + 1..p + Len(b) THEN b[i - p]
                                ELSE IF i <= Len(d) THEN d[i] ELSE 0]
<1>1. /\ Len(d) \in Nat /\ Len(b) \in Nat
      /\ (\A i \in 1..Len(d) : d[i] \in X) /\ (\A j \in 1..Len(b) : b[j] \in X)
  BY LenProperties, ElementOfSeq
<1>2. m = IF Len(d) >= p + Len(b) THEN Len(d) ELSE p + Len(b)  BY <1>1, MaxOfTwo
<1> HIDE DEF m
<1>3. m \in Nat  BY <1>1, <1>2
<1>4. \A i \in 1..m : w[i] \in X
  <2> SUFFICES ASSUME NEW i \in 1..m PROVE w[i] \in X
    OBVIOUS
  <2>1. i \in p + 1..p + Len(b) => i - p \in 1..Len(b)  BY <1>1
  <2> QED BY <1>1, <1>3, <2>1
<1>5. w \in Seq(X) /\ Len(w) = m
  <2>1. w \in [1..m -> X]  BY <1>4
  <2> HIDE DEF w
  <2> QED BY <1>3, <2>1, SeqOfLen
<1>6. \A i \in 1..Len(d) : i <= p => w[i] = d[i]  BY <1>1, <1>2
<1>7. \A j \in 1..Len(b) : w[p + j] = b[j]
  <2> SUFFICES ASSUME NEW j \in 1..Len(b) PROVE w[p + j] = b[j]
    OBVIOUS
  <2>1. p + j \in 1..m /\ p + j \in p + 1..p + Len(b) /\ (p + j) - p = j  BY <1>1, <1>2
  <2> QED BY <2>1
<1>8. Written(d, p, b) = w  BY DEF Written, m
<1> HIDE DEF w
<1> QED BY <1>2, <1>5, <1>6, <1>7, <1>8

LEMMA BytesAre ==
  ASSUME srcLen \in 0..MaxLength, MaxLength \in Nat, NEW off \in Nat, NEW n \in Nat
  PROVE  /\ Bytes(off, n) \in Seq(Byte) /\ Len(Bytes(off, n)) = n
         /\ \A i \in 1..n : Bytes(off, n)[i] = IF off + i <= srcLen THEN off + i ELSE 0
<1> DEFINE w == [i \in 1..n |-> IF off + i <= srcLen THEN off + i ELSE 0]
<1>1. \A i \in 1..n : w[i] \in Byte  BY DEF Byte, Stale
<1>2. w \in [1..n -> Byte]  BY <1>1
<1>3. \A i \in 1..n : w[i] = IF off + i <= srcLen THEN off + i ELSE 0  OBVIOUS
<1>4. Bytes(off, n) = w  BY DEF Bytes
<1> HIDE DEF w
<1>5. w \in Seq(Byte) /\ Len(w) = n  BY <1>2, SeqOfLen
<1> QED BY <1>3, <1>4, <1>5

(* The next piece, and what comes after it.                                *)
LEMMA NextIs ==
  ASSUME CopyTypes, MaxLength \in Nat, NEW s \in Nat, At(pieces, s), pieces # <<>>
  PROVE  /\ block.kind \in {"string", "block"} /\ block.len \in Nat
         /\ s + block.len <= GoalLength /\ At(Tail(pieces), s + block.len)
         /\ block.kind = "string" =>
              mode = "rsync" /\ block.len = 1 /\ block.off \in Byte /\ Expected(s + 1) = block.off
         /\ block.kind = "block" =>
              /\ block.off \in Nat /\ block.off + block.len <= fileLength
              /\ \A j \in 1..block.len : Expected(s + j) = block.off + j
         /\ mode = "local" => s = 0 /\ block.off = 0 /\ block.len = fileLength /\ Tail(pieces) = <<>>
<1>1. fileLength \in Nat /\ (mode = "rsync" => fileLength >= 2) /\ mode \in {"local", "rsync"}
  BY DEF CopyTypes
<1> USE DEF block, String, Block
<1>2. CASE mode = "local"
  <2>1. pieces = <<[kind |-> "block", off |-> 0, len |-> fileLength]>> /\ s = 0
    BY <1>2 DEF At
  <2> QED BY <1>1, <1>2, <2>1 DEF At, Expected, GoalLength
<1>3. CASE mode = "rsync"
  <2>1. CASE pieces = <<String(1), Block(1, fileLength - 1), String(2), Block(0, 1)>> /\ s = 0
    BY <1>1, <1>3, <2>1 DEF At, Expected, GoalLength, Byte, Stale
  <2>2. CASE pieces = <<Block(1, fileLength - 1), String(2), Block(0, 1)>> /\ s = 1
    BY <1>1, <1>3, <2>2 DEF At, Expected, GoalLength
  <2>3. CASE pieces = <<String(2), Block(0, 1)>> /\ s = fileLength
    BY <1>1, <1>3, <2>3 DEF At, Expected, GoalLength, Byte, Stale
  <2>4. CASE pieces = <<Block(0, 1)>> /\ s = fileLength + 1
    BY <1>1, <1>3, <2>4 DEF At, Expected, GoalLength
  <2> QED BY <1>3, <2>1, <2>2, <2>3, <2>4 DEF At
<1> QED BY <1>1, <1>2, <1>3

LEMMA NoneIsLast ==
  ASSUME NEW s, At(pieces, s), pieces = <<>>
  PROVE  s = GoalLength
  BY DEF At, GoalLength

LEMMA CopyBounds == MaxLength \in Nat /\ MaxEdits \in Nat /\ Chunk \in Nat \ {0} /\ Cluster \in Nat \ {0}
  BY CopyConstants

(* What the kernel may be asked to copy of a block.                        *)
LEMMA Asked ==
  ASSUME CopyInv, pc \in {"range", "sendfile", "duplicate"}
  PROVE  /\ len \in 1..block.len - copied
         /\ available \in 0..len /\ (edits = 0 => available > 0)
<1>1. PICK s \in Nat : At(pieces, s) /\ Phase(s)  BY DEF CopyInv
<1>2. InBlock /\ copied < block.len  BY <1>1 DEF Phase
<1>3. CopyTypes /\ copied \in Nat /\ srcLen \in 0..MaxLength /\ (edits = 0 => srcLen = fileLength)
  BY DEF CopyInv, CopyTypes
<1>4. block.len \in Nat /\ block.off \in Nat /\ block.off + block.len <= fileLength
  BY <1>1, <1>2, <1>3, CopyBounds, NextIs DEF InBlock
<1>5. len \in 1..block.len - copied  BY <1>2, <1>3, <1>4, CopyBounds DEF len, Least
<1>6. offset = block.off + copied  BY DEF offset
<1> DEFINE m == Least(len, srcLen - offset)
<1>7. /\ m \in Int /\ m <= len /\ (edits = 0 => m > 0)
  <2>1. offset \in Nat /\ srcLen \in Nat /\ len \in Int /\ len > 0  BY <1>3, <1>4, <1>5, <1>6
  <2>2. edits = 0 => srcLen - offset > 0  BY <1>2, <1>3, <1>4, <1>6
  <2> QED BY <2>1, <2>2 DEF Least
<1>8. available = IF 0 >= m THEN 0 ELSE m  BY <1>7, MaxOfTwo DEF available
<1> QED BY <1>5, <1>7, <1>8

-----------------------------------------------------------------------------
(* More bytes in the target, where the next ones belong.                   *)
LEMMA PutStep ==
  ASSUME CopyTypes, Contents, MaxLength \in Nat, NEW b \in Seq(Byte),
         \A j \in 1..Len(b) : Right(outPos + j, b[j]),
         edits = 0 => outPos + Len(b) <= GoalLength,
         dst' = Written(dst, outPos, b), outPos' = outPos + Len(b), UNCHANGED Source
  PROVE  /\ dst' \in Seq(Byte) /\ outPos' \in Nat /\ outPos' <= Len(dst')
         /\ edits = 0 => Len(dst') <= GoalLength
         /\ Len(dst') = outPos' \/ Len(dst') = Len(dst)
         /\ \A i \in 1..outPos' : Right(i, dst'[i])
<1>1. 0 \in Byte /\ outPos \in Nat /\ dst \in Seq(Byte) /\ Len(b) \in Nat /\ Len(dst) \in Nat
  BY LenProperties DEF Byte, Stale, CopyTypes
<1>2. /\ dst' \in Seq(Byte)
      /\ Len(dst') = IF Len(dst) >= outPos + Len(b) THEN Len(dst) ELSE outPos + Len(b)
      /\ \A i \in 1..Len(dst) : i <= outPos => dst'[i] = dst[i]
      /\ \A j \in 1..Len(b) : dst'[outPos + j] = b[j]
  <2> HIDE DEF Byte
  <2>1. dst' = Written(dst, outPos, b)  OBVIOUS
  <2> QED BY <1>1, <2>1, WrittenIs
<1>3. \A i \in 1..outPos' : Right(i, dst'[i])
  <2> SUFFICES ASSUME NEW i \in 1..outPos' PROVE Right(i, dst'[i])
    OBVIOUS
  <2>1. CASE i <= outPos
    <3>1. i \in 1..outPos /\ i \in 1..Len(dst)  BY <1>1, <2>1 DEF Contents
    <3> QED BY <1>2, <2>1, <3>1 DEF Contents
  <2>2. CASE i > outPos
    <3>1. i - outPos \in 1..Len(b) /\ outPos + (i - outPos) = i  BY <1>1, <2>2
    <3>2. dst'[outPos + (i - outPos)] = b[i - outPos] /\ Right(outPos + (i - outPos), b[i - outPos])
      BY <1>2, <3>1
    <3> QED BY <3>1, <3>2
  <2> QED BY <1>1, <2>1, <2>2
<1>4. edits = 0 => Len(dst) <= GoalLength  BY DEF Contents
<1> QED BY <1>1, <1>2, <1>3, <1>4

(* Bytes of the file, where the bytes of the block belong.                 *)
LEMMA BytesRight ==
  ASSUME CopyTypes, MaxLength \in Nat, NEW s \in Nat, At(pieces, s), InBlock,
         NEW a \in Nat, NEW n \in Nat, NEW p \in Nat,
         Steady => p = s + a - block.off,
         edits = 0 => a >= block.off /\ a + n <= block.off + block.len
  PROVE  \A j \in 1..n : Right(p + j, Bytes(a, n)[j])
<1>1. /\ block.len \in Nat /\ block.off \in Nat /\ block.off + block.len <= fileLength
      /\ \A j \in 1..block.len : Expected(s + j) = block.off + j
      /\ mode = "local" => s = 0 /\ block.off = 0
  BY NextIs DEF InBlock
<1>2. /\ srcLen \in 0..MaxLength /\ fileLength \in Nat /\ edits \in Nat
      /\ edits = 0 => srcLen = fileLength
      /\ mode \in {"local", "rsync"}
  BY CopyBounds DEF CopyTypes
<1> SUFFICES ASSUME NEW j \in 1..n PROVE Right(p + j, Bytes(a, n)[j])
  OBVIOUS
<1>3. Bytes(a, n)[j] = IF a + j <= srcLen THEN a + j ELSE 0  BY <1>2, BytesAre
<1> HIDE DEF block
<1>4. CASE edits = 0
  <2>1. a + j <= srcLen  BY <1>1, <1>2, <1>4
  <2> DEFINE k == a + j - block.off
  <2>2. p = s + a - block.off  BY <1>4 DEF Steady
  <2>3. k \in 1..block.len  BY <1>1, <1>4
  <2>4. s + k = p + j /\ block.off + k = a + j  BY <1>1, <2>2
  <2>5. Expected(s + k) = block.off + k  BY <1>1, <2>3
  <2> QED BY <1>3, <2>1, <2>4, <2>5 DEF Right
<1>5. CASE edits > 0 /\ mode = "local"
  <2>1. p = a  BY <1>1, <1>5 DEF Steady
  <2> QED BY <1>3, <1>5, <2>1 DEF Right, Expected
<1>6. CASE edits > 0 /\ mode = "rsync"  BY <1>6 DEF Right
<1> QED BY <1>2, <1>4, <1>5, <1>6

LEMMA RightStays ==
  ASSUME UNCHANGED Source
  PROVE  /\ \A i, b : Right(i, b)' <=> Right(i, b)
         /\ GoalLength' = GoalLength /\ (Steady' <=> Steady)
  BY DEF Source, Right, Expected, GoalLength, Steady

LEMMA AtStays ==
  ASSUME UNCHANGED Source, NEW s, NEW ps, At(ps, s), pieces' = ps
  PROVE  At(pieces, s)'
  BY DEF Source, At

(* The kernel has copied n bytes.                                          *)
LEMMA CopiedStep ==
  ASSUME CopyInv, pc \in {"range", "sendfile", "duplicate"}, NEW n \in 0..len,
         n = 0 => edits > 0, Copied(n)
  PROVE  CopyInv'
<1>1. PICK s \in Nat : At(pieces, s) /\ Phase(s)  BY DEF CopyInv
<1>2. CopyTypes /\ Contents /\ MaxLength \in Nat  BY CopyBounds DEF CopyInv
<1>3. /\ InBlock /\ copied < block.len /\ buffer = <<>>
      /\ Steady => outPos = s + copied
      /\ mode = "local" => inPos = 0
  BY <1>1 DEF Phase
<1>4. len \in 1..block.len - copied /\ n \in Nat /\ n <= block.len - copied
  <2>1. len \in 1..block.len - copied  BY Asked
  <2>2. copied \in Nat /\ block.len \in Nat  BY <1>1, <1>2, <1>3, NextIs DEF InBlock, CopyTypes
  <2> HIDE DEF len, block
  <2> QED BY <2>1, <2>2
<1>5. /\ block.len \in Nat /\ block.off \in Nat /\ s + block.len <= GoalLength
      /\ At(Tail(pieces), s + block.len)
      /\ mode = "local" => s = 0 /\ Tail(pieces) = <<>>
  BY <1>1, <1>2, <1>3, NextIs DEF InBlock
<1>6. /\ dst' = Written(dst, outPos, Bytes(offset, n)) /\ outPos' = outPos + n
      /\ UNCHANGED Source /\ UNCHANGED Channels
      /\ \/ /\ n = 0 \/ copied + n = block.len
            /\ pieces' = Tail(pieces) /\ pc' = "piece" /\ copied' = 0
         \/ /\ ~(n = 0 \/ copied + n = block.len)
            /\ pc' = "range" /\ copied' = copied + n /\ pieces' = pieces
  BY DEF Copied
<1>7. /\ copied \in Nat /\ outPos \in Nat /\ inPos \in Nat /\ left \in Nat
      /\ offset = block.off + copied /\ offset \in Nat /\ srcLen \in 0..MaxLength
  BY <1>2, <1>5 DEF CopyTypes, offset
<1>8. Bytes(offset, n) \in Seq(Byte) /\ Len(Bytes(offset, n)) = n
  BY <1>2, <1>4, <1>7, BytesAre
<1>9. \A j \in 1..n : Right(outPos + j, Bytes(offset, n)[j])
  <2>1. Steady => outPos = s + offset - block.off
    <3>1. \A u, v, w \in Nat : u + (v + w) - v = u + w  OBVIOUS
    <3>2. s \in Nat /\ block.off \in Nat /\ copied \in Nat  BY <1>5, <1>7
    <3>3. s + (block.off + copied) - block.off = s + copied  BY <3>1, <3>2
    <3> QED BY <1>3, <1>7, <3>3
  <2>2. edits = 0 => offset >= block.off /\ offset + n <= block.off + block.len
    BY SMTT(30), <1>4, <1>5, <1>7
  <2> QED BY <1>1, <1>2, <1>3, <1>4, <1>7, <2>1, <2>2, BytesRight
<1>10. edits = 0 => outPos + n <= GoalLength
  <2>1. GoalLength \in Int  BY <1>2 DEF GoalLength, CopyTypes
  <2> HIDE DEF block, GoalLength
  <2> QED BY <1>3, <1>4, <1>5, <1>7, <2>1 DEF Steady
<1> HIDE DEF offset, block
<1>11. /\ dst' \in Seq(Byte) /\ outPos' \in Nat /\ outPos' <= Len(dst')
       /\ edits = 0 => Len(dst') <= GoalLength
       /\ \A i \in 1..outPos' : Right(i, dst'[i])
  BY <1>2, <1>6, <1>8, <1>9, <1>10, PutStep
<1>12. CopyTypes'
  BY SMTT(30), <1>2, <1>4, <1>6, <1>7, <1>11 DEF CopyTypes, Source, Channels, Byte, Stale
<1>13. Contents'
  <2>1. buffer' = <<>> /\ Len(buffer') = 0  BY <1>3, <1>6 DEF Channels
  <2> QED BY <1>6, <1>11, <2>1, RightStays DEF Contents, Source
<1>14. CASE n = 0 \/ copied + n = block.len
  <2>1. pieces' = Tail(pieces) /\ pc' = "piece" /\ copied' = 0  BY <1>6, <1>14
  <2>t. PICK t \in Nat : t = s + block.len  BY <1>5
  <2>2. At(pieces, t)'  BY <1>5, <1>6, <2>1, <2>t, AtStays
  <2>3. edits = 0 => outPos' = t  BY <2>t, <1>3, <1>5, <1>6, <1>7, <1>14 DEF Steady
  <2>4. edits' = edits /\ mode' = mode /\ buffer' = <<>>  BY <1>3, <1>6 DEF Source, Channels
  <2>5. Phase(t)'  BY <1>5, <1>11, <2>1, <2>3, <2>4 DEF Phase
  <2> QED BY <1>12, <1>13, <2>2, <2>5 DEF CopyInv
<1>15. CASE ~(n = 0 \/ copied + n = block.len)
  <2>1. pieces' = pieces /\ pc' = "range" /\ copied' = copied + n  BY <1>6, <1>15
  <2>2. At(pieces, s)'  BY <1>1, <1>6, <2>1, AtStays
  <2>3. copied' < block.len  BY SMTT(30), <1>4, <1>5, <1>7, <1>15, <2>1
  <2>4. Steady => outPos' = s + copied'  BY <1>3, <1>4, <1>6, <1>7, <2>1
  <2>5. edits' = edits /\ mode' = mode /\ buffer' = <<>> /\ inPos' = inPos
    BY <1>3, <1>6 DEF Source, Channels
  <2>6. block' = block /\ InBlock'  BY <1>3, <2>1 DEF block, InBlock
  <2>7. Phase(s)'  BY <1>3, <1>6, <2>1, <2>3, <2>4, <2>5, <2>6, RightStays DEF Phase
  <2> QED BY <1>12, <1>13, <2>2, <2>7 DEF CopyInv
<1> QED BY <1>14, <1>15

(* What has been copied stays; the rest is going to be read and written.   *)
LEMMA FallbackStep ==
  ASSUME CopyInv, pc \in {"range", "sendfile", "duplicate"}, Fallback,
         UNCHANGED <<Source, pieces, outPos, buffer, copied>>,
         dst' \in Seq(Byte), outPos <= Len(dst'), edits = 0 => Len(dst') <= GoalLength,
         \A i \in 1..outPos : dst'[i] = dst[i]
  PROVE  CopyInv'
<1>1. PICK s \in Nat : At(pieces, s) /\ Phase(s)  BY DEF CopyInv
<1>2. CopyTypes /\ Contents /\ MaxLength \in Nat  BY CopyBounds DEF CopyInv
<1>3. /\ InBlock /\ copied < block.len /\ buffer = <<>>
      /\ Steady => outPos = s + copied
      /\ mode = "local" => inPos = 0
  BY <1>1 DEF Phase
<1>4. /\ block.len \in Nat /\ block.off \in Nat
      /\ mode = "local" => block.off = 0 /\ block.len = fileLength
      /\ copied \in Nat /\ outPos \in Nat /\ fileLength \in Nat /\ mode \in {"local", "rsync"}
  BY <1>1, <1>2, <1>3, NextIs DEF InBlock, CopyTypes
<1>5. /\ pc' = "read" /\ inPos' = IF mode = "rsync" \/ copied # 0 THEN offset ELSE inPos
      /\ left' = IF mode = "rsync" THEN block.len - copied ELSE fileLength
  BY DEF Fallback
<1>6. /\ pieces' = pieces /\ outPos' = outPos /\ buffer' = <<>> /\ copied' = copied
      /\ block' = block /\ InBlock' /\ UNCHANGED Source
  BY <1>3 DEF block, InBlock
<1> HIDE DEF block
<1>7. inPos' = block.off + copied  BY <1>3, <1>4, <1>5 DEF offset
<1>8. left' \in Nat /\ inPos' \in Nat  BY <1>3, <1>4, <1>5, <1>7
<1>9. CopyTypes'  BY <1>2, <1>5, <1>6, <1>8 DEF CopyTypes, Source, Byte, Stale
<1>10. Contents'
  <2>1. Len(buffer') = 0  BY <1>6
  <2> QED BY <1>2, <1>6, <2>1, RightStays DEF Contents, Source
<1>11. At(pieces, s)'  BY <1>1, <1>6, AtStays
<1>12. Phase(s)'
  <2>1. edits' = edits /\ mode' = mode /\ fileLength' = fileLength /\ Len(buffer') = 0
    BY <1>6 DEF Source
  <2>2. Steady => outPos' + Len(buffer') = s + inPos' - block'.off
    BY <1>3, <1>4, <1>6, <1>7, <2>1
  <2>3. inPos' \in block'.off..block'.off + block'.len  BY <1>3, <1>4, <1>6, <1>7
  <2>4. IF mode = "rsync" THEN edits = 0 => inPos' + left' = block'.off + block'.len
        ELSE inPos' + left' >= fileLength
    BY <1>3, <1>4, <1>5, <1>6, <1>7
  <2> QED BY <1>5, <1>6, <2>1, <2>2, <2>3, <2>4, RightStays DEF Phase
<1> QED BY <1>9, <1>10, <1>11, <1>12 DEF CopyInv

(* More bytes are read into the buffer.                                    *)
LEMMA BufferStep ==
  ASSUME CopyInv, pc = "read", NEW n \in 1..left, NEW r \in Nat, NEW b \in Seq(Byte), Len(b) = n,
         Steady => r = n,
         edits = 0 => inPos + n <= block.off + block.len,
         \A j \in 1..n : Right((outPos + Len(buffer)) + j, b[j]),
         buffer' = buffer \o b, inPos' = inPos + r, left' = left - n,
         UNCHANGED <<pc, pieces, copied>>, UNCHANGED <<Source, dst, outPos>>
  PROVE  CopyInv'
<1>1. PICK s \in Nat : At(pieces, s) /\ Phase(s)  BY DEF CopyInv
<1>2. CopyTypes /\ Contents /\ MaxLength \in Nat  BY CopyBounds DEF CopyInv
<1>4. /\ InBlock
      /\ Steady => outPos + Len(buffer) = s + inPos - block.off
      /\ edits = 0 => inPos \in block.off..block.off + block.len
      /\ IF mode = "rsync" THEN edits = 0 => inPos + left = block.off + block.len
         ELSE inPos + left >= fileLength
  BY <1>1 DEF Phase
<1>5. block.len \in Nat /\ block.off \in Nat  BY <1>1, <1>2, <1>4, NextIs DEF InBlock
<1>6. /\ copied \in Nat /\ outPos \in Nat /\ inPos \in Nat /\ left \in Nat /\ buffer \in Seq(Byte)
      /\ fileLength \in Nat /\ mode \in {"local", "rsync"} /\ Len(buffer) \in Nat
  BY <1>2, CopyBounds, LenProperties DEF CopyTypes
<1> HIDE DEF block
<1>7. n \in Nat /\ n <= left  BY <1>6
<1>8. /\ buffer' \in Seq(Byte) /\ Len(buffer') = Len(buffer) + n
      /\ \A j \in 1..Len(buffer) : buffer'[j] = buffer[j]
      /\ \A j \in Len(buffer) + 1..Len(buffer) + n : buffer'[j] = b[j - Len(buffer)]
  <2>1. /\ buffer \o b \in Seq(Byte) /\ Len(buffer \o b) = Len(buffer) + n
        /\ \A i \in 1..Len(buffer) + n :
             (buffer \o b)[i] = IF i <= Len(buffer) THEN buffer[i] ELSE b[i - Len(buffer)]
    BY <1>6, ConcatProperties
  <2>2. \A j \in 1..Len(buffer) : j \in 1..Len(buffer) + n /\ j <= Len(buffer)  BY <1>6, <1>7
  <2>3. \A j \in Len(buffer) + 1..Len(buffer) + n : j \in 1..Len(buffer) + n /\ ~(j <= Len(buffer))
    BY <1>6, <1>7
  <2> QED BY <2>1, <2>2, <2>3
<1>9. \A j \in 1..Len(buffer') : Right(outPos + j, buffer'[j])
  <2> SUFFICES ASSUME NEW j \in 1..Len(buffer') PROVE Right(outPos + j, buffer'[j])
    OBVIOUS
  <2>1. CASE j <= Len(buffer)
    <3>1. j \in 1..Len(buffer)  BY <1>6, <1>8, <2>1
    <3> QED BY <1>2, <1>8, <3>1 DEF Contents
  <2>2. CASE j > Len(buffer)
    <3>1. j - Len(buffer) \in 1..n /\ j \in Len(buffer) + 1..Len(buffer) + n
          /\ (outPos + Len(buffer)) + (j - Len(buffer)) = outPos + j
      BY <1>6, <1>7, <1>8, <2>2
    <3>2. Right((outPos + Len(buffer)) + (j - Len(buffer)), b[j - Len(buffer)])  BY <3>1
    <3> QED BY <1>8, <3>1, <3>2
  <2> QED BY <1>6, <1>8, <2>1, <2>2
<1>10. CopyTypes'
  <2>1. left' \in Nat /\ inPos' \in Nat  BY <1>6, <1>7
  <2> QED BY <1>2, <1>8, <2>1 DEF CopyTypes, Source, Byte, Stale
<1>11. Contents'  BY <1>2, <1>9, RightStays DEF Contents, Source
<1>12. At(pieces, s)'  BY <1>1, AtStays
<1>13. Phase(s)'
  <2>1. block' = block /\ InBlock'  BY <1>4 DEF block, InBlock
  <2>2. Steady => outPos' + Len(buffer') = s + inPos' - block'.off
    <3>1. \A k : k \in Nat => s + (inPos + k) - block.off = (s + inPos - block.off) + k  BY <1>5, <1>6
    <3>2. outPos' + Len(buffer') = (outPos + Len(buffer)) + n  BY <1>6, <1>7, <1>8
    <3>3. Steady => n = r  OBVIOUS
    <3>4. ASSUME Steady PROVE outPos' + Len(buffer') = s + inPos' - block'.off
      <4>1. inPos' = inPos + n /\ outPos + Len(buffer) = s + inPos - block.off  BY <1>4, <3>3, <3>4
      <4>2. s + (inPos + n) - block.off = (s + inPos - block.off) + n  BY <1>7, <3>1
      <4> QED BY <2>1, <3>2, <4>1, <4>2
    <3> QED BY <3>4
  <2>3. edits = 0 => inPos' = inPos + n  BY DEF Steady
  <2>4. IF mode = "rsync" THEN edits = 0 => inPos' + left' = block'.off + block'.len
        ELSE inPos' + left' >= fileLength
    <3>1. mode = "local" => inPos' = inPos + n  BY DEF Steady
    <3>2. \A k : k \in Nat => (inPos + k) + (left - k) = inPos + left  BY <1>6
    <3>3. CASE mode = "rsync"
      <4>1. ASSUME edits = 0 PROVE inPos' + left' = block'.off + block'.len
        <5>1. inPos + left = block.off + block.len  BY <1>4, <3>3, <4>1
        <5>2. inPos' = inPos + n /\ left' = left - n  BY <2>3, <4>1
        <5> QED BY <1>7, <2>1, <3>2, <5>1, <5>2
      <4> QED BY <3>3, <4>1
    <3>4. CASE mode = "local"
      <4>1. inPos' = inPos + n /\ left' = left - n /\ inPos + left >= fileLength
        BY <1>4, <3>1, <3>4
      <4> QED BY <1>7, <3>2, <3>4, <4>1
    <3> QED BY <1>6, <3>3, <3>4
  <2>5. mode' = mode /\ edits' = edits /\ fileLength' = fileLength  BY DEF Source
  <2>6. edits = 0 => inPos' \in block'.off..block'.off + block'.len
    <3> SUFFICES ASSUME edits = 0 PROVE inPos' \in block.off..block.off + block.len
      BY <2>1
    <3>1. inPos' = inPos + n /\ inPos >= block.off /\ inPos + n <= block.off + block.len
      BY <1>4, <1>5, <2>3
    <3> QED BY <1>5, <1>6, <1>7, <3>1
  <2>7. pc' = "read"  OBVIOUS
  <2> QED BY <2>1, <2>2, <2>4, <2>5, <2>6, <2>7, RightStays DEF Phase
<1> QED BY <1>10, <1>11, <1>12, <1>13 DEF CopyInv

(* The loop has ended.                                                     *)
LEMMA ReadEnds ==
  ASSUME CopyInv, pc = "read", edits = 0 => inPos = block.off + block.len,
         pc' = "piece", pieces' = Tail(pieces), copied' = 0, UNCHANGED Channels,
         UNCHANGED <<Source, dst, outPos>>
  PROVE  CopyInv'
<1>1. PICK s \in Nat : At(pieces, s) /\ Phase(s)  BY DEF CopyInv
<1>2. CopyTypes /\ Contents /\ MaxLength \in Nat  BY CopyBounds DEF CopyInv
<1>3. InBlock /\ (Steady => outPos + Len(buffer) = s + inPos - block.off)  BY <1>1 DEF Phase
<1>4. /\ block.len \in Nat /\ block.off \in Nat /\ At(Tail(pieces), s + block.len)
      /\ mode = "local" => Tail(pieces) = <<>>
  BY <1>1, <1>2, <1>3, NextIs DEF InBlock
<1> HIDE DEF block
<1>5. CopyTypes'  BY <1>2 DEF CopyTypes, Source, Channels, Byte, Stale
<1>6. Contents'  BY <1>2, RightStays DEF Contents, Source, Channels
<1>t. PICK t \in Nat : t = s + block.len  BY <1>4
<1>7. At(pieces, t)'  BY <1>4, <1>t, AtStays
<1>8. edits = 0 => outPos + Len(buffer) = t
  <2> SUFFICES ASSUME edits = 0 PROVE outPos + Len(buffer) = t
    OBVIOUS
  <2>1. outPos + Len(buffer) = s + inPos - block.off /\ inPos = block.off + block.len
    BY <1>3 DEF Steady
  <2> QED BY <1>4, <1>t, <2>1
<1>9. edits' = edits /\ mode' = mode /\ outPos' = outPos /\ buffer' = buffer
  BY DEF Source, Channels
<1>10. Phase(t)'  BY <1>4, <1>8, <1>9 DEF Phase
<1> QED BY <1>5, <1>6, <1>7, <1>10 DEF CopyInv

(* An exception.                                                           *)
LEMMA GivesUp ==
  ASSUME CopyInv, pc' = "failed", UNCHANGED <<Source, pieces, dst, outPos, Channels, copied>>
  PROVE  CopyInv'
<1>1. PICK s \in Nat : At(pieces, s) /\ Phase(s)  BY DEF CopyInv
<1>2. CopyTypes /\ Contents  BY DEF CopyInv
<1>3. CopyTypes'  BY <1>2 DEF CopyTypes, Source, Channels, Byte, Stale
<1>4. Contents'  BY <1>2, RightStays DEF Contents, Source, Channels
<1>5. At(pieces, s)'  BY <1>1, AtStays
<1>6. Phase(s)'  BY DEF Phase
<1> QED BY <1>3, <1>4, <1>5, <1>6 DEF CopyInv

LEMMA ReadWriteBoundedStep ==
  ASSUME CopyInv, ReadWriteBounded
  PROVE  CopyInv'
<1>1. PICK s \in Nat : At(pieces, s) /\ Phase(s)  BY DEF CopyInv
<1>2. CopyTypes /\ Contents /\ MaxLength \in Nat  BY CopyBounds DEF CopyInv
<1>3. pc = "read" /\ mode = "local" /\ UNCHANGED <<Source, dst, outPos>>  BY DEF ReadWriteBounded
<1>4. /\ InBlock /\ Steady
      /\ outPos + Len(buffer) = s + inPos - block.off
      /\ edits = 0 => inPos \in block.off..block.off + block.len
      /\ inPos + left >= fileLength
  BY <1>1, <1>3 DEF Phase, Steady
<1>5. s = 0 /\ block.off = 0 /\ block.len = fileLength
  BY <1>1, <1>2, <1>3, <1>4, NextIs DEF InBlock
<1>6. /\ outPos \in Nat /\ inPos \in Nat /\ left \in Nat /\ Len(buffer) \in Nat
      /\ srcLen \in Nat /\ fileLength \in Nat /\ (edits = 0 => srcLen = fileLength)
  BY <1>2, CopyBounds, LenProperties DEF CopyTypes
<1> DEFINE max == Least(left, srcLen - inPos)
<1>7. /\ max \in Int /\ max <= left /\ max <= srcLen - inPos
      /\ max = left \/ max = srcLen - inPos
  BY <1>6 DEF Least
<1>8. \/ \E n \in 1..max :
           /\ buffer' = buffer \o Bytes(inPos, n)
           /\ inPos' = inPos + n /\ left' = left - n
           /\ UNCHANGED <<pc, pieces, copied>>
      \/ /\ max <= 0
         /\ pc' = "piece" /\ pieces' = Tail(pieces) /\ copied' = 0
         /\ UNCHANGED Channels
      \/ pc' = "failed" /\ UNCHANGED <<Channels, pieces, copied>>
  BY DEF ReadWriteBounded
<1> HIDE DEF max, block
<1>9. ASSUME NEW n \in 1..max, buffer' = buffer \o Bytes(inPos, n),
             inPos' = inPos + n, left' = left - n, UNCHANGED <<pc, pieces, copied>>
      PROVE  CopyInv'
  <2>1. n \in Nat /\ n \in 1..left /\ inPos + n <= srcLen  BY <1>6, <1>7
  <2>2. Bytes(inPos, n) \in Seq(Byte) /\ Len(Bytes(inPos, n)) = n
    BY <1>2, <1>6, <2>1, BytesAre DEF CopyTypes
  <2>3. edits = 0 => inPos >= block.off /\ inPos + n <= block.off + block.len
    BY <1>5, <1>6, <2>1
  <2>4. \A j \in 1..n : Right((outPos + Len(buffer)) + j, Bytes(inPos, n)[j])
    <3> DEFINE q == outPos + Len(buffer)
    <3>1. q = s + inPos - block.off  BY <1>4
    <3>2. q \in Nat  BY <1>6
    <3> HIDE DEF q
    <3>3. \A j \in 1..n : Right(q + j, Bytes(inPos, n)[j])
      BY <1>1, <1>2, <1>4, <1>6, <2>1, <2>3, <3>1, <3>2, BytesRight
    <3> QED BY <3>3 DEF q
  <2> QED BY <1>3, <1>9, <2>1, <2>2, <2>3, <2>4, BufferStep
<1>10. ASSUME max <= 0, pc' = "piece", pieces' = Tail(pieces), copied' = 0, UNCHANGED Channels
       PROVE  CopyInv'
  <2>1. edits = 0 => inPos = block.off + block.len  BY <1>4, <1>5, <1>6, <1>7, <1>10
  <2> QED BY <1>3, <1>10, <2>1, ReadEnds
<1>11. ASSUME pc' = "failed", UNCHANGED <<Channels, pieces, copied>> PROVE CopyInv'
  BY <1>3, <1>11, GivesUp
<1> QED BY <1>8, <1>9, <1>10, <1>11

LEMMA CopyBlocksStep ==
  ASSUME CopyInv, CopyBlocks
  PROVE  CopyInv'
<1>1. PICK s \in Nat : At(pieces, s) /\ Phase(s)  BY DEF CopyInv
<1>2. CopyTypes /\ Contents /\ MaxLength \in Nat  BY CopyBounds DEF CopyInv
<1>3. pc = "read" /\ mode = "rsync" /\ UNCHANGED <<Source, dst, outPos>>  BY DEF CopyBlocks
<1>4. /\ InBlock /\ (Steady => outPos + Len(buffer) = s + inPos - block.off)
      /\ edits = 0 => inPos \in block.off..block.off + block.len
      /\ edits = 0 => inPos + left = block.off + block.len
  BY <1>1, <1>3 DEF Phase
<1>5. block.len \in Nat /\ block.off \in Nat /\ block.off + block.len <= fileLength
  BY <1>1, <1>2, <1>4, NextIs DEF InBlock
<1>6. /\ outPos \in Nat /\ inPos \in Nat /\ left \in Nat /\ Len(buffer) \in Nat
      /\ srcLen \in 0..MaxLength /\ (edits = 0 => srcLen = fileLength) /\ edits \in Nat
  BY <1>2, CopyBounds, LenProperties DEF CopyTypes
<1> HIDE DEF block
<1>7. ASSUME NEW n \in 1..left, NEW read, read = Max({0, Least(n, srcLen - inPos)}),
             buffer' = buffer \o [i \in 1..n |-> IF i <= read THEN inPos + i ELSE Stale],
             inPos' = inPos + read, left' = left - n, UNCHANGED <<pc, pieces, copied>>
      PROVE  CopyInv'
  <2>1. n \in Nat /\ n >= 1  BY <1>6
  <2> DEFINE m == Least(n, srcLen - inPos)
             b == [i \in 1..n |-> IF i <= read THEN inPos + i ELSE Stale]
  <2>2. /\ m \in Int /\ m <= n /\ m <= srcLen - inPos
        /\ edits = 0 => m = n
    BY <1>2, <1>4, <1>5, <1>6, <2>1 DEF Least
  <2>3. read = IF 0 >= m THEN 0 ELSE m  BY <1>7, <2>2, MaxOfTwo
  <2> HIDE DEF m
  <2>4. read \in Nat /\ read <= n /\ (edits = 0 => read = n) /\ (read > 0 => inPos + read <= srcLen)
    BY <1>2, <1>6, <2>1, <2>2, <2>3
  <2>5. \A i \in 1..n : b[i] \in Byte
    BY <1>2, <1>6, <2>1, <2>4 DEF Byte, Stale
  <2>6. b \in Seq(Byte) /\ Len(b) = n
    <3>1. b \in [1..n -> Byte]  BY <2>5
    <3> HIDE DEF b
    <3> QED BY <2>1, <3>1, SeqOfLen
  <2>7. Steady => edits = 0  BY <1>3 DEF Steady
  <2>8. edits = 0 => inPos + n <= block.off + block.len  BY <1>4, <1>5, <1>6, <2>1
  <2>9. \A j \in 1..n : Right((outPos + Len(buffer)) + j, b[j])
    <3>1. CASE edits > 0  BY <1>3, <3>1 DEF Right
    <3>2. CASE edits = 0
      <4> DEFINE q == outPos + Len(buffer)
      <4>1. q = s + inPos - block.off  BY <1>4, <3>2 DEF Steady
      <4>2. q \in Nat  BY <1>6
      <4>3. edits = 0 => inPos >= block.off  BY <1>4, <1>5, <1>6
      <4> HIDE DEF q, b
      <4>4. \A j \in 1..n : Right(q + j, Bytes(inPos, n)[j])
        BY <1>1, <1>2, <1>4, <1>6, <2>1, <2>8, <4>1, <4>2, <4>3, BytesRight
      <4>5. \A j \in 1..n : Bytes(inPos, n)[j] = b[j]
        <5>1. inPos + n <= srcLen /\ read = n  BY <2>1, <2>4, <3>2
        <5>2. srcLen \in Nat  BY <1>2, <1>6
        <5> QED BY <1>6, <2>1, <5>1, <5>2 DEF Bytes, b
      <4> QED BY <4>4, <4>5 DEF q
    <3> QED BY <1>6, <3>1, <3>2
  <2> HIDE DEF b
  <2>10. buffer' = buffer \o b  BY <1>7 DEF b
  <2>11. Steady => read = n  BY <2>4, <2>7
  <2> QED BY <1>3, <1>7, <2>4, <2>6, <2>8, <2>9, <2>10, <2>11, BufferStep
<1>8. ASSUME left = 0, pc' = "piece", pieces' = Tail(pieces), copied' = 0, UNCHANGED Channels
      PROVE  CopyInv'
  <2>1. edits = 0 => inPos = block.off + block.len  BY <1>4, <1>5, <1>6, <1>8
  <2> QED BY <1>3, <1>8, <2>1, ReadEnds
<1>9. ASSUME pc' = "failed", UNCHANGED <<Channels, pieces, copied>> PROVE CopyInv'
  BY <1>3, <1>9, GivesUp
<1> QED BY <1>7, <1>8, <1>9 DEF CopyBlocks

(* Cloning the whole file, or not.                                         *)
LEMMA CloneStep ==
  ASSUME CopyInv, ClonePath \/ CloneFile
  PROVE  CopyInv'
<1>1. PICK s \in Nat : At(pieces, s) /\ Phase(s)  BY DEF CopyInv
<1>2. CopyTypes /\ Contents /\ MaxLength \in Nat  BY CopyBounds DEF CopyInv
<1>3. /\ pc \in {"path", "file"}
      /\ \/ pc' = "ok" /\ dst' = Bytes(0, srcLen)
         \/ pc' = "failed" /\ dst' = Bytes(0, srcLen)
         \/ pc' \in {"file", "piece"} /\ dst' = dst
      /\ UNCHANGED <<Source, pieces, outPos, Channels, copied>>
  BY DEF ClonePath, CloneFile
<1>4. mode = "local" /\ pieces # <<>> /\ copied = 0 /\ Untouched  BY <1>1, <1>3 DEF Phase
<1>5. s = 0 /\ fileLength \in Nat  BY <1>1, <1>2, <1>4, CopyBounds DEF At, CopyTypes
<1>6. At(pieces, s)'  BY <1>1, <1>3, AtStays
<1>7. CASE pc' \in {"ok", "failed"} /\ dst' = Bytes(0, srcLen)
  <2>1. srcLen \in Nat  BY <1>2, CopyBounds DEF CopyTypes
  <2>2. /\ dst' \in Seq(Byte) /\ Len(dst') = srcLen
        /\ \A i \in 1..srcLen : dst'[i] = IF 0 + i <= srcLen THEN 0 + i ELSE 0
    BY ZenonT(60), <1>2, <1>7, <2>1, BytesAre DEF CopyTypes
  <2>3. CopyTypes'  BY <1>2, <1>3, <1>7, <2>2 DEF CopyTypes, Source, Channels, Byte, Stale
  <2>4. Contents'
    <3>1. outPos' = 0 /\ buffer' = <<>> /\ Len(buffer') = 0 /\ edits' = edits
      BY <1>3, <1>4 DEF Untouched, Source, Channels
    <3>2. edits = 0 => srcLen = GoalLength  BY <1>2, <1>4 DEF CopyTypes, GoalLength
    <3> QED BY <1>3, <2>1, <2>2, <3>1, <3>2, RightStays DEF Contents
  <2>5. Phase(s)'
    <3>1. edits = 0 => dst' = [i \in 1..GoalLength |-> Expected(i)]
      <4> SUFFICES ASSUME edits = 0 PROVE dst' = [i \in 1..GoalLength |-> Expected(i)]
        OBVIOUS
      <4>1. GoalLength = srcLen /\ \A i \in 1..srcLen : Expected(i) = i
        BY <1>2, <1>4 DEF CopyTypes, GoalLength, Expected
      <4>2. dst' = [i \in 1..srcLen |-> i]  BY <1>7, <2>1 DEF Bytes
      <4> QED BY <4>1, <4>2
    <3>2. edits' = edits /\ mode' = mode /\ fileLength' = fileLength  BY <1>3 DEF Source
    <3>3. GoalLength' = GoalLength /\ \A i : Expected(i)' = Expected(i)
      BY <3>2 DEF GoalLength, Expected
    <3>4. edits' = 0 => dst' = [i \in 1..GoalLength' |-> Expected(i)']
      BY <3>1, <3>2, <3>3
    <3> QED BY <1>7, <3>4 DEF Phase
  <2> QED BY <1>6, <2>3, <2>4, <2>5 DEF CopyInv
<1>8. CASE pc' \in {"file", "piece"} /\ dst' = dst
  <2>1. CopyTypes'  BY <1>2, <1>3, <1>8 DEF CopyTypes, Source, Channels, Byte, Stale
  <2>2. Contents'  BY <1>2, <1>3, <1>8, RightStays DEF Contents, Source, Channels
  <2>3. /\ mode' = mode /\ edits' = edits /\ pieces' = pieces /\ copied' = copied
        /\ outPos' = outPos /\ buffer' = buffer /\ inPos' = inPos
    BY <1>3 DEF Source, Channels
  <2>4. Phase(s)'
    <3>1. outPos + Len(buffer) = s  BY <1>4, <1>5 DEF Untouched
    <3> QED BY <1>4, <1>8, <2>3, <3>1 DEF Phase, Untouched
  <2> QED BY <1>6, <2>1, <2>2, <2>4 DEF CopyInv
<1> QED BY <1>3, <1>7, <1>8

(* The buffer is flushed: the same bytes, in the target.                   *)
LEMMA FlushStep ==
  ASSUME CopyInv, pc = "piece", dst' = Written(dst, outPos, buffer),
         outPos' = outPos + Len(buffer), buffer' = <<>>, UNCHANGED <<Source, inPos, left, copied>>,
         pc' \in {"piece", "range", "ok"}
  PROVE  CopyTypes' /\ Contents' /\ (Len(dst') = outPos' \/ Len(dst') = Len(dst))
<1>1. PICK s \in Nat : At(pieces, s) /\ Phase(s)  BY DEF CopyInv
<1>2. CopyTypes /\ Contents /\ MaxLength \in Nat  BY CopyBounds DEF CopyInv
<1>3. edits = 0 => outPos + Len(buffer) = s  BY <1>1 DEF Phase
<1>4. s <= GoalLength
  <2>1. CASE pieces = <<>>
    <3>1. s = GoalLength  BY <1>1, <2>1, NoneIsLast
    <3> QED BY <3>1
  <2>2. CASE pieces # <<>>
    <3>1. block.len \in Nat /\ s + block.len <= GoalLength  BY <1>1, <1>2, <2>2, NextIs
    <3>2. GoalLength \in Int  BY <1>2 DEF GoalLength, CopyTypes
    <3> HIDE DEF GoalLength
    <3> QED BY <3>1, <3>2
  <2> QED BY <2>1, <2>2
<1>5. buffer \in Seq(Byte) /\ \A j \in 1..Len(buffer) : Right(outPos + j, buffer[j])
  BY <1>2 DEF CopyTypes, Contents
<1>6. /\ dst' \in Seq(Byte) /\ outPos' \in Nat /\ outPos' <= Len(dst')
      /\ edits = 0 => Len(dst') <= GoalLength
      /\ Len(dst') = outPos' \/ Len(dst') = Len(dst)
      /\ \A i \in 1..outPos' : Right(i, dst'[i])
  <2>1. edits = 0 => outPos + Len(buffer) <= GoalLength  BY <1>3, <1>4
  <2>2. UNCHANGED Source  OBVIOUS
  <2> QED BY <1>2, <1>5, <2>1, <2>2, PutStep
<1>7. CopyTypes'  BY <1>2, <1>6 DEF CopyTypes, Source, Byte, Stale
<1>8. Contents'
  <2>1. Len(buffer') = 0 /\ edits' = edits  BY DEF Source
  <2> QED BY <1>6, <2>1, RightStays DEF Contents
<1> QED BY <1>6, <1>7, <1>8

LEMMA NextPieceStep ==
  ASSUME CopyInv, NextPiece
  PROVE  CopyInv'
<1>1. PICK s \in Nat : At(pieces, s) /\ Phase(s)  BY DEF CopyInv
<1>2. CopyTypes /\ Contents /\ MaxLength \in Nat  BY CopyBounds DEF CopyInv
<1>3. /\ pc = "piece" /\ pieces # <<>> /\ UNCHANGED <<Source, inPos, left, copied>>
      /\ \/ /\ block.kind = "string" /\ buffer' = Append(buffer, block.off)
            /\ pieces' = Tail(pieces) /\ pc' = pc /\ dst' = dst /\ outPos' = outPos
         \/ /\ block.kind # "string"
            /\ dst' = Written(dst, outPos, buffer)
            /\ outPos' = outPos + Len(buffer) /\ buffer' = <<>>
            /\ \/ block.len = 0 /\ pieces' = Tail(pieces) /\ pc' = pc
               \/ block.len # 0 /\ pieces' = pieces /\ pc' = "range"
  BY DEF NextPiece
<1>4. /\ copied = 0 /\ (edits = 0 => outPos + Len(buffer) = s)
      /\ mode = "local" => Untouched
  BY <1>1, <1>3 DEF Phase
<1>5. /\ block.kind \in {"string", "block"} /\ block.len \in Nat
      /\ At(Tail(pieces), s + block.len)
      /\ block.kind = "string" =>
           mode = "rsync" /\ block.len = 1 /\ block.off \in Byte /\ Expected(s + 1) = block.off
      /\ mode = "local" => s = 0 /\ Tail(pieces) = <<>>
  BY <1>1, <1>2, <1>3, NextIs
<1>6. outPos \in Nat /\ buffer \in Seq(Byte) /\ Len(buffer) \in Nat /\ edits \in Nat
      /\ mode \in {"local", "rsync"}
  BY <1>2, CopyBounds, LenProperties DEF CopyTypes
<1> HIDE DEF block
<1>7. edits' = edits /\ mode' = mode  BY <1>3 DEF Source
<1>t. PICK t \in Nat : t = s + block.len  BY <1>5
<1>8. CASE block.kind = "string"
  <2>1. /\ buffer' = Append(buffer, block.off) /\ pieces' = Tail(pieces) /\ pc' = pc
        /\ dst' = dst /\ outPos' = outPos /\ mode = "rsync" /\ block.len = 1
    BY <1>3, <1>5, <1>8
  <2>2. /\ buffer' \in Seq(Byte) /\ Len(buffer') = Len(buffer) + 1
        /\ \A j \in 1..Len(buffer) : buffer'[j] = buffer[j]
        /\ buffer'[Len(buffer) + 1] = block.off
    BY <1>5, <1>6, <1>8, <2>1, AppendProperties
  <2>3. CopyTypes'  BY <1>2, <1>3, <2>1, <2>2 DEF CopyTypes, Source, Byte, Stale
  <2>4. \A j \in 1..Len(buffer') : Right(outPos + j, buffer'[j])
    <3> SUFFICES ASSUME NEW j \in 1..Len(buffer') PROVE Right(outPos + j, buffer'[j])
      OBVIOUS
    <3>1. CASE edits > 0  BY <2>1, <3>1 DEF Right
    <3>2. CASE edits = 0
      <4>1. CASE j = Len(buffer) + 1
        <5>1. outPos + j = s + 1  BY <1>4, <1>6, <3>2, <4>1
        <5> QED BY <1>5, <1>8, <2>2, <4>1, <5>1 DEF Right
      <4>2. CASE j \in 1..Len(buffer)  BY <1>2, <2>2, <4>2 DEF Contents
      <4> QED BY <1>6, <2>2, <4>1, <4>2
    <3> QED BY <1>6, <3>1, <3>2
  <2>5. Contents'  BY <1>2, <1>3, <1>7, <2>1, <2>4, RightStays DEF Contents
  <2>6. At(pieces, t)'  BY <1>3, <1>5, <1>t, <2>1, AtStays
  <2>7. Phase(t)'
    <3>1. edits = 0 => outPos' + Len(buffer') = t  BY <1>4, <1>6, <1>t, <2>1, <2>2
    <3> QED BY <1>3, <1>4, <1>7, <2>1, <3>1 DEF Phase
  <2> QED BY <2>3, <2>5, <2>6, <2>7 DEF CopyInv
<1>9. CASE block.kind = "block"
  <2>1. /\ dst' = Written(dst, outPos, buffer)
        /\ outPos' = outPos + Len(buffer) /\ buffer' = <<>>
        /\ \/ block.len = 0 /\ pieces' = Tail(pieces) /\ pc' = "piece"
           \/ block.len # 0 /\ pieces' = pieces /\ pc' = "range"
    BY <1>3, <1>9
  <2>2. CopyTypes' /\ Contents'  BY <1>3, <2>1, FlushStep
  <2>3. CASE block.len = 0 /\ pieces' = Tail(pieces) /\ pc' = "piece"
    <3>1. At(pieces, t)'  BY <1>3, <1>5, <1>t, <2>3, AtStays
    <3>2. Phase(t)'
      <4>1. edits = 0 => outPos' + Len(buffer') = t  BY <1>4, <1>6, <1>t, <2>1, <2>3
      <4> QED BY <1>3, <1>4, <1>5, <1>7, <2>3, <4>1 DEF Phase
    <3> QED BY <2>2, <3>1, <3>2 DEF CopyInv
  <2>4. CASE block.len # 0 /\ pieces' = pieces /\ pc' = "range"
    <3>1. At(pieces, s)'  BY <1>1, <1>3, <2>4, AtStays
    <3>2. block' = block /\ InBlock'  BY <1>3, <1>9, <2>4 DEF block, InBlock
    <3>3. Phase(s)'
      <4>1. copied' = 0 /\ copied' < block'.len  BY <1>3, <1>4, <1>5, <2>4, <3>2
      <4>2. Steady => outPos' = s + copied'
        <5>1. mode = "local" => outPos' = 0 /\ s = 0  BY <1>4, <1>5, <2>1 DEF Untouched
        <5> QED BY <1>4, <1>6, <2>1, <4>1, <5>1 DEF Steady
      <4>3. mode = "local" => inPos' = 0  BY <1>3, <1>4 DEF Untouched
      <4> QED BY <1>3, <1>7, <2>1, <2>4, <3>2, <4>1, <4>2, <4>3, RightStays DEF Phase
    <3> QED BY <2>2, <3>1, <3>3 DEF CopyInv
  <2> QED BY <2>1, <2>3, <2>4
<1> QED BY <1>5, <1>8, <1>9

LEMMA CloseFilesStep ==
  ASSUME CopyInv, CloseFiles
  PROVE  CopyInv'
<1>1. PICK s \in Nat : At(pieces, s) /\ Phase(s)  BY DEF CopyInv
<1>2. CopyTypes /\ Contents /\ MaxLength \in Nat  BY CopyBounds DEF CopyInv
<1>3. /\ pc = "piece" /\ pieces = <<>> /\ dst' = Written(dst, outPos, buffer)
      /\ outPos' = outPos + Len(buffer) /\ buffer' = <<>> /\ pc' = "ok"
      /\ UNCHANGED <<Source, pieces, inPos, left, copied>>
  BY DEF CloseFiles
<1>4. CopyTypes' /\ Contents' /\ (Len(dst') = outPos' \/ Len(dst') = Len(dst))
  BY <1>3, FlushStep
<1>5. At(pieces, s)'  BY <1>1, <1>3, AtStays
<1>6. Phase(s)'
  <2> SUFFICES ASSUME edits' = 0 PROVE dst' = [i \in 1..GoalLength |-> Expected(i)]'
    BY <1>3 DEF Phase
  <2>1. edits = 0 /\ edits' = edits /\ mode' = mode /\ fileLength' = fileLength
    BY <1>3 DEF Source
  <2>2. outPos' = GoalLength
    <3>1. s = GoalLength  BY <1>1, <1>3, NoneIsLast
    <3>2. outPos + Len(buffer) = s  BY <1>1, <1>3, <2>1 DEF Phase
    <3> QED BY <1>3, <3>1, <3>2
  <2>3. GoalLength' = GoalLength /\ \A i : Expected(i)' = Expected(i)
    BY <2>1 DEF GoalLength, Expected
  <2>4. Len(dst') = GoalLength
    <3>1. Len(dst') <= GoalLength' /\ outPos' <= Len(dst')  BY <1>4 DEF Contents
    <3>2. Len(dst') \in Nat /\ outPos' \in Nat  BY <1>4, LenProperties DEF CopyTypes
    <3> HIDE DEF GoalLength
    <3> QED BY <2>2, <2>3, <3>1, <3>2
  <2>5. \A i \in 1..outPos' : dst'[i] = Expected(i)
    BY <1>4, <2>1, <2>3 DEF Contents, Right
  <2>6. dst' \in Seq(Byte)'  BY <1>4 DEF CopyTypes
  <2>7. dst' = [i \in 1..Len(dst') |-> dst'[i]]  BY <2>6, LenProperties, SeqDef
  <2>8. dst' = [i \in 1..GoalLength |-> Expected(i)]
    <3> HIDE DEF GoalLength, Expected
    <3> QED BY <2>2, <2>4, <2>5, <2>7
  <2>9. [i \in 1..GoalLength |-> Expected(i)]' = [i \in 1..GoalLength |-> Expected(i)]
    <3>1. [i \in 1..GoalLength |-> Expected(i)]' = [i \in 1..GoalLength' |-> Expected(i)']
      OBVIOUS
    <3> QED BY <2>3, <3>1
  <2> QED BY <2>8, <2>9
<1> QED BY <1>4, <1>5, <1>6 DEF CopyInv

(* The calls of the systems.                                               *)
LEMMA FailsStep ==
  ASSUME CopyInv, pc \in {"range", "sendfile", "duplicate"}, Fails
  PROVE  CopyInv'
<1>1. CopyTypes /\ Contents  BY DEF CopyInv
<1>2. Fallback /\ UNCHANGED <<Source, pieces, outPos, buffer, copied>> /\ dst' = dst  BY DEF Fails
<1> QED BY <1>1, <1>2, FallbackStep DEF CopyTypes, Contents

(* Windows has extended the target, or cloned into it.                     *)
LEMMA WrittenStep ==
  ASSUME CopyInv, pc \in {"range", "duplicate"}, NEW p \in Nat, NEW b \in Seq(Byte),
         p + Len(b) = outPos + len, p >= outPos, dst' = Written(dst, p, b)
  PROVE  /\ dst' \in Seq(Byte) /\ outPos <= Len(dst')
         /\ edits = 0 => Len(dst') <= GoalLength
         /\ \A i \in 1..outPos : dst'[i] = dst[i]
<1>1. PICK s \in Nat : At(pieces, s) /\ Phase(s)  BY DEF CopyInv
<1>2. CopyTypes /\ Contents /\ MaxLength \in Nat  BY CopyBounds DEF CopyInv
<1>3. /\ InBlock /\ copied < block.len /\ (Steady => outPos = s + copied)
  BY <1>1 DEF Phase
<1>4. /\ dst \in Seq(Byte) /\ outPos \in Nat /\ copied \in Nat /\ 0 \in Byte
      /\ Len(dst) \in Nat /\ Len(b) \in Nat /\ outPos <= Len(dst)
      /\ edits = 0 => Len(dst) <= GoalLength
  BY <1>2, LenProperties DEF CopyTypes, Contents, Byte, Stale
<1>5. block.len \in Nat /\ s + block.len <= GoalLength  BY <1>1, <1>2, <1>3, NextIs DEF InBlock
<1>6. len \in 1..block.len - copied  BY Asked
<1>7. /\ dst' \in Seq(Byte)
      /\ Len(dst') = IF Len(dst) >= p + Len(b) THEN Len(dst) ELSE p + Len(b)
      /\ \A i \in 1..Len(dst) : i <= p => dst'[i] = dst[i]
  BY <1>4, WrittenIs
<1>8. edits = 0 => outPos + len <= GoalLength
  <2>1. GoalLength \in Int  BY <1>2 DEF GoalLength, CopyTypes
  <2> HIDE DEF block, GoalLength, len
  <2> QED BY <1>3, <1>4, <1>5, <1>6, <2>1 DEF Steady
<1> HIDE DEF block, GoalLength, len
<1>9. edits = 0 => Len(dst') <= GoalLength  BY <1>4, <1>7, <1>8
<1>10. \A i \in 1..outPos : i \in 1..Len(dst) /\ i <= p  BY <1>4
<1>11. outPos <= Len(dst')  BY <1>4, <1>7
<1> QED BY <1>7, <1>9, <1>10, <1>11

LEMMA SystemStep ==
  ASSUME CopyInv,
         LinuxCopy \/ FreeBSDCopy \/ SolarisCopy \/ WindowsPrepares \/ WindowsDuplicates \/ OtherCopy
  PROVE  CopyInv'
<1>1. CopyTypes /\ MaxLength \in Nat  BY CopyBounds DEF CopyInv
<1>2. pc \in {"range", "sendfile", "duplicate"}
  BY DEF LinuxCopy, FreeBSDCopy, SolarisCopy, WindowsPrepares, WindowsDuplicates, OtherCopy
<1>3. len \in Nat /\ available \in 0..len /\ (edits = 0 => available > 0) /\ len > 0
  <2>1. PICK s \in Nat : At(pieces, s) /\ Phase(s)  BY DEF CopyInv
  <2>2. InBlock  BY <1>2, <2>1 DEF Phase
  <2>3. block.len \in Nat /\ copied \in Nat
    BY <1>1, <2>1, <2>2, NextIs DEF InBlock, CopyTypes
  <2>4. len \in 1..block.len - copied /\ available \in 0..len /\ (edits = 0 => available > 0)
    BY <1>2, Asked
  <2> HIDE DEF len, block, available
  <2> QED BY <2>3, <2>4
<1>4. edits \in Nat  BY <1>1, CopyBounds DEF CopyTypes
<1>5. ASSUME Fails PROVE CopyInv'  BY <1>2, <1>5, FailsStep
<1>6. ASSUME NEW n \in Counts, Copied(n) PROVE CopyInv'
  <2>1. n \in 0..len /\ (n = 0 => edits > 0)
    <3> HIDE DEF len, available
    <3> QED BY <1>3, <1>4 DEF Counts
  <2> QED BY <1>2, <1>6, <2>1, CopiedStep
<1>7. ASSUME NEW n \in 0..available, IF n > 0 THEN Copied(n) ELSE Fails PROVE CopyInv'
  <2>1. CASE n > 0
    <3>1. n \in 0..len /\ (n = 0 => edits > 0) /\ Copied(n)
      <4> HIDE DEF len, available
      <4> QED BY <1>3, <1>7, <2>1
    <3> QED BY <1>2, <3>1, CopiedStep
  <2>2. CASE ~(n > 0)
    <3>1. Fails  BY <1>7, <2>2
    <3> QED BY <1>5, <3>1
  <2> QED BY <2>1, <2>2
<1>8. CASE LinuxCopy
  <2>1. ASSUME pc = "range", pc' = "sendfile",
               UNCHANGED <<Source, pieces, dst, outPos, Channels, copied>>
        PROVE  CopyInv'
    <3>1. PICK s \in Nat : At(pieces, s) /\ Phase(s)  BY DEF CopyInv
    <3>2. At(pieces, s)'  BY <2>1, <3>1, AtStays
    <3>3. CopyTypes'  BY <1>1, <2>1 DEF CopyTypes, Source, Channels, Byte, Stale
    <3>4. Contents'  BY <2>1, RightStays DEF CopyInv, Contents, Source, Channels
    <3>5. block' = block /\ mode' = mode  BY <2>1 DEF block, Source
    <3>6. Phase(s)'
      <4>1. /\ InBlock /\ copied < block.len /\ buffer = <<>>
            /\ Steady => outPos = s + copied
            /\ mode = "local" => inPos = 0
        BY <2>1, <3>1 DEF Phase
      <4>2. InBlock'  BY <2>1, <3>5, <4>1 DEF InBlock
      <4> QED BY <2>1, <3>5, <4>1, <4>2, RightStays DEF Phase, Channels
    <3> QED BY <3>2, <3>3, <3>4, <3>6 DEF CopyInv
  <2> QED BY <1>5, <1>6, <1>8, <2>1 DEF LinuxCopy
<1>9. CASE FreeBSDCopy  BY <1>5, <1>6, <1>9 DEF FreeBSDCopy
<1>10. CASE SolarisCopy  BY <1>6, <1>7, <1>10 DEF SolarisCopy
<1>11. CASE OtherCopy  BY <1>5, <1>11 DEF OtherCopy
<1>12. CASE WindowsPrepares
  <2>1. ASSUME dst' = Written(dst, outPos + len, <<>>)
        PROVE  /\ dst' \in Seq(Byte) /\ outPos <= Len(dst')
               /\ edits = 0 => Len(dst') <= GoalLength
               /\ \A i \in 1..outPos : dst'[i] = dst[i]
    <3> DEFINE b == <<>>
               q == outPos + len
    <3>1. b \in Seq(Byte) /\ Len(b) = 0  OBVIOUS
    <3>2. outPos \in Nat  BY <1>1 DEF CopyTypes
    <3>3. q \in Nat /\ q + Len(b) = outPos + len /\ q >= outPos
      <4> HIDE DEF len, b
      <4> QED BY <1>3, <3>1, <3>2
    <3>4. dst' = Written(dst, q, b) /\ pc \in {"range", "duplicate"}
      BY <1>12, <2>1 DEF WindowsPrepares
    <3> HIDE DEF b, q
    <3> QED BY <3>1, <3>3, <3>4, WrittenStep
  <2>2. ASSUME dst' = Written(dst, outPos + len, <<>>), pc = "range", pc' = "duplicate",
               UNCHANGED Channels, UNCHANGED <<Source, pieces, outPos, copied>>
        PROVE  CopyInv'
    <3>1. PICK s \in Nat : At(pieces, s) /\ Phase(s)  BY DEF CopyInv
    <3>2. At(pieces, s)'  BY <2>2, <3>1, AtStays
    <3>3. CopyTypes'  BY <1>1, <2>1, <2>2 DEF CopyTypes, Source, Channels, Byte, Stale
    <3>4. Contents'  BY <2>1, <2>2, RightStays DEF CopyInv, Contents, Source, Channels
    <3>5. block' = block /\ mode' = mode  BY <2>2 DEF block, Source
    <3>6. Phase(s)'
      <4>1. /\ InBlock /\ copied < block.len /\ buffer = <<>>
            /\ Steady => outPos = s + copied
            /\ mode = "local" => inPos = 0
        BY <2>2, <3>1 DEF Phase
      <4>2. InBlock'  BY <2>2, <3>5, <4>1 DEF InBlock
      <4> QED BY <2>2, <3>5, <4>1, <4>2, RightStays DEF Phase, Channels
    <3> QED BY <3>2, <3>3, <3>4, <3>6 DEF CopyInv
  <2>3. ASSUME dst' = Written(dst, outPos + len, <<>>), Fallback,
               UNCHANGED <<Source, pieces, outPos, buffer, copied>>
        PROVE  CopyInv'
    BY <1>2, <2>1, <2>3, FallbackStep
  <2> QED BY <1>5, <1>12, <2>2, <2>3 DEF WindowsPrepares
<1>13. CASE WindowsDuplicates
  <2>1. ASSUME Copied(len) PROVE CopyInv'
    <3>1. len \in 0..len /\ (len = 0 => edits > 0)
      <4> HIDE DEF len
      <4> QED BY <1>3
    <3> QED BY <1>2, <2>1, <3>1, CopiedStep
  <2>2. ASSUME dst' = Written(dst, outPos, Bytes(offset, len)), Fallback,
               UNCHANGED <<Source, pieces, outPos, buffer, copied>>
        PROVE  CopyInv'
    <3>1. PICK s \in Nat : At(pieces, s) /\ Phase(s)  BY DEF CopyInv
    <3>2. InBlock  BY <1>2, <3>1 DEF Phase
    <3>3. block.off \in Nat /\ copied \in Nat /\ outPos \in Nat /\ srcLen \in 0..MaxLength
      BY <1>1, <3>1, <3>2, NextIs DEF InBlock, CopyTypes
    <3>4. offset \in Nat  BY <3>3 DEF offset
    <3> DEFINE b == Bytes(offset, len)
    <3>5. b \in Seq(Byte) /\ Len(b) = len
      <4> HIDE DEF len, offset
      <4> QED BY <1>1, <1>3, <3>3, <3>4, BytesAre
    <3>6. dst' = Written(dst, outPos, b) /\ pc \in {"range", "duplicate"}
      BY <1>13, <2>2 DEF WindowsDuplicates
    <3> HIDE DEF b
    <3>7. outPos + Len(b) = outPos + len /\ outPos >= outPos  BY <3>3, <3>5
    <3>8. /\ dst' \in Seq(Byte) /\ outPos <= Len(dst')
          /\ edits = 0 => Len(dst') <= GoalLength
          /\ \A i \in 1..outPos : dst'[i] = dst[i]
      BY <3>3, <3>5, <3>6, <3>7, WrittenStep
    <3> QED BY <1>2, <2>2, <3>8, FallbackStep
  <2> QED BY <1>5, <1>13, <2>1, <2>2 DEF WindowsDuplicates
<1> QED BY <1>8, <1>9, <1>10, <1>11, <1>12, <1>13

(* The file changes.                                                       *)
LEMMA EditStep ==
  ASSUME CopyInv, Edit
  PROVE  CopyInv'
<1>1. PICK s \in Nat : At(pieces, s) /\ Phase(s)  BY DEF CopyInv
<1>2. CopyTypes /\ Contents /\ MaxEdits \in Nat /\ MaxLength \in Nat  BY CopyBounds DEF CopyInv
<1>3. /\ pc \notin {"ok", "failed"} /\ srcLen' \in 0..MaxLength /\ edits' = edits + 1
      /\ edits < MaxEdits
      /\ UNCHANGED <<system, mode, fileLength, pc, pieces, dst, outPos, buffer, inPos, left, copied>>
  BY DEF Edit, Channels
<1>4. edits \in Nat /\ edits' > 0 /\ edits' \in 0..MaxEdits /\ edits' # 0
  BY <1>2, <1>3 DEF CopyTypes
<1>5. CopyTypes'  BY <1>2, <1>3, <1>4 DEF CopyTypes, Byte, Stale
<1>6. \A i, b : Right(i, b) => Right(i, b)'
  BY <1>3, <1>4 DEF Right, Expected
<1>7. Contents'  BY <1>2, <1>3, <1>4, <1>6 DEF Contents
<1>8. At(pieces, s)'  BY <1>1, <1>3 DEF At
<1>9. block' = block /\ (InBlock' <=> InBlock) /\ (Untouched' <=> Untouched) /\ (Steady' => Steady)
  BY <1>3, <1>4 DEF block, InBlock, Untouched, Steady
<1>10. Phase(s)'
  <2>1. CASE pc \in {"path", "file", "piece"}  BY <1>1, <1>3, <1>4, <1>9, <2>1 DEF Phase
  <2>2. CASE pc \in {"range", "sendfile", "duplicate"}
    BY <1>1, <1>3, <1>4, <1>9, <2>2 DEF Phase
  <2>3. CASE pc = "read"  BY <1>1, <1>3, <1>4, <1>9, <2>3 DEF Phase
  <2> QED BY <1>2, <1>3, <2>1, <2>2, <2>3 DEF CopyTypes
<1> QED BY <1>5, <1>7, <1>8, <1>10 DEF CopyInv

LEMMA InitCopyInv == Init => CopyInv
<1> SUFFICES ASSUME Init PROVE CopyInv
  OBVIOUS
<1>1. MaxLength \in Nat /\ MaxEdits \in Nat /\ FileLengths \subseteq 0..MaxLength
  BY CopyConstants
<1>2. CASE NoCopy
  <2>1. CopyTypes  BY <1>1, <1>2 DEF NoCopy, CopyTypes
  <2>2. Contents  BY <1>2 DEF NoCopy, Contents, GoalLength
  <2>3. At(pieces, 0)  BY <1>2 DEF NoCopy, At
  <2>4. Phase(0)  BY <1>2 DEF NoCopy, Phase, GoalLength
  <2> QED BY <2>1, <2>2, <2>3, <2>4 DEF CopyInv
<1>3. CASE CopyInit
  <2>1. /\ fileLength \in 0..MaxLength /\ mode \in {"local", "rsync"}
        /\ mode = "rsync" => ~(fileLength < 2)
        /\ pc = (IF mode = "rsync" THEN "piece" ELSE "path") /\ pieces = Plan(mode)
        /\ srcLen = fileLength /\ edits = 0
        /\ dst = <<>> /\ outPos = 0 /\ buffer = <<>>
        /\ inPos = 0 /\ copied = 0 /\ left = 0
    BY <1>1, <1>3 DEF CopyInit
  <2>2. CopyTypes  BY <1>1, <2>1 DEF CopyTypes
  <2>3. Contents  BY <1>1, <2>1 DEF Contents, GoalLength
  <2>4. At(pieces, 0)  BY <2>1 DEF Plan, At
  <2>5. Phase(0)
    <3>1. pieces # <<>>  BY <2>1 DEF Plan
    <3> QED BY <2>1, <3>1 DEF Phase, Untouched
  <2> QED BY <2>2, <2>3, <2>4, <2>5 DEF CopyInv
<1> QED BY <1>2, <1>3 DEF Init

LEMMA NextCopyInv == CopyInv /\ [Next]_vars => CopyInv'
<1> SUFFICES ASSUME CopyInv, [Next]_vars PROVE CopyInv'
  OBVIOUS
<1>1. CASE UNCHANGED copyvars
  <2>1. UNCHANGED Source /\ UNCHANGED <<pc, pieces, dst, outPos, buffer, inPos, copied, left>>
    BY <1>1 DEF copyvars, Source
  <2>2. PICK s \in Nat : At(pieces, s) /\ Phase(s)  BY DEF CopyInv
  <2>3. At(pieces, s)'  BY <2>1, <2>2, AtStays
  <2>4. CopyTypes'  BY <2>1 DEF CopyInv, CopyTypes, Source, Byte, Stale
  <2>5. Contents'  BY <2>1, RightStays DEF CopyInv, Contents, Source
  <2>6. Phase(s)'
    <3>1. block' = block /\ (InBlock' <=> InBlock) /\ (Untouched' <=> Untouched)
      BY <2>1 DEF block, InBlock, Untouched
    <3>2. mode' = mode /\ edits' = edits /\ fileLength' = fileLength  BY <2>1 DEF Source
    <3>3. [i \in 1..GoalLength |-> Expected(i)]' = [i \in 1..GoalLength |-> Expected(i)]
      BY <3>2 DEF GoalLength, Expected
    <3> QED BY <2>1, <2>2, <3>1, <3>2, <3>3, RightStays DEF Phase
  <2> QED BY <2>3, <2>4, <2>5, <2>6 DEF CopyInv
<1>2. CASE CopyStep
  <2>1. ASSUME Aborted PROVE CopyInv'  BY <2>1, GivesUp DEF Aborted
  <2> QED BY <1>2, <2>1, CloneStep, NextPieceStep, CloseFilesStep, SystemStep,
             ReadWriteBoundedStep, CopyBlocksStep DEF CopyStep
<1>3. CASE Edit  BY <1>3, EditStep
<1> QED BY <1>1, <1>2, <1>3 DEF Next, Copies, SetsXattrs, SetsAcl, vars

(* The invariant of a copy: what was put belongs there, what is held back  *)
(* will, and what is still to come follows (copy.ml, transfer.ml,          *)
(* copy_stubs.c).                                                          *)
THEOREM CopyInvariant == Spec => []CopyInv
  BY InitCopyInv, NextCopyInv, PTL DEF Spec

(* Whatever the systems copy in part, refuse or fail at, every byte before *)
(* the offset of the output is the one that belongs there (copy_stubs.c    *)
(* and readWriteBounded, copyBlocks).                                      *)
THEOREM BytesPlaced == Spec => []Placed
<1>1. CopyInv => Placed  BY DEF CopyInv, Contents, Right, Placed
<1> QED BY <1>1, CopyInvariant, PTL

(* A copy that ends without an error is the whole file, unless the file    *)
(* was changed meanwhile.                                                  *)
THEOREM CopyWhole == Spec => []Whole
<1>1. CopyInv => Whole  BY DEF CopyInv, Phase, Whole
<1> QED BY <1>1, CopyInvariant, PTL

-----------------------------------------------------------------------------
(* The mode of the target.  Between making a file writable, or asking for  *)
(* its mode, and setting the mode back, the mode it should have is the one *)
(* that is remembered.  Where it may be another one, a call has failed:    *)
(* one that sets it back, and then another one before Perm.set.            *)
ModeSafe ==
  /\ {perm, saved, wanted, asked} \subseteq Modes /\ chmods \in Nat /\ afaults \in Nat
  /\ chmods = 0 =>
       /\ astage \in {"chmod", "retry", "restore", "strip"} => saved = wanted
       /\ astage = "perm" => perm = wanted \/ afaults >= 1
       /\ astage = "failed" => perm = wanted \/ afaults >= 2
       /\ astage \notin {"retry", "restore", "perm", "failed"} => perm = wanted

LEMMA InitModeSafe == Init => ModeSafe
<1>1. ASSUME Init
      PROVE  /\ perm \in Modes /\ saved = perm /\ wanted = perm /\ asked \in Modes
             /\ chmods = 0 /\ afaults = 0 /\ astage \in {"read", "ok"}
  <2>1. NoAcl => /\ perm = "writable" /\ saved = perm /\ wanted = perm /\ asked = perm
                 /\ chmods = 0 /\ afaults = 0 /\ astage = "ok"
    BY DEF NoAcl
  <2>2. AclInit => /\ perm \in Modes /\ saved = perm /\ wanted = perm /\ asked \in Modes
                   /\ chmods = 0 /\ afaults = 0 /\ astage = "read"
    BY DEF AclInit
  <2> QED BY <1>1, <2>1, <2>2 DEF Init, Modes
<1> QED BY <1>1 DEF ModeSafe

LEMMA NextModeSafe == ModeSafe /\ [Next]_vars => ModeSafe'
<1> SUFFICES ASSUME ModeSafe, [Next]_vars PROVE ModeSafe'
  OBVIOUS
<1> USE DEF ModeSafe, Modes, Go, Environment, Target, Raise, AclFault
<1>1. CASE UNCHANGED aclvars  BY <1>1 DEF aclvars
<1>2. CASE ReadText  BY <1>2 DEF ReadText
<1>3. CASE SetFinder  BY <1>3 DEF SetFinder
<1>4. CASE MakeWritable  BY <1>4 DEF MakeWritable
<1>5. CASE Retry  BY <1>5 DEF Retry
<1>6. CASE Restore  BY <1>6 DEF Restore
<1>7. CASE SetPerm  BY <1>7 DEF SetPerm
<1>8. CASE SetAcl  BY <1>8 DEF SetAcl, ModeOfList
<1>9. CASE SetUnsupported  BY <1>9 DEF SetUnsupported
<1>10. CASE StatForStrip  BY <1>10 DEF StatForStrip
<1>11. CASE StripAcl  BY <1>11 DEF StripAcl
<1>12. CASE LookAgain  BY <1>12 DEF LookAgain
<1>13. CASE CheckAcl  BY <1>13 DEF CheckAcl
<1>14. CASE Chmod  BY <1>14 DEF Chmod
<1>15. CASE EditAcl  BY <1>15 DEF EditAcl
<1> QED
  BY <1>1, <1>2, <1>3, <1>4, <1>5, <1>6, <1>7, <1>8, <1>9, <1>10, <1>11, <1>12, <1>13,
     <1>14, <1>15
  DEF Next, Copies, SetsXattrs, SetsAcl, vars, AclStep

(* The mode of a file is in the end the one it was given, also if one of   *)
(* the calls fails (setFileInfos in osxsupport.c, unison_acl_from_text).   *)
THEOREM ModeIsKept == Spec => []ModeKept
<1>1. ModeSafe => ModeKept  BY DEF ModeSafe, ModeKept, Ended
<1> QED BY <1>1, InitModeSafe, NextModeSafe, PTL DEF Spec

-----------------------------------------------------------------------------
(* Extended attributes.  The attributes that are synchronized, as they are *)
(* recorded, and those that have one of the entries A.                     *)
SyncedNames == {k \in Kernel : Synced(k)}
Pairs == SyncedNames \X Beginnings
NamesOf(A) == {x[1] : x \in A}

Reading == {"list", "names", "lengths", "length", "content"}

XattrTypes ==
  /\ odd \in {{}} \cup OddNames /\ (odd # {} => xsys = "linux")
  /\ attrs \in [Files -> [Kernel -> {Gone} \cup Beginnings]]
  /\ touches \in [Files -> Nat] /\ faults \in Nat
  /\ stage \in {"source", "load", "before", "set", "check", "ok", "failed"}
  /\ op \in Reading \cup {"set", "remove", "none"}
  /\ stage \in {"source", "before", "check"} => op \in Reading
  /\ stage = "load" => op \in {"length", "content"}
  /\ stage = "set" => op \in {"set", "remove"}
  /\ stage \in Ended => op = "none"
  /\ try.tries \in 0..MaxTries

(* What a call has still to look at, and what it has, are attributes; from *)
(* the point where the ignored ones are left out, those that are           *)
(* synchronized.                                                           *)
Attributes ==
  /\ IsFiniteSet(got)
  /\ op \in Reading \ {"list"} => supports[File]
  /\ op \in {"names", "lengths"} => try.tries = 0
  /\ op = "lengths" =>
       names \subseteq {k \in Kernel : ~IsSystem(k)} /\ got \subseteq {k \in Kernel : ~IsSystem(k)} \X Nat
  /\ op \in {"length", "content"} => got \subseteq Pairs
  /\ op \in {"length", "content", "remove"} => names \subseteq SyncedNames
  /\ op = "content" => names # {} /\ try.len \in Nat
  /\ agreed.list \subseteq Pairs /\ loaded \subseteq Pairs /\ present \subseteq Pairs
  /\ stage \in {"load", "before", "set", "check"} => loaded \subseteq agreed.list

Recorded == \A f \in Files, k \in Kernel : <<f, k, attrs[f][k]>> \in had

XattrInv == NoXattrs \/ (XattrTypes /\ Attributes /\ Recorded /\ ReadWhole /\ OnlySynced)

(* What a file has, and what is read of it as long as no other program     *)
(* changes it: whole values.                                               *)
Has(f) == {k \in SyncedNames : attrs[f][k] # Gone}
PairsOf(f, S) == {<<k, attrs[f][k]>> : k \in S}
Lens(A) == {<<x[1], Len(x[2])>> : x \in A}
LengthsOf(S) == {<<k, Length(k)>> : k \in S}

Undisturbed(f) == odd = {} /\ touches[f] = 0

ReadsWhole ==
  Undisturbed(File) =>
    /\ op = "names" => try.len = Size(Present)
    /\ op = "lengths" => names \subseteq Present /\ got \subseteq LengthsOf(Present)
    /\ op \in {"length", "content"} =>
         /\ names \subseteq Has(File)
         /\ got \subseteq PairsOf(File, Has(File))
         /\ op = "length" => try.tries = 0
         /\ op = "content" => try.len = Length(First(names))

(* An attribute is left out of a list only if a call failed.  When the     *)
(* target is read once more, and one is there that should not be, another  *)
(* call has failed before.                                                 *)
Failed(k) == faults >= IF stage = "check" /\ k \notin NamesOf(agreed.list) THEN 2 ELSE 1

ReadsAll ==
  Undisturbed(File) /\ stage # "load" /\ op \in {"lengths", "length", "content"} =>
    /\ \A k \in Has(File) : k \in names \cup NamesOf(got) \/ Failed(k)
    /\ op # "lengths" /\ faults = 0 => listed = Lens(PairsOf(File, Has(File)))

(* What is recorded of the source, and read again of it.                   *)
Agreement ==
  Undisturbed("source") /\ faults = 0 =>
    /\ stage \in {"load", "before", "set", "check"} \/ (stage = "ok" /\ agreed # None) =>
         /\ agreed.list = PairsOf("source", Has("source"))
         /\ agreed.size = Total(Lens(agreed.list))
    /\ stage = "load" => loaded \cup got \cup PairsOf("source", names) = agreed.list
    /\ stage = "before" => loaded = agreed.list

(* What is on the target that was not agreed on is going to be removed,    *)
(* unless a call has failed.                                               *)
Unwanted == Has("target") \ NamesOf(agreed.list)

Removal ==
  /\ op = "remove" => names \cap NamesOf(agreed.list) = {}
  /\ Undisturbed("target") /\ faults = 0 =>
       /\ stage = "set" /\ op = "set" => Unwanted \subseteq NamesOf(present)
       /\ op = "remove" => Unwanted \subseteq names
       /\ stage = "check" /\ supports["target"] => Unwanted = {}

(* What is done to the target, if nothing interferes or fails.             *)
Clean ==
  /\ Undisturbed("source") /\ Undisturbed("target") /\ faults = 0 /\ supports["target"]

Done == PairsOf("target", Has("target"))

Work ==
  Clean =>
    /\ stage = "set" /\ op = "set" =>
         \A x \in agreed.list : x \in present \/ x \notin loaded => x \in Done
    /\ op = "remove" \/ stage = "check" => agreed.list \subseteq Done
    /\ stage # "failed"

XattrWork ==
  NoXattrs \/ (ReadsWhole /\ ReadsAll /\ Agreement /\ Removal /\ Work /\ AttrsApplied)

(* A part before a name, and a name in two parts.                          *)
LEMMA Prefixed ==
  ASSUME NEW S, NEW x \in S, NEW u \in Seq(S)
  PROVE  (<<x>> \o u)[1] = x /\ Tail(<<x>> \o u) = u
<1> DEFINE w == <<x>> \o u
<1>1. w \in Seq(S) /\ Len(w) = Len(u) + 1 /\ Len(u) \in Nat  OBVIOUS
<1>2. w[1] = x /\ \A i \in 1..Len(u) : w[i + 1] = u[i]  OBVIOUS
<1>3. w # <<>>  BY <1>1
<1> HIDE DEF w
<1>4. Tail(w) \in Seq(S) /\ Len(Tail(w)) = Len(u) /\ \A i \in 1..Len(u) : Tail(w)[i] = w[i + 1]
  BY <1>1, <1>3
<1>5. Tail(w) = u  BY <1>2, <1>4
<1> QED BY <1>2, <1>5 DEF w

LEMMA HeadAndTail ==
  ASSUME NEW S, NEW u \in Seq(S), u # <<>>
  PROVE  <<u[1]>> \o Tail(u) = u
<1> DEFINE t == Tail(u)
           w == <<u[1]>> \o t
<1>1. Len(u) \in Nat \ {0} /\ u[1] \in S  OBVIOUS
<1>2. t \in Seq(S) /\ Len(t) = Len(u) - 1 /\ \A i \in 1..Len(u) - 1 : t[i] = u[i + 1]  BY <1>1
<1> HIDE DEF t
<1>3. w \in Seq(S) /\ Len(w) = Len(u)  BY <1>1, <1>2
<1>4. w[1] = u[1]  BY <1>1, <1>2
<1>5. \A i \in 2..Len(u) : w[i] = t[i - 1] /\ i - 1 \in 1..Len(u) - 1 /\ (i - 1) + 1 = i  BY <1>1, <1>2
<1>6. \A i \in 1..Len(u) : w[i] = u[i]
  <2> SUFFICES ASSUME NEW i \in 1..Len(u) PROVE w[i] = u[i]
    OBVIOUS
  <2> HIDE DEF w
  <2>1. CASE i = 1  BY <1>4, <2>1
  <2>2. CASE i \in 2..Len(u)  BY <1>2, <1>5, <2>2
  <2> QED BY <1>1, <2>1, <2>2
<1> HIDE DEF w
<1>7. w = u  BY <1>3, <1>6
<1> QED BY <1>7 DEF w, t

(* Names survive their translation, but for those that begin with user.!:  *)
(* those are taken for other ones, which are there as well.                *)
LEMMA NamesSurvive ==
  ASSUME xsys = "linux",
         NEW k \in {<<"user", "a">>, <<"trusted", "b">>, <<"system", "c">>}
  PROVE  AttrnameOfVal(ValOfAttrname(k)) = k
<1> DEFINE S == {"!", "user", "trusted", "system", "a", "b", "c"}
<1>1. k \in Seq(S) /\ k # <<>> /\ (k[1] = "user" => Tail(k)[1] = "a")
  <2>1. CASE k = <<"user", "a">>
    <3>1. k \in Seq(S) /\ Len(k) = 2 /\ k[2] = "a"  BY <2>1
    <3>2. Len(Tail(k)) = 1 /\ Tail(k)[1] = k[2]  BY <3>1
    <3> QED BY <3>1, <3>2
  <2>2. CASE k = <<"trusted", "b">>  BY <2>2
  <2>3. CASE k = <<"system", "c">>  BY <2>3
  <2> QED BY <2>1, <2>2, <2>3
<1>2. CASE k[1] = "user"
  <2>1. <<k[1]>> \o Tail(k) = k  BY <1>1, HeadAndTail
  <2> QED BY <1>1, <1>2, <2>1 DEF AttrnameOfVal, ValOfAttrname
<1>3. CASE k[1] # "user"
  <2>1. (<<"!">> \o k)[1] = "!" /\ Tail(<<"!">> \o k) = k  BY <1>1, Prefixed
  <2> QED BY <1>3, <2>1 DEF AttrnameOfVal, ValOfAttrname
<1> QED BY <1>2, <1>3

LEMMA OddNamesMove ==
  ASSUME xsys = "linux", NEW x, NEW y, NEW k, k = <<"user", "!", x, y>>
  PROVE  AttrnameOfVal(ValOfAttrname(k)) = <<x, y>> /\ ValOfAttrname(k) = <<"!", x, y>>
<1> DEFINE S == {"user", "!", x, y}
           u == <<"!", x, y>>
           w == <<x, y>>
<1>1. w \in Seq(S) /\ u \in Seq(S) /\ k \in Seq(S)  OBVIOUS
<1>2. u = <<"!">> \o w  OBVIOUS
<1>3. k = <<"user">> \o u  OBVIOUS
<1> HIDE DEF u, w
<1>4. u[1] = "!" /\ Tail(u) = w
  <2>1. "!" \in S  OBVIOUS
  <2> HIDE DEF S
  <2> QED BY <1>1, <1>2, <2>1, Prefixed
<1>5. k[1] = "user" /\ Tail(k) = u
  <2>1. "user" \in S  OBVIOUS
  <2> HIDE DEF S
  <2> QED BY <1>1, <1>3, <2>1, Prefixed
<1> QED BY <1>4, <1>5 DEF AttrnameOfVal, ValOfAttrname, u, w

LEMMA OtherName ==
  ASSUME odd \in {{}} \cup OddNames, odd # {} => xsys = "linux", NEW k \in SyncedNames
  PROVE  Called(k) \in SyncedNames /\ (odd = {} => Called(k) = k)
<1>0. k \in Kernel /\ Synced(k)  BY DEF SyncedNames
<1>1. CASE xsys # "linux"  BY <1>1 DEF Called, AttrnameOfVal, ValOfAttrname
<1>2. CASE xsys = "linux" /\ odd = {}
  <2>1. Called(k) = k  BY <1>0, <1>2, NamesSurvive DEF Called, Kernel
  <2> QED BY <2>1
<1>3. CASE xsys = "linux" /\ odd # {}
  <2>1. /\ k \in odd
        /\ odd \in {{<<"user", "!", "user", "a">>, <<"user", "a">>},
                    {<<"user", "!", "trusted", "b">>, <<"trusted", "b">>}}
    <3>1. Kernel = odd  BY <1>3 DEF Kernel
    <3>2. odd \in OddNames  BY <1>3
    <3>3. k \in odd  BY <1>0, <3>1
    <3> QED BY <3>2, <3>3 DEF OddNames
  <2>2. PICK x, y : /\ <<x, y>> \in {<<"user", "a">>, <<"trusted", "b">>}
                    /\ odd = {<<"user", "!", x, y>>, <<x, y>>}
    BY <2>1
  <2> DEFINE w == <<x, y>>
             u == <<"user", "!", x, y>>
  <2>3. Called(w) = w  BY <1>3, <2>2, NamesSurvive DEF Called
  <2>4. Called(u) = w /\ ValOfAttrname(u)[1] = "!"
    <3>1. ValOfAttrname(u) = <<"!", x, y>>  BY <1>3, OddNamesMove
    <3>2. Called(u) = w  BY <1>3, OddNamesMove DEF Called
    <3>3. <<"!", x, y>>[1] = "!"  OBVIOUS
    <3> QED BY <3>1, <3>2, <3>3
  <2>5. k \in {u, w} /\ w \in Kernel  BY <1>3, <2>1, <2>2 DEF Kernel
  <2>6. w[1] # "system"  BY <2>2
  <2> HIDE DEF u, w
  <2>7. CASE k = w  BY <1>3, <2>3, <2>7
  <2>8. CASE k = u
    <3>1. ~ignore  BY <1>0, <2>4, <2>8 DEF Synced, Ignored
    <3>2. Synced(w)  BY <2>6, <3>1 DEF Synced, Ignored, IsSystem
    <3> QED BY <1>3, <2>4, <2>5, <2>8, <3>2 DEF SyncedNames
  <2> QED BY <2>5, <2>7, <2>8
<1> QED BY <1>1, <1>2, <1>3

(* Whole values, and their beginnings.                                     *)
LEMMA ValuesBegin ==
  /\ \A v \in Values \cup FewValues : v \in Beginnings
  /\ \A b \in Beginnings : b \in Seq(Nat) /\ <<>> \in Beginnings /\ b # Gone
<1>1. \A v \in Values \cup FewValues : v \in Seq(Nat)  BY XattrConstants
<1>2. ASSUME NEW v \in Values \cup FewValues PROVE v \in Beginnings
  <2>1. v \in Seq(Nat) /\ Len(v) \in Nat  BY <1>1
  <2>2. SubSeq(v, 1, Len(v)) = v  BY <2>1
  <2>3. Len(v) \in 0..Len(v)  BY <2>1
  <2>4. SubSeq(v, 1, Len(v)) \in {SubSeq(v, 1, n) : n \in 0..Len(v)}  BY <2>3
  <2> QED BY <2>2, <2>4 DEF Beginnings
<1>3. ASSUME NEW b \in Beginnings PROVE b \in Seq(Nat) /\ <<>> \in Beginnings /\ b # Gone
  <2>1. PICK v \in Values \cup FewValues : \E n \in 0..Len(v) : b = SubSeq(v, 1, n)
    BY DEF Beginnings
  <2>2. v \in Seq(Nat)  BY <1>1
  <2>3. b \in Seq(Nat)  BY <2>1, <2>2
  <2>4. SubSeq(v, 1, 0) = <<>>  BY <2>2
  <2>5. 0 \in 0..Len(v)  BY <2>2
  <2>6. <<>> \in {SubSeq(v, 1, m) : m \in 0..Len(v)}  BY <2>4, <2>5
  <2>7. b # Gone
    <3>1. SUFFICES ASSUME b = <<-1>> PROVE FALSE  BY DEF Gone
    <3>2. Len(b) = 1 /\ b[1] = -1  BY <3>1
    <3>3. b[1] \in Nat  BY <2>3, <3>2
    <3> QED BY <3>2, <3>3
  <2> QED BY <2>3, <2>6, <2>7 DEF Beginnings
<1> QED BY <1>2, <1>3

LEMMA BeginningOf ==
  ASSUME NEW b \in Beginnings, NEW m \in Nat, m <= Len(b)
  PROVE  SubSeq(b, 1, m) \in Beginnings
<1>1. PICK v \in Values \cup FewValues : b \in {SubSeq(v, 1, n) : n \in 0..Len(v)}
  BY DEF Beginnings
<1> PICK n \in 0..Len(v) : b = SubSeq(v, 1, n)  BY <1>1
<1>2. v \in Seq(Nat)  BY XattrConstants
<1>3. n \in Nat /\ n <= Len(v) /\ Len(b) = n /\ \A i \in 1..n : b[i] = v[i]  BY <1>1, <1>2
<1>4. m \in 0..Len(v)  BY <1>2, <1>3
<1>5. SubSeq(b, 1, m) = SubSeq(v, 1, m)
  <2>1. SubSeq(b, 1, m) = [i \in 1..m |-> b[1 + i - 1]]  BY <1>1, <1>2, <1>3
  <2>2. SubSeq(v, 1, m) = [i \in 1..m |-> v[1 + i - 1]]  BY <1>2, <1>4
  <2>3. \A i \in 1..m : b[1 + i - 1] = v[1 + i - 1]  BY <1>3
  <2> QED BY <2>1, <2>2, <2>3
<1> QED BY <1>4, <1>5 DEF Beginnings

(* The lesser of two numbers.                                              *)
LEMMA MinOfTwo ==
  ASSUME NEW m \in Nat, NEW n \in Nat
  PROVE  Min({m, n}) \in Nat /\ Min({m, n}) <= m /\ Min({m, n}) <= n
         /\ (m <= n => Min({m, n}) = m)
<1>1. \E x \in {m, n} : \A y \in {m, n} : x <= y  OBVIOUS
<1>2. Min({m, n}) \in {m, n} /\ \A y \in {m, n} : Min({m, n}) <= y  BY <1>1 DEF Min
<1> QED BY <1>2

(* A sum of numbers.                                                       *)
LEMMA TotalIsNat ==
  ASSUME NEW A, IsFiniteSet(A), \A x \in A : x[2] \in Nat
  PROVE  Total(A) \in Nat
<1> DEFINE ch == [s \in SUBSET A |-> CHOOSE x \in s : TRUE]
           F == [p \in A \X Nat |-> p[1][2] + p[2]]
           iter == CHOOSE it : it = [s \in SUBSET A |->
                     IF s = {} THEN 0
                     ELSE (CHOOSE x \in s : TRUE)[2] + it[s \ {CHOOSE x \in s : TRUE}]]
<1>1. Total(A) = iter[A]  BY DEF Total, FoldSet, MapThenFoldSet
<1>2. Chooses(ch, A)  BY DEF Chooses
<1>3. F \in [A \X Nat -> Nat]  OBVIOUS
<1>4. PICK g : IsFold(g, A, F, 0, ch, Nat)
  <2> HIDE DEF F, ch
  <2> QED BY <1>2, <1>3, FoldExists
<1>5. g = [s \in SUBSET A |->
             IF s = {} THEN 0 ELSE (CHOOSE x \in s : TRUE)[2] + g[s \ {CHOOSE x \in s : TRUE}]]
  BY <1>4 DEF IsFold
<1>6. iter = [s \in SUBSET A |->
             IF s = {} THEN 0 ELSE (CHOOSE x \in s : TRUE)[2] + iter[s \ {CHOOSE x \in s : TRUE}]]
  BY <1>5
<1> DEFINE Q == {s \in SUBSET A : iter[s] \in Nat}
<1>7. {} \in Q
  <2> HIDE DEF iter
  <2> QED BY <1>6
<1>8. ASSUME NEW s \in SUBSET A, s # {} PROVE \E x \in s : s \ {x} \in Q => s \in Q
  <2> DEFINE y == CHOOSE x \in s : TRUE
  <2>1. y \in s /\ y \in A  BY <1>8
  <2>2. iter[s] = y[2] + iter[s \ {y}]
    <3> HIDE DEF iter
    <3> QED BY <1>6, <1>8
  <2> HIDE DEF iter, y
  <2>3. y[2] \in Nat  BY <2>1
  <2>4. s \ {y} \in Q => s \in Q  BY <2>2, <2>3
  <2> QED BY <2>1, <2>4
<1>9. A \in Q
  <2> HIDE DEF Q
  <2> QED BY <1>7, <1>8, SubsetInduction
<1> QED BY <1>1, <1>9

(* The vocabulary depends on the system only, which no action changes.     *)
LEMMA Vocabulary ==
  ASSUME UNCHANGED System
  PROVE  /\ Kernel' = Kernel /\ SyncedNames' = SyncedNames /\ Pairs' = Pairs
         /\ \A k : /\ ValOfAttrname(k)' = ValOfAttrname(k) /\ (Synced(k)' <=> Synced(k))
                   /\ (Ignored(k)' <=> Ignored(k)) /\ (IsSystem(k)' <=> IsSystem(k))
         /\ \A k : Called(k)' = Called(k)
<1>1. xsys' = xsys /\ odd' = odd /\ ignore' = ignore  BY DEF System
<1>2. Kernel' = Kernel  BY <1>1 DEF Kernel
<1>3. /\ \A k : ValOfAttrname(k)' = ValOfAttrname(k)
      /\ \A u : AttrnameOfVal(u)' = AttrnameOfVal(u)
  BY <1>1 DEF ValOfAttrname, AttrnameOfVal
<1>4. \A k : (Ignored(k)' <=> Ignored(k)) /\ (IsSystem(k)' <=> IsSystem(k))
  BY <1>1, <1>3 DEF Ignored, IsSystem
<1>5. \A k : (Synced(k)' <=> Synced(k))  BY <1>4 DEF Synced
<1>6. \A k : Called(k)' = Called(k)  BY <1>3 DEF Called
<1>7. SyncedNames' = SyncedNames  BY <1>2, <1>5 DEF SyncedNames
<1> QED BY <1>2, <1>3, <1>4, <1>5, <1>6, <1>7 DEF Pairs, Beginnings

LEMMA XattrMoves ==
  ASSUME [Next]_vars
  PROVE  UNCHANGED xattrvars \/ XattrStep \/ Touch
  BY DEF Next, Copies, SetsXattrs, SetsAcl, vars

(* The actions that change attributes are three.                           *)
LEMMA Changes ==
  ASSUME XattrStep \/ Touch
  PROVE  SetOne \/ RemoveOne \/ Touch \/ UNCHANGED Files2
  BY DEF XattrStep, NoAttributes, ListSize, ListNames, ListIs, ListLength, Listed, GetLength,
         GetContent, Got, Raises, Record, Load, ReadTarget, AllSet, StartCheck, Check

LEMMA SameSystem ==
  ASSUME UNCHANGED xattrvars \/ XattrStep \/ Touch
  PROVE  UNCHANGED System
<1>1. CASE UNCHANGED xattrvars  BY <1>1 DEF xattrvars, System
<1>2. CASE SetOne  BY <1>2 DEF SetOne, SetTarget, Raises, Files2
<1>3. CASE RemoveOne  BY <1>3 DEF RemoveOne, SetTarget, Raises, Files2
<1>4. CASE Touch  BY <1>4 DEF Touch
<1>5. CASE UNCHANGED Files2  BY <1>5 DEF Files2
<1> QED BY <1>1, <1>2, <1>3, <1>4, <1>5, Changes

AttrTypes == attrs \in [Files -> [Kernel -> {Gone} \cup Beginnings]]

LEMMA SetStaysTyped ==
  ASSUME AttrTypes, NEW k \in Kernel, NEW v \in {Gone} \cup Beginnings, SetTarget(k, v)
  PROVE  attrs' \in [Files -> [Kernel -> {Gone} \cup Beginnings]] /\ UNCHANGED touches
  BY DEF AttrTypes, SetTarget, Files2, Files

LEMMA ValuesTyped ==
  ASSUME NEW k
  PROVE  ValuesOf(k, Values) \subseteq {Gone} \cup Beginnings
  BY ValuesBegin DEF ValuesOf

LEMMA FirstIs ==
  ASSUME NEW S, S # {}
  PROVE  First(S) \in S
  BY DEF First

(* A value that is read.                                                   *)
LEMMA ReadIsValue ==
  ASSUME AttrTypes, NEW k \in Kernel, Value(k) # Gone, NEW n \in Nat
  PROVE  /\ Content(k, n) \in Beginnings /\ Value(k) \in Beginnings /\ Value(k) \in Seq(Nat)
         /\ Length(k) \in Nat /\ (Length(k) <= n => Content(k, n) = Value(k))
<1> DEFINE b == Value(k)
           m == Min({Length(k), n})
<1>1. b \in Beginnings /\ b \in Seq(Nat)
  BY ValuesBegin DEF AttrTypes, Value, File, Files
<1>2. Length(k) \in Nat /\ Length(k) = Len(b)  BY <1>1 DEF Length
<1>3. m \in Nat /\ m <= Length(k) /\ (Length(k) <= n => m = Length(k))  BY <1>2, MinOfTwo
<1>4. Content(k, n) = SubSeq(b, 1, m)  BY DEF Content
<1> HIDE DEF b, m
<1>5. SubSeq(b, 1, m) \in Beginnings  BY <1>1, <1>2, <1>3, BeginningOf
<1>6. m = Len(b) => SubSeq(b, 1, m) = b  BY <1>1
<1> QED BY <1>1, <1>2, <1>3, <1>4, <1>5, <1>6 DEF b

(* Unison writes only attributes that are synchronized.                    *)
LEMMA Writes ==
  ASSUME XattrTypes, Attributes, SetOne \/ RemoveOne
  PROVE  \/ \E k \in SyncedNames, v \in {Gone} \cup Beginnings : SetTarget(k, v)
         \/ UNCHANGED Files2
<1>1. odd \in {{}} \cup OddNames /\ (odd # {} => xsys = "linux")  BY DEF XattrTypes
<1>2. CASE SetOne
  <2> DEFINE x == First(ToWrite)
             k == Called(x[1])
  <2>1. x \in Pairs
    <3>1. x \in ToWrite  BY <1>2, FirstIs DEF SetOne
    <3> HIDE DEF x
    <3> QED BY <3>1 DEF ToWrite, Kept, Attributes
  <2>2. x[1] \in SyncedNames /\ x[2] \in Beginnings  BY <2>1 DEF Pairs
  <2>3. k \in SyncedNames
    <3> HIDE DEF x
    <3> QED BY <1>1, <2>2, OtherName
  <2>4. \A n \in 0..Len(x[2]) : SubSeq(x[2], 1, n) \in Beginnings
    <3> HIDE DEF x
    <3> QED BY <2>2, ValuesBegin, BeginningOf
  <2>5. \/ SetTarget(k, x[2]) \/ UNCHANGED Files2
        \/ \E n \in 0..Len(x[2]) : SetTarget(k, SubSeq(x[2], 1, n))
    BY <1>2 DEF SetOne, Raises
  <2> HIDE DEF x, k
  <2> QED BY <2>2, <2>3, <2>4, <2>5
<1>3. CASE RemoveOne
  <2> DEFINE k == Called(First(names))
  <2>1. First(names) \in SyncedNames  BY <1>3, FirstIs DEF RemoveOne, Attributes
  <2>2. k \in SyncedNames  BY <1>1, <2>1, OtherName
  <2>3. SetTarget(k, Gone) \/ UNCHANGED Files2  BY <1>3 DEF RemoveOne, Raises
  <2> HIDE DEF k
  <2> QED BY <2>2, <2>3
<1> QED BY <1>2, <1>3

LEMMA NextXattrTypes ==
  ASSUME XattrTypes, Attributes, XattrStep \/ Touch
  PROVE  XattrTypes' /\ AttrTypes /\ faults' \in {faults, faults + 1}
<1>1. AttrTypes /\ UNCHANGED System /\ Kernel' = Kernel
  BY SameSystem, Vocabulary DEF XattrTypes, AttrTypes
<1> DEFINE Rest ==
      /\ stage' \in {"source", "load", "before", "set", "check", "ok", "failed"}
      /\ op' \in Reading \cup {"set", "remove", "none"}
      /\ stage' \in {"source", "before", "check"} => op' \in Reading
      /\ stage' = "load" => op' \in {"length", "content"}
      /\ stage' = "set" => op' \in {"set", "remove"}
      /\ stage' \in Ended => op' = "none"
      /\ try'.tries \in 0..MaxTries
      /\ faults' \in {faults, faults + 1}
<1>2. /\ odd' = odd /\ xsys' = xsys  BY <1>1 DEF System
<1>3. SUFFICES /\ attrs' \in [Files -> [Kernel -> {Gone} \cup Beginnings]]
               /\ touches' \in [Files -> Nat] /\ Rest
  <2> HIDE DEF Rest
  <2>1. SUFFICES ASSUME attrs' \in [Files -> [Kernel -> {Gone} \cup Beginnings]],
                        touches' \in [Files -> Nat], Rest
                 PROVE  XattrTypes' /\ faults' \in {faults, faults + 1}
    BY <1>1
  <2>2. faults' \in Nat /\ faults' \in {faults, faults + 1}  BY <2>1 DEF Rest, XattrTypes
  <2>3. odd' \in {{}} \cup OddNames' /\ (odd' # {} => xsys' = "linux")
    BY <1>2 DEF XattrTypes, OddNames
  <2>4. attrs' \in [Files' -> [Kernel' -> {Gone'} \cup Beginnings']]
    BY <1>1, <2>1 DEF Files, Gone, Beginnings
  <2>5. stage' \in Ended' => op' = "none"  BY <2>1 DEF Rest, Ended
  <2> QED BY <2>1, <2>2, <2>3, <2>4, <2>5 DEF Rest, XattrTypes, Files, Reading
<1>4. /\ touches \in [Files -> Nat]
      /\ attrs \in [Files -> [Kernel -> {Gone} \cup Beginnings]]
  BY DEF XattrTypes
<1>5. attrs' \in [Files -> [Kernel -> {Gone} \cup Beginnings]] /\ touches' \in [Files -> Nat]
  <2>1. CASE UNCHANGED Files2  BY <1>4, <2>1 DEF Files2
  <2>2. CASE SetOne \/ RemoveOne
    <3>1. CASE UNCHANGED Files2  BY <2>1, <3>1
    <3>2. ASSUME NEW k \in SyncedNames, NEW v \in {Gone} \cup Beginnings, SetTarget(k, v)
          PROVE  /\ attrs' \in [Files -> [Kernel -> {Gone} \cup Beginnings]]
                 /\ touches' \in [Files -> Nat]
      BY <1>1, <1>4, <3>2, SetStaysTyped DEF SyncedNames
    <3> QED BY <2>2, <3>1, <3>2, Writes
  <2>3. CASE Touch
    <3>1. PICK k \in Kernel : \E v \in ValuesOf(k, Values) : attrs' = [attrs EXCEPT ![File][k] = v]
      BY <2>3 DEF Touch
    <3> PICK v \in {Gone} \cup Beginnings : attrs' = [attrs EXCEPT ![File][k] = v]
      BY <3>1, ValuesTyped
    <3>2. File \in Files  BY DEF File, Files
    <3>3. attrs' \in [Files -> [Kernel -> {Gone} \cup Beginnings]]  BY <1>4, <3>2
    <3>4. touches' = [touches EXCEPT ![File] = @ + 1]  BY <2>3 DEF Touch
    <3>5. touches' \in [Files -> Nat]  BY <1>4, <3>2, <3>4
    <3> QED BY <3>3, <3>5
  <2> QED BY <2>1, <2>2, <2>3, Changes
<1> SUFFICES Rest
  BY <1>5
<1>6. /\ stage \in {"source", "load", "before", "set", "check", "ok", "failed"}
      /\ op \in Reading \cup {"set", "remove", "none"}
      /\ stage \in {"source", "before", "check"} => op \in Reading
      /\ stage = "load" => op \in {"length", "content"}
      /\ stage = "set" => op \in {"set", "remove"}
      /\ stage \in Ended => op = "none"
      /\ try.tries \in 0..MaxTries
  BY DEF XattrTypes
<1>7. MaxTries \in Nat \ {0}  BY XattrConstants
<1> USE DEF Reading, Ended
<1>8. CASE Raises /\ faults' \in {faults, faults + 1}  BY <1>6, <1>8 DEF Raises, Progress
<1>9. Fault => faults' = faults + 1  BY DEF Fault
<1>10. CASE NoAttributes  BY <1>6, <1>10 DEF NoAttributes, Progress
<1>11. CASE ListSize  BY <1>6, <1>7, <1>8, <1>9, <1>11 DEF ListSize, NoTry
<1>12. ASSUME NEW S, ListIs(S), op = "names", faults' \in {faults, faults + 1} PROVE Rest
  BY <1>6, <1>7, <1>12 DEF ListIs, NoTry
<1>13. CASE ListNames  BY <1>8, <1>9, <1>12, <1>13 DEF ListNames
<1>14. CASE ListLength  BY <1>6, <1>8, <1>9, <1>14 DEF ListLength
<1>15. CASE Listed  BY <1>6, <1>15 DEF Listed
<1>16. ASSUME NEW k, NEW v, Got(k, v), op \in {"length", "content"}, op' = "length",
              faults' = faults
       PROVE  Rest
  BY <1>6, <1>7, <1>16 DEF Got, NoTry
<1>17. CASE GetLength
  <2>1. CASE op' = "content" /\ try.tries < MaxTries /\ try'.tries = try.tries + 1
             /\ UNCHANGED <<stage, faults>> /\ op = "length"
    BY <1>6, <1>7, <2>1
  <2> QED BY <1>8, <1>9, <1>16, <1>17, <2>1 DEF GetLength
<1>18. CASE GetContent
  <2>1. CASE op = "content" /\ op' = "length" /\ UNCHANGED <<stage, Progress, faults>>
    BY <1>6, <2>1 DEF Progress
  <2> QED BY <1>8, <1>9, <1>16, <1>18, <2>1 DEF GetContent
<1>19. CASE Record  BY <1>6, <1>19 DEF Record, AllRead
<1>20. CASE Load
  <2>1. CASE Raises  BY <1>8, <1>20, <2>1 DEF Load
  <2> QED BY <1>6, <1>20, <2>1 DEF Load, AllRead
<1>21. CASE ReadTarget  BY <1>6, <1>21 DEF ReadTarget
<1>22. CASE SetOne
  <2>1. CASE UNCHANGED <<stage, op, agreed, present, Progress, faults>>
    BY <1>6, <2>1 DEF Progress
  <2>2. CASE Fault /\ stage' = "failed" /\ op' = "none" /\ UNCHANGED <<Results, Progress>>
    BY <1>6, <1>9, <2>2 DEF Progress
  <2> QED BY <1>8, <1>9, <1>22, <2>1, <2>2 DEF SetOne
<1>23. CASE AllSet  BY <1>6, <1>23 DEF AllSet
<1>24. CASE RemoveOne
  <2>1. CASE UNCHANGED <<stage, op, try>> /\ faults' \in {faults, faults + 1}
    BY <1>6, <2>1
  <2> QED BY <1>8, <1>9, <1>24, <2>1 DEF RemoveOne
<1>25. CASE StartCheck  BY <1>6, <1>25 DEF StartCheck, Progress
<1>26. CASE Check  BY <1>6, <1>26 DEF Check, Progress
<1>27. CASE Touch  BY <1>6, <1>27 DEF Touch, Progress
<1> HIDE DEF Rest
<1> QED
  BY <1>10, <1>11, <1>13, <1>14, <1>15, <1>17, <1>18, <1>19, <1>20, <1>21, <1>22, <1>23,
     <1>24, <1>25, <1>26, <1>27 DEF XattrStep

(* What the calls look at and have.                                        *)
LEMMA NextAttributes ==
  ASSUME XattrTypes, Attributes, XattrStep \/ Touch
  PROVE  Attributes'
<1>1. AttrTypes /\ UNCHANGED System /\ try.tries \in 0..MaxTries /\ MaxTries \in Nat
      /\ odd \in {{}} \cup OddNames /\ (odd # {} => xsys = "linux")
  BY SameSystem, XattrConstants DEF XattrTypes, AttrTypes
<1>2. /\ Kernel' = Kernel /\ SyncedNames' = SyncedNames /\ Pairs' = Pairs
      /\ \A k : (IsSystem(k)' <=> IsSystem(k))
  BY <1>1, Vocabulary
<1> DEFINE Looking == {k \in Kernel : ~IsSystem(k)}
           Calling ==
             /\ op' \in Reading \ {"list"} => supports[File']
             /\ op' \in {"names", "lengths"} => try'.tries = 0
             /\ op' = "content" => names' # {} /\ try'.len \in Nat
           Having ==
             /\ IsFiniteSet(got')
             /\ op' = "lengths" => names' \subseteq Looking /\ got' \subseteq Looking \X Nat
             /\ op' \in {"length", "content"} => got' \subseteq Pairs
             /\ op' \in {"length", "content", "remove"} => names' \subseteq SyncedNames
           Writing ==
             /\ agreed'.list \subseteq Pairs /\ loaded' \subseteq Pairs /\ present' \subseteq Pairs
             /\ stage' \in {"load", "before", "set", "check"} => loaded' \subseteq agreed'.list
<1>3. Looking' = Looking
  <2>1. {k \in Kernel : ~IsSystem(k)}' = {k \in Kernel : ~IsSystem(k)}  BY <1>2
  <2> QED BY <2>1
<1>4. supports' = supports  BY <1>1 DEF System
<1>5. /\ IsFiniteSet(got)
      /\ op \in Reading \ {"list"} => supports[File]
      /\ op \in {"names", "lengths"} => try.tries = 0
      /\ op = "lengths" => names \subseteq Looking /\ got \subseteq Looking \X Nat
      /\ op \in {"length", "content"} => got \subseteq Pairs
      /\ op \in {"length", "content", "remove"} => names \subseteq SyncedNames
      /\ op = "content" => names # {} /\ try.len \in Nat
      /\ agreed.list \subseteq Pairs /\ loaded \subseteq Pairs /\ present \subseteq Pairs
      /\ stage \in {"load", "before", "set", "check"} => loaded \subseteq agreed.list
  BY DEF Attributes
<1>6. SUFFICES Calling /\ Having /\ Writing
  <2> HIDE DEF Looking
  <2>1. op' = "lengths" => names' \subseteq Looking' /\ got' \subseteq Looking' \X Nat
    BY <1>3, <1>6
  <2>2. op' = "lengths" =>
          names' \subseteq {k \in Kernel : ~IsSystem(k)}' /\ got' \subseteq {k \in Kernel : ~IsSystem(k)}' \X Nat
    BY <2>1 DEF Looking
  <2> QED BY <1>2, <1>4, <1>6, <2>2 DEF Attributes, Reading
<1> HIDE DEF Looking
<1> USE DEF Reading
<1>7. CASE Raises  BY <1>5, <1>7 DEF Raises, Results, Progress
<1>8. CASE NoAttributes
  BY <1>5, <1>8 DEF NoAttributes, Progress, None
<1>9. CASE ListSize
  <2>1. CASE /\ op' \in {"lengths", "names"} /\ supports[File] /\ try'.tries = 0 /\ names' = {} /\ got' = {}
             /\ UNCHANGED <<Results, stage>>
    <3>1. File' = File  BY <2>1 DEF File
    <3> QED BY <1>5, <2>1, <3>1, FS_EmptySet DEF Results
  <2> QED BY <1>7, <1>9, <2>1 DEF ListSize, NoTry
<1>10. CASE ListNames
  <2>1. ASSUME NEW S, S \subseteq Present, ListIs(S) PROVE Calling /\ Having /\ Writing
    <3>1. File' = File /\ supports[File]  BY <1>5, <1>10, <2>1 DEF ListNames, ListIs, File
    <3>2. names' \subseteq Looking  BY <2>1 DEF ListIs, Present, Looking
    <3> QED BY <1>5, <2>1, <3>1, <3>2, FS_EmptySet DEF ListIs, Results, NoTry
  <2> QED BY <1>7, <1>10, <2>1 DEF ListNames
<1>11. CASE ListLength
  <2>1. op = "lengths" /\ (Raises \/ (File' = File /\ UNCHANGED <<Results, stage, op, try>>))
    BY <1>11 DEF ListLength, File
  <2>2. CASE Raises  BY <1>7, <2>2
  <2>3. CASE ~Raises
    <3>1. PICK k \in names :
            /\ names' = names \ {k}
            /\ got' = got \/ (Value(k) # Gone /\ got' = got \cup {<<k, Length(k)>>})
      BY <1>11, <2>3 DEF ListLength
    <3>2. k \in Looking /\ k \in Kernel  BY <1>5, <2>1, <3>1 DEF Looking
    <3>3. Value(k) # Gone => Length(k) \in Nat  BY <1>1, <3>2, ReadIsValue
    <3>4. got' \subseteq Looking \X Nat  BY <1>5, <2>1, <3>1, <3>2, <3>3
    <3>5. IsFiniteSet(got')
      <4>1. IsFiniteSet(got \cup {<<k, Length(k)>>})  BY <1>5, FS_AddElement
      <4> QED BY <1>5, <3>1, <4>1
    <3> QED BY <1>5, <2>1, <2>3, <3>1, <3>4, <3>5 DEF Results
  <2> QED BY <2>2, <2>3
<1>12. CASE Listed
  <2>1. /\ op = "lengths" /\ op' = "length" /\ got' = {} /\ UNCHANGED <<Results, stage, try>>
        /\ names' = {x[1] : x \in Kept(got)}
    BY <1>12 DEF Listed
  <2>2. names' \subseteq SyncedNames
    <3> SUFFICES ASSUME NEW x \in Kept(got) PROVE x[1] \in SyncedNames
      BY <2>1
    <3>1. x \in Looking \X Nat /\ ~Ignored(x[1])  BY <1>5, <2>1 DEF Kept
    <3> QED BY <3>1 DEF Looking, SyncedNames, Synced
  <2>3. File' = File  BY <2>1 DEF File
  <2> QED BY <1>5, <2>1, <2>2, <2>3, FS_EmptySet DEF Results
<1>13. ASSUME op \in {"length", "content"}, names # {}, NEW v, Got(First(names), v),
              op' = "length", v \in Beginnings
       PROVE  Calling /\ Having /\ Writing
  <2> DEFINE k == First(names)
  <2>1. k \in names /\ k \in SyncedNames  BY <1>5, <1>13, FirstIs
  <2> HIDE DEF k
  <2>2. /\ got' = got \cup {<<k, v>>} /\ names' = names \ {k}
        /\ UNCHANGED <<Results, stage>>
    BY <1>13 DEF Got, k
  <2>3. File' = File  BY <2>2 DEF File
  <2>4. got' \subseteq Pairs  BY <1>5, <1>13, <2>1, <2>2 DEF Pairs
  <2>5. IsFiniteSet(got')  BY <1>5, <2>2, FS_AddElement
  <2> QED BY <1>5, <1>13, <2>2, <2>3, <2>4, <2>5 DEF Results
<1>14. CASE GetLength
  <2> DEFINE value == Value(Called(First(names)))
  <2>1. op = "length" /\ names # {}  BY <1>14 DEF GetLength
  <2>2. value # Gone => value \in Beginnings /\ value \in Seq(Nat)
    <3>1. First(names) \in SyncedNames  BY <1>5, <2>1, FirstIs
    <3>2. Called(First(names)) \in Kernel  BY <1>1, <3>1, OtherName DEF SyncedNames
    <3> HIDE DEF First
    <3> QED BY <1>1, <3>2, ReadIsValue
  <2>3. CASE Raises  BY <1>7, <2>3
  <2>4. CASE value = <<>> /\ Got(First(names), <<>>) /\ op' = op
    <3>1. <<>> \in Beginnings  BY <2>2, <2>4, ValuesBegin DEF Gone
    <3> QED BY <1>13, <2>1, <2>4, <3>1
  <2>5. CASE /\ value # Gone /\ op' = "content" /\ try'.len = Len(value)
             /\ UNCHANGED <<Results, stage, got, names>>
    <3>1. Len(value) \in Nat  BY <2>2, <2>5
    <3>2. File' = File  BY <2>5 DEF File
    <3> HIDE DEF value
    <3> QED BY <1>5, <2>1, <2>5, <3>1, <3>2 DEF Results
  <2> QED BY <1>14, <2>3, <2>4, <2>5 DEF GetLength
<1>15. CASE GetContent
  <2> DEFINE k == Called(First(names))
  <2>1. op = "content" /\ names # {} /\ try.len \in Nat  BY <1>5, <1>15 DEF GetContent
  <2>2. k \in Kernel
    <3>1. First(names) \in SyncedNames  BY <1>5, <2>1, FirstIs
    <3> QED BY <1>1, <3>1, OtherName DEF SyncedNames
  <2>3. Value(k) # Gone => Content(k, try.len) \in Beginnings
    <3> HIDE DEF k
    <3> QED BY <1>1, <2>1, <2>2, ReadIsValue
  <2>4. CASE Raises  BY <1>7, <2>4
  <2>5. CASE Value(k) # Gone /\ Got(First(names), Content(k, try.len)) /\ op' = "length"
    BY <1>13, <2>1, <2>3, <2>5
  <2>6. CASE op' = "length" /\ UNCHANGED <<Results, stage, Progress>>
    <3>1. File' = File  BY <2>6 DEF File
    <3> QED BY <1>5, <2>1, <2>6, <3>1 DEF Results, Progress
  <2> QED BY <1>15, <2>4, <2>5, <2>6 DEF GetContent
<1>16. CASE Record
  <2>1. PICK cached \in SUBSET Hashed :
          /\ names' = {x[1] : x \in Hashed \ cached} /\ loaded' = cached \cup (got \ Hashed)
    BY <1>16 DEF Record
  <2>2. /\ stage = "source" /\ stage' = "load" /\ op = "length" /\ op' = op /\ try' = try
        /\ agreed'.list = got /\ got' = {} /\ present' = present
    BY <1>16 DEF Record, AllRead
  <2>3. File' = File  BY <2>2 DEF File
  <2>4. Hashed \subseteq got /\ got \subseteq Pairs  BY <1>5, <2>2 DEF Hashed
  <2>5. names' \subseteq SyncedNames /\ loaded' \subseteq got  BY <2>1, <2>4 DEF Pairs
  <2> QED BY <1>5, <2>2, <2>3, <2>4, <2>5, FS_EmptySet
<1>17. CASE Load
  <2>1. CASE Raises  BY <1>7, <2>1
  <2>2. CASE ~Raises
    <3>1. /\ stage = "load" /\ op = "length" /\ got \subseteq agreed.list /\ op' = "list"
          /\ loaded' = loaded \cup got /\ got' = {}
          /\ agreed' = agreed /\ present' = present
      BY <1>17, <2>2 DEF Load, AllRead
    <3> QED BY <1>5, <3>1, FS_EmptySet
  <2> QED BY <2>1, <2>2
<1>18. CASE ReadTarget
  <2>1. /\ stage = "before" /\ op = "length" /\ op' = "set" /\ present' = got /\ got' = {}
        /\ agreed' = agreed /\ loaded' = loaded
    BY <1>18 DEF ReadTarget, AllRead
  <2> QED BY <1>5, <2>1, FS_EmptySet
<1>19. CASE SetOne
  <2>1. /\ stage = "set" /\ loaded' \subseteq loaded /\ got' = got
        /\ UNCHANGED <<agreed, present>> /\ op' \in {"set", "none"}
    BY <1>19 DEF SetOne, Raises, Results, Progress
  <2> QED BY <1>5, <2>1
<1>20. CASE AllSet
  <2>1. names' \subseteq SyncedNames /\ op' = "remove" /\ got' = got /\ UNCHANGED <<Results, stage>>
    BY <1>5, <1>20 DEF AllSet, Pairs
  <2> QED BY <1>5, <2>1 DEF Results
<1>21. CASE RemoveOne
  <2>1. CASE Raises  BY <1>7, <2>1
  <2>2. CASE ~Raises
    <3>1. op = "remove" /\ op' = op /\ names' \subseteq names /\ got' = got /\ UNCHANGED <<Results, stage>>
      BY <1>21, <2>2 DEF RemoveOne
    <3> QED BY <1>5, <3>1 DEF Results
  <2> QED BY <2>1, <2>2
<1>22. CASE StartCheck
  <2>1. stage \in {"set", "check"} \/ loaded \subseteq agreed.list
    BY <1>5, <1>22 DEF StartCheck, XattrTypes, Ended
  <2> QED BY <1>5, <1>22, <2>1 DEF StartCheck, Results, Progress, XattrTypes, Ended
<1>23. CASE Check  BY <1>5, <1>23 DEF Check, Results, Progress
<1>24. CASE Touch
  <2>1. UNCHANGED <<op, stage, Progress, Results>> /\ supports[File]  BY <1>24 DEF Touch
  <2>2. File' = File  BY <2>1 DEF File
  <2> QED BY <1>5, <2>1, <2>2 DEF Progress, Results
<1> HIDE DEF Calling, Having, Writing
<1> QED
  BY <1>8, <1>9, <1>10, <1>11, <1>12, <1>14, <1>15, <1>16, <1>17, <1>18, <1>19, <1>20,
     <1>21, <1>22, <1>23, <1>24
  DEF XattrStep

(* Unison writes the attributes that are synchronized...                   *)
LEMMA TargetIsSet ==
  ASSUME XattrTypes, UNCHANGED System, NEW k \in SyncedNames, NEW v, SetTarget(k, v)
  PROVE  /\ Recorded => Recorded'
         /\ OnlySynced => OnlySynced'
         /\ had \subseteq had'
<1>1. /\ attrs' = [attrs EXCEPT !["target"][k] = v]
      /\ had' = had \cup {<<"target", k, v>>} /\ touches' = touches
  BY DEF SetTarget, SyncedNames, Synced
<1>2. /\ attrs \in [Files -> [Kernel -> {Gone} \cup Beginnings]] /\ k \in Kernel /\ Synced(k)
      /\ Kernel' = Kernel /\ \A j : (Synced(j)' <=> Synced(j))
  BY Vocabulary DEF XattrTypes, SyncedNames
<1>3. /\ DOMAIN attrs["target"] = Kernel /\ DOMAIN attrs'["target"] = Kernel
      /\ \A j \in Kernel : j # k => attrs'["target"][j] = attrs["target"][j]
      /\ attrs'["target"][k] = v
      /\ \A j \in Kernel : attrs'["source"][j] = attrs["source"][j]
  BY <1>1, <1>2 DEF Files
<1>4. Recorded => Recorded'  BY <1>1, <1>2, <1>3 DEF Recorded, Files
<1>5. OnlySynced => OnlySynced'
  <2> SUFFICES ASSUME OnlySynced, touches["target"] = 0, NEW j \in Kernel, ~Synced(j)
               PROVE  {x \in had' : x[1] = "target" /\ x[2] = j} = {<<"target", j, attrs'["target"][j]>>}
    BY <1>1, <1>2, <1>3 DEF OnlySynced
  <2>1. j # k  BY <1>2
  <2>2. {x \in had : x[1] = "target" /\ x[2] = j} = {<<"target", j, attrs["target"][j]>>}
    BY <1>3 DEF OnlySynced
  <2>3. {x \in had' : x[1] = "target" /\ x[2] = j} = {x \in had : x[1] = "target" /\ x[2] = j}
    BY <1>1, <2>1
  <2> QED BY <1>3, <2>1, <2>2, <2>3
<1> QED BY <1>1, <1>4, <1>5

(* ...and other programs any.                                              *)
LEMMA NextRecorded ==
  ASSUME XattrTypes, Attributes, Recorded, OnlySynced, XattrStep \/ Touch
  PROVE  Recorded' /\ OnlySynced' /\ had \subseteq had'
<1>1. UNCHANGED System  BY SameSystem
<1>2. /\ attrs \in [Files -> [Kernel -> {Gone} \cup Beginnings]] /\ touches \in [Files -> Nat]
      /\ Kernel' = Kernel /\ \A j : (Synced(j)' <=> Synced(j))
  BY <1>1, Vocabulary DEF XattrTypes
<1>3. ASSUME UNCHANGED Files2 PROVE Recorded' /\ OnlySynced' /\ had \subseteq had'
  BY <1>2, <1>3 DEF Files2, Recorded, OnlySynced, Files
<1>4. CASE SetOne \/ RemoveOne
  <2>1. ASSUME NEW k \in SyncedNames, NEW v \in {Gone} \cup Beginnings, SetTarget(k, v)
        PROVE  Recorded' /\ OnlySynced' /\ had \subseteq had'
    BY <1>1, <2>1, TargetIsSet
  <2> QED BY <1>3, <1>4, <2>1, Writes
<1>5. CASE Touch
  <2>1. PICK k \in Kernel : \E v \in ValuesOf(k, Values) :
          /\ attrs' = [attrs EXCEPT ![File][k] = v] /\ had' = had \cup {<<File, k, v>>}
          /\ touches' = [touches EXCEPT ![File] = @ + 1]
    BY <1>5 DEF Touch
  <2>2. PICK v \in ValuesOf(k, Values) :
          /\ attrs' = [attrs EXCEPT ![File][k] = v] /\ had' = had \cup {<<File, k, v>>}
          /\ touches' = [touches EXCEPT ![File] = @ + 1]
    BY <2>1
  <2>3. File \in Files  BY DEF File, Files
  <2>4. Recorded'
    <3> SUFFICES ASSUME NEW f \in Files, NEW j \in Kernel PROVE <<f, j, attrs'[f][j]>> \in had'
      BY <1>2 DEF Recorded, Files
    <3>1. CASE f = File /\ j = k  BY <1>2, <2>2, <2>3, <3>1
    <3>2. CASE ~(f = File /\ j = k)
      <4>1. attrs'[f][j] = attrs[f][j]  BY <1>2, <2>2, <2>3, <3>2
      <4> QED BY <2>2, <4>1 DEF Recorded
    <3> QED BY <3>1, <3>2
  <2>5. OnlySynced'
    <3>1. CASE File = "target"
      <4>1. touches'["target"] = touches["target"] + 1 /\ touches["target"] \in Nat
        BY <1>2, <2>2, <2>3, <3>1 DEF Files
      <4> QED BY <4>1 DEF OnlySynced
    <3>2. CASE File = "source"
      <4>1. attrs'["target"] = attrs["target"] /\ touches'["target"] = touches["target"]
        BY <1>2, <2>2, <3>2 DEF Files
      <4>2. \A j : {x \in had' : x[1] = "target" /\ x[2] = j} = {x \in had : x[1] = "target" /\ x[2] = j}
        BY <2>2, <3>2
      <4> QED BY <1>2, <4>1, <4>2 DEF OnlySynced
    <3> QED BY <2>3, <3>1, <3>2 DEF Files
  <2> QED BY <2>2, <2>4, <2>5
<1> QED BY <1>3, <1>4, <1>5, Changes

(* A value is read with the length that the file system has told, or in a  *)
(* buffer that is large enough for it.                                     *)
LEMMA NextReadWhole ==
  ASSUME XattrTypes, Attributes, Recorded, ReadWhole, XattrStep \/ Touch, had \subseteq had'
  PROVE  ReadWhole'
<1>1. /\ xsys' = xsys /\ AttrTypes /\ \A u : Called(u)' = Called(u)
      /\ odd \in {{}} \cup OddNames /\ (odd # {} => xsys = "linux")
  BY SameSystem, Vocabulary DEF XattrTypes, AttrTypes, System
<1>2. SUFFICES ASSUME xsys \in {"linux", "darwin"}, op' \in {"length", "content"}, NEW x \in got'
               PROVE  <<File', Called(x[1]), x[2]>> \in had'
  BY <1>1 DEF ReadWhole
<1>3. CASE got' = {}  BY <1>3
<1>4. CASE op \in {"length", "content"} /\ got' = got /\ File' = File
  BY <1>2, <1>4 DEF ReadWhole
<1>5. ASSUME NEW k \in SyncedNames, Got(k, Value(Called(k))), op \in {"length", "content"}
      PROVE  <<File', Called(x[1]), x[2]>> \in had'
  <2>1. got' = got \cup {<<k, Value(Called(k))>>} /\ File' = File  BY <1>5 DEF Got, File
  <2>2. CASE x \in got  BY <1>2, <1>5, <2>1, <2>2 DEF ReadWhole
  <2>3. CASE x = <<k, Value(Called(k))>>
    <3>1. x[1] = k /\ x[2] = Value(Called(k))  BY <2>3
    <3>2. Called(k) \in Kernel  BY <1>1, OtherName DEF SyncedNames
    <3>3. <<File, Called(k), Value(Called(k))>> \in had  BY <3>2 DEF Recorded, Value, File, Files
    <3> QED BY <2>1, <3>1, <3>3
  <2> QED BY <2>1, <2>2, <2>3
<1>6. ASSUME op \in {"length", "content"}, names # {} PROVE First(names) \in SyncedNames
  BY <1>6, FirstIs DEF Attributes
<1>7. CASE GetLength
  <2> DEFINE k == First(names)
  <2>1. op = "length" /\ names # {}  BY <1>7 DEF GetLength
  <2>2. \/ op' = "none" \/ (got' = got /\ File' = File)
        \/ Value(Called(k)) = <<>> /\ Got(k, <<>>)
    BY <1>7 DEF GetLength, Raises, File
  <2>3. k \in SyncedNames  BY <1>6, <2>1
  <2> HIDE DEF k
  <2> QED BY <1>2, <1>4, <1>5, <2>1, <2>2, <2>3
<1>8. CASE GetContent
  <2> DEFINE k == First(names)
             n == try.len
             c == Called(k)
  <2>1. op = "content" /\ names # {} /\ n \in Nat  BY <1>8 DEF GetContent, Attributes
  <2>2. \/ op' = "none" \/ (got' = got /\ File' = File)
        \/ Value(c) # Gone /\ Fits(c, n) /\ Got(k, Content(c, n))
    BY <1>8 DEF GetContent, Raises, Progress, File
  <2>3. k \in SyncedNames  BY <1>6, <2>1
  <2>4. c \in Kernel
    <3> HIDE DEF k
    <3> QED BY <1>1, <2>3, OtherName DEF SyncedNames
  <2>5. Value(c) # Gone /\ Fits(c, n) => Content(c, n) = Value(c)
    <3>1. Fits(c, n) => Length(c) <= n  BY <1>2 DEF Fits, Refusing
    <3> HIDE DEF c, n
    <3> QED BY <1>1, <2>1, <2>4, <3>1, ReadIsValue
  <2> HIDE DEF k, n
  <2> QED BY <1>2, <1>4, <1>5, <2>1, <2>2, <2>3, <2>5
<1>9. CASE Touch  BY <1>2, <1>4, <1>9 DEF Touch, Progress, File
<1>10. \/ GetLength \/ GetContent \/ Touch \/ got' = {} \/ op' \notin {"length", "content"}
  <2>1. Raises => op' = "none"  BY DEF Raises
  <2>2. NoAttributes => op' \in {"none", "list"}  BY DEF NoAttributes
  <2>3. ListSize => got' = {} \/ Raises  BY DEF ListSize
  <2>4. ListNames => got' = {} \/ Raises  BY DEF ListNames, ListIs
  <2>5. ListLength => op' = "lengths" \/ Raises  BY DEF ListLength
  <2>6. Listed \/ Record \/ ReadTarget => got' = {}  BY DEF Listed, Record, ReadTarget
  <2>7. Load => got' = {} \/ Raises  BY DEF Load
  <2>8. SetOne => op' \in {"set", "none"}  BY DEF SetOne, Raises
  <2>9. RemoveOne => op' \in {"remove", "none"}  BY DEF RemoveOne, Raises
  <2>10. AllSet \/ StartCheck \/ Check => op' \in {"remove", "list", "none"}
    BY DEF AllSet, StartCheck, Check
  <2> QED
    BY <2>1, <2>2, <2>3, <2>4, <2>5, <2>6, <2>7, <2>8, <2>9, <2>10 DEF XattrStep
<1> QED BY <1>2, <1>3, <1>7, <1>8, <1>9, <1>10

(* Only a job on attributes has steps.                                     *)
LEMMA OnlyThatJob ==
  ASSUME XattrStep \/ Touch
  PROVE  ~NoXattrs
<1> SUFFICES ASSUME stage = "ok", op = "none" PROVE FALSE
  BY DEF NoXattrs
<1> QED
  BY DEF XattrStep, Touch, NoAttributes, ListSize, ListNames, ListLength, Listed, GetLength,
         GetContent, Record, Load, ReadTarget, SetOne, AllSet, RemoveOne, StartCheck, Check, AllRead

LEMMA InitXattrInv == Init => XattrInv
<1> SUFFICES ASSUME XattrInit PROVE XattrInv
  BY DEF Init, XattrInv
<1>1. MaxTries \in Nat  BY XattrConstants
<1>2. XattrTypes
  <2>1. attrs \in [Files -> [Kernel -> {Gone} \cup Beginnings]]
    <3>1. Values \cup FewValues \subseteq Beginnings  BY ValuesBegin
    <3>2. attrs \in [Files -> [Kernel -> Values \cup FewValues \cup {Gone}]]  BY DEF XattrInit
    <3> QED BY <3>1, <3>2
  <2>2. /\ touches = [f \in Files |-> 0] /\ faults = 0
        /\ stage = "source" /\ op = "list" /\ try.tries = 0
    BY DEF XattrInit, NoTry
  <2>3. touches \in [Files -> Nat] /\ try.tries \in 0..MaxTries  BY <1>1, <2>2
  <2>4. odd \in {{}} \cup OddNames /\ (odd # {} => xsys = "linux")  BY DEF XattrInit
  <2> QED BY <2>1, <2>2, <2>3, <2>4 DEF XattrTypes, Reading, Ended
<1>3. Attributes  BY FS_EmptySet DEF XattrInit, Attributes, NoTry
<1>4. had = {<<f, k, attrs[f][k]>> : f \in Files, k \in Kernel}  BY DEF XattrInit
<1>5. Recorded  BY <1>4 DEF Recorded
<1>6. ReadWhole  BY DEF XattrInit, ReadWhole
<1>7. OnlySynced
  <2>1. DOMAIN attrs["target"] = Kernel /\ "target" \in Files  BY <1>2 DEF XattrTypes, Files
  <2> QED BY <1>4, <2>1 DEF OnlySynced
<1> QED BY <1>2, <1>3, <1>5, <1>6, <1>7 DEF XattrInv

LEMMA NextXattrInv == XattrInv /\ [Next]_vars => XattrInv'
<1> SUFFICES ASSUME XattrInv, [Next]_vars PROVE XattrInv'
  OBVIOUS
<1>1. CASE UNCHANGED xattrvars
  <2>1. /\ Kernel' = Kernel /\ SyncedNames' = SyncedNames /\ Pairs' = Pairs
        /\ \A k : (IsSystem(k)' <=> IsSystem(k)) /\ (Synced(k)' <=> Synced(k))
        /\ \A k : Called(k)' = Called(k)
        /\ File' = File
    BY <1>1, SameSystem, Vocabulary DEF xattrvars, File
  <2>2. NoXattrs => NoXattrs'  BY <1>1 DEF xattrvars, NoXattrs, NoTry, None, Files
  <2>3. XattrTypes => XattrTypes'
    BY <1>1, <2>1 DEF xattrvars, XattrTypes, Files, Reading, Ended, Gone, Beginnings, OddNames
  <2>4. Attributes => Attributes'
    <3>1. {k \in Kernel : ~IsSystem(k)}' = {k \in Kernel : ~IsSystem(k)}  BY <2>1
    <3> QED BY <1>1, <2>1, <3>1 DEF xattrvars, Attributes, Reading
  <2>5. Recorded => Recorded'  BY <1>1, <2>1 DEF xattrvars, Recorded, Files
  <2>6. ReadWhole => ReadWhole'  BY <1>1, <2>1 DEF xattrvars, ReadWhole
  <2>7. OnlySynced => OnlySynced'  BY <1>1, <2>1 DEF xattrvars, OnlySynced
  <2> QED BY <2>2, <2>3, <2>4, <2>5, <2>6, <2>7 DEF XattrInv
<1>2. CASE XattrStep \/ Touch
  <2>1. ~NoXattrs  BY <1>2, OnlyThatJob
  <2>2. XattrTypes /\ Attributes /\ Recorded /\ ReadWhole /\ OnlySynced  BY <2>1 DEF XattrInv
  <2>3. XattrTypes' /\ Attributes'  BY <1>2, <2>2, NextXattrTypes, NextAttributes
  <2>4. Recorded' /\ OnlySynced' /\ had \subseteq had'  BY <1>2, <2>2, NextRecorded
  <2>5. ReadWhole'  BY <1>2, <2>2, <2>4, NextReadWhole
  <2> QED BY <2>3, <2>4, <2>5 DEF XattrInv
<1> QED BY <1>1, <1>2, XattrMoves

(* The types of attributes; values are read in full and no attribute is    *)
(* touched that is not synchronized (props_xattr.c, setXattrs).            *)
THEOREM XattrInvariant == Spec => []XattrInv
  BY InitXattrInv, NextXattrInv, PTL DEF Spec

(* Every value that unison_xattr_get returns on Linux and Darwin is one    *)
(* the attribute had.                                                      *)
THEOREM ValuesAreWhole == Spec => []ReadWhole
<1>1. NoXattrs => ReadWhole  BY DEF NoXattrs, ReadWhole
<1>2. XattrInv => ReadWhole  BY <1>1 DEF XattrInv
<1> QED BY <1>2, XattrInvariant, PTL

(* The attributes that are not synchronized are never written or removed.  *)
THEOREM OthersUntouched == Spec => []OnlySynced
<1>1. NoXattrs => OnlySynced  BY DEF NoXattrs, OnlySynced, Files
<1>2. XattrInv => OnlySynced  BY <1>1 DEF XattrInv
<1> QED BY <1>2, XattrInvariant, PTL

-----------------------------------------------------------------------------
(* Without interference, what a call sees stays.                           *)
LEMMA SameAttrs ==
  ASSUME UNCHANGED System, NEW f, attrs'[f] = attrs[f]
  PROVE  /\ Has(f)' = Has(f) /\ \A S : PairsOf(f, S)' = PairsOf(f, S)
         /\ PairsOf(f, Has(f))' = PairsOf(f, Has(f))
<1>1. SyncedNames' = SyncedNames  BY Vocabulary
<1>2. Has(f)' = Has(f)  BY <1>1 DEF Has, Gone
<1> QED BY <1>2 DEF PairsOf

LEMMA SameFile ==
  ASSUME UNCHANGED System, File' = File, attrs'[File] = attrs[File]
  PROVE  /\ Present' = Present /\ Has(File)' = Has(File)
         /\ PairsOf(File, Has(File))' = PairsOf(File, Has(File))
         /\ LengthsOf(Present)' = LengthsOf(Present) /\ Size(Present)' = Size(Present)
         /\ Lens(PairsOf(File, Has(File)))' = Lens(PairsOf(File, Has(File)))
         /\ \A k : Length(k)' = Length(k) /\ Value(k)' = Value(k)
<1>1. SyncedNames' = SyncedNames /\ Kernel' = Kernel  BY Vocabulary
<1>2. \A k : Value(k)' = Value(k)  BY DEF Value
<1>3. \A k : Length(k)' = Length(k)  BY <1>2 DEF Length
<1>4. Present' = Present  BY <1>1, <1>2 DEF Present, Gone
<1>5. LengthsOf(Present)' = LengthsOf(Present)  BY <1>3, <1>4 DEF LengthsOf
<1>6. Size(Present)' = Size(Present)  BY <1>4
<1>7. Has(File)' = Has(File)  BY <1>1 DEF Has, Gone
<1>8. PairsOf(File, Has(File))' = PairsOf(File, Has(File))  BY <1>7 DEF PairsOf
<1>9. Lens(PairsOf(File, Has(File)))' = Lens(PairsOf(File, Has(File)))  BY <1>8 DEF Lens
<1> QED BY <1>2, <1>3, <1>4, <1>5, <1>6, <1>7, <1>8, <1>9

LEMMA StaysUndisturbed ==
  ASSUME XattrTypes, Attributes, XattrStep \/ Touch
  PROVE  /\ Undisturbed("source")' => Undisturbed("source") /\ attrs'["source"] = attrs["source"]
         /\ Undisturbed("target")' =>
              /\ Undisturbed("target")
              /\ SetOne \/ RemoveOne \/ attrs'["target"] = attrs["target"]
         /\ faults' = 0 => faults = 0
<1>1. attrs \in [Files -> [Kernel -> {Gone} \cup Beginnings]] /\ touches \in [Files -> Nat] /\ faults \in Nat
  BY DEF XattrTypes
<1>2. odd' = odd /\ (faults' = 0 => faults = 0)
  BY <1>1, SameSystem, NextXattrTypes DEF System
<1>3. CASE UNCHANGED Files2  BY <1>2, <1>3 DEF Files2, Undisturbed
<1>4. ASSUME NEW k, NEW v, SetTarget(k, v)
      PROVE  touches' = touches /\ attrs'["source"] = attrs["source"]
  BY <1>1, <1>4 DEF SetTarget, Files2, Files
<1>5. CASE SetOne \/ RemoveOne
  <2>1. (\E k, v : SetTarget(k, v)) \/ UNCHANGED Files2  BY <1>5, Writes
  <2> QED BY <1>2, <1>3, <1>4, <1>5, <2>1 DEF Undisturbed
<1>6. CASE Touch
  <2>1. touches' = [touches EXCEPT ![File] = @ + 1] /\ File \in Files
        /\ \E k, v : attrs' = [attrs EXCEPT ![File][k] = v]
    BY <1>6 DEF Touch, File, Files
  <2>2. touches'[File] # 0  BY <1>1, <2>1
  <2>3. \A f \in Files : f # File => touches'[f] = touches[f] /\ attrs'[f] = attrs[f]
    BY <1>1, <2>1
  <2> QED BY <1>2, <2>2, <2>3 DEF Files, Undisturbed
<1> QED BY <1>3, <1>5, <1>6, Changes

(* The steps that read a list.                                             *)
LEMMA ReadingStep ==
  ASSUME XattrStep \/ Touch, op' \in {"names", "lengths", "length", "content"}
  PROVE  ListSize \/ ListNames \/ ListLength \/ Listed \/ GetLength \/ GetContent \/ Record \/ Touch
<1>1. Raises => op' = "none"  BY DEF Raises
<1>2. ~NoAttributes  BY DEF NoAttributes
<1>3. ~Load /\ ~ReadTarget  BY <1>1 DEF Load, ReadTarget
<1>4. ~SetOne /\ ~AllSet  BY <1>1 DEF SetOne, AllSet
<1>5. ~RemoveOne  BY <1>1 DEF RemoveOne
<1>6. ~StartCheck /\ ~Check  BY DEF StartCheck, Check
<1> QED BY <1>2, <1>3, <1>4, <1>5, <1>6 DEF XattrStep

LEMMA SeesTheSame ==
  ASSUME XattrTypes, Attributes, XattrStep \/ Touch,
         op' \in {"names", "lengths", "length", "content"}, Undisturbed(File)'
  PROVE  /\ Undisturbed(File) /\ ~Touch /\ File' = File /\ attrs'[File] = attrs[File]
         /\ UNCHANGED System
<1>1. UNCHANGED System /\ odd' = odd  BY SameSystem DEF System
<1>2. ListSize \/ ListNames \/ ListLength \/ Listed \/ GetLength \/ GetContent \/ Record \/ Touch
  BY ReadingStep
<1>3. CASE Touch
  <2>1. touches' = [touches EXCEPT ![File] = @ + 1] /\ File' = File /\ File \in Files
    BY <1>3 DEF Touch, File, Files
  <2>2. touches'[File] # 0  BY <2>1 DEF XattrTypes
  <2> QED BY <2>1, <2>2 DEF Undisturbed
<1>4. CASE ~Touch
  <2>1. attrs' = attrs /\ touches' = touches
    BY <1>2, <1>4 DEF ListSize, ListNames, ListIs, ListLength, Listed, GetLength, GetContent, Got,
                      Raises, Record, Files2
  <2>2. File' = File
    <3>1. stage' = stage \/ Record
      <4>1. Raises => op' = "none"  BY DEF Raises
      <4> QED BY <1>2, <1>4, <4>1
          DEF ListSize, ListNames, ListIs, ListLength, Listed, GetLength, GetContent, Got
    <3> QED BY <3>1 DEF Record, File
  <2> QED BY <1>1, <1>4, <2>1, <2>2 DEF Undisturbed
<1> QED BY <1>3, <1>4

(* The names in the list of a file, and those of the attributes that are   *)
(* synchronized.                                                           *)
LEMMA HasIs ==
  ASSUME Attributes, op \in Reading
  PROVE  Has(File) = {k \in Present : Synced(k)} /\ Has(File) \subseteq SyncedNames
  BY DEF Has, Present, SyncedNames, Value

LEMMA KernelIsFinite ==
  ASSUME odd = {}
  PROVE  IsFiniteSet(Kernel) /\ \A k \in Kernel : Len(k) \in Nat
<1> DEFINE a == IF xsys = "linux" THEN <<"user", "a">> ELSE <<"a">>
           b == IF xsys = "linux" THEN <<"trusted", "b">> ELSE <<"!", "trusted", "b">>
           c == <<"system", "c">>
<1>1. Kernel \subseteq {a, b, c}  BY DEF Kernel
<1>2. Len(a) \in Nat /\ Len(b) \in Nat /\ Len(c) \in Nat  OBVIOUS
<1> HIDE DEF a, b, c
<1>3. IsFiniteSet({a})  BY FS_Singleton
<1>4. IsFiniteSet({a} \cup {b})  BY <1>3, FS_AddElement
<1>5. IsFiniteSet(({a} \cup {b}) \cup {c})  BY <1>4, FS_AddElement
<1>6. Kernel \subseteq ({a} \cup {b}) \cup {c}  BY <1>1
<1>7. IsFiniteSet(Kernel)  BY <1>5, <1>6, FS_Subset
<1> QED BY <1>1, <1>2, <1>7

LEMMA SizeIsNat ==
  ASSUME odd = {}
  PROVE  Size(Present) \in Nat
<1> DEFINE E == {<<k, Len(k)>> : k \in Present}
<1>1. Present \subseteq Kernel  BY DEF Present
<1>2. IsFiniteSet(Present)  BY <1>1, KernelIsFinite, FS_Subset
<1>3. IsFiniteSet(E)
  <2> DEFINE f == [k \in Present |-> <<k, Len(k)>>]
  <2>1. f \in Surjection(Present, E)  BY DEF Surjection
  <2> HIDE DEF E, f
  <2> QED BY <1>2, <2>1, FS_Surjection
<1>4. \A x \in E : x[2] \in Nat  BY <1>1, KernelIsFinite
<1> HIDE DEF E
<1>5. Total(E) \in Nat  BY <1>3, <1>4, TotalIsNat
<1> QED BY <1>5 DEF E, Size

(* A list that is read in one call is the one that was measured.           *)
LEMMA ListNamesIs ==
  ASSUME Undisturbed(File), ReadsWhole, ListNames
  PROVE  \/ ListIs(Present) /\ faults' = faults
         \/ (\E S \in SUBSET Present : ListIs(S)) /\ Fault
         \/ Raises /\ Fault
<1>1. Size(Present) \in Nat /\ try.len = Size(Present)
  BY SizeIsNat DEF Undisturbed, ListNames, ReadsWhole
<1>2. Size(Present) <= try.len  BY <1>1
<1> QED BY <1>2 DEF ListNames

LEMMA NextReadsWhole ==
  ASSUME XattrTypes, Attributes, ReadsWhole, XattrStep \/ Touch
  PROVE  ReadsWhole'
<1> DEFINE H == Has(File)
           All == PairsOf(File, H)
           After ==
             /\ op' = "names" => try'.len = Size(Present)
             /\ op' = "lengths" => names' \subseteq Present /\ got' \subseteq LengthsOf(Present)
             /\ op' \in {"length", "content"} =>
                  /\ names' \subseteq H
                  /\ got' \subseteq All
                  /\ op' = "length" => try'.tries = 0
                  /\ op' = "content" => try'.len = Length(First(names'))
<1>1. SUFFICES ASSUME op' \in {"names", "lengths", "length", "content"}, Undisturbed(File)'
               PROVE  After
  <2> HIDE DEF After
  <2>1. SUFFICES ASSUME op' \in {"names", "lengths", "length", "content"}, Undisturbed(File)'
                 PROVE  ReadsWhole'
    BY DEF ReadsWhole
  <2>2. UNCHANGED System /\ File' = File /\ attrs'[File] = attrs[File]  BY <2>1, SeesTheSame
  <2>3. /\ Present' = Present /\ Has(File)' = H /\ PairsOf(File, Has(File))' = All
        /\ LengthsOf(Present)' = LengthsOf(Present) /\ Size(Present)' = Size(Present)
        /\ Length(First(names))' = Length(First(names'))
    BY <2>2, SameFile DEF First
  <2>4. After  BY <1>1, <2>1
  <2> HIDE DEF H, All
  <2> QED BY <2>3, <2>4 DEF ReadsWhole, After
<1>2. /\ Undisturbed(File) /\ ~Touch /\ odd = {} /\ AttrTypes
      /\ \A k \in SyncedNames : Called(k) = k
  BY <1>1, SeesTheSame, OtherName DEF Undisturbed, XattrTypes, AttrTypes
<1>3. /\ op = "names" => try.len = Size(Present)
      /\ op = "lengths" => names \subseteq Present /\ got \subseteq LengthsOf(Present)
      /\ op \in {"length", "content"} =>
           /\ names \subseteq H
           /\ got \subseteq All
           /\ op = "length" => try.tries = 0
           /\ op = "content" => try.len = Length(First(names))
  BY <1>2 DEF ReadsWhole
<1>4. /\ H \subseteq SyncedNames /\ \A k \in H : Value(k) # Gone /\ <<k, Value(k)>> \in All
      /\ \A k \in Present : Synced(k) => k \in H
      /\ \A x \in All : x[1] \in H
  <2>1. H \subseteq SyncedNames /\ \A k \in H : Value(k) # Gone  BY DEF Has, Value
  <2>2. \A k \in H : <<k, Value(k)>> \in All  BY DEF PairsOf, Value
  <2>3. \A k \in Present : Synced(k) => k \in H  BY DEF Has, Value, Present, SyncedNames
  <2>4. \A x \in All : x[1] \in H
    <3> HIDE DEF H
    <3> QED BY DEF PairsOf
  <2> QED BY <2>1, <2>2, <2>3, <2>4
<1>5. ~Raises  BY <1>1 DEF Raises
<1> HIDE DEF H, All
<1>6. CASE ListSize
  BY <1>1, <1>5, <1>6 DEF ListSize, NoTry
<1>7. CASE ListNames
  <2>1. PICK S \in SUBSET Present : ListIs(S)  BY <1>2, <1>5, <1>7, ListNamesIs
  <2> QED BY <2>1 DEF ListIs
<1>8. CASE ListLength
  <2>1. op = "lengths" /\ op' = op  BY <1>5, <1>8 DEF ListLength
  <2>2. PICK k \in names :
          names' = names \ {k} /\ (got' = got \/ got' = got \cup {<<k, Length(k)>>})
    BY <1>5, <1>8 DEF ListLength
  <2>3. k \in Present  BY <1>3, <2>1, <2>2
  <2> QED BY <1>3, <2>1, <2>2, <2>3 DEF LengthsOf
<1>9. CASE Listed
  <2>1. /\ op = "lengths" /\ op' = "length" /\ got' = {} /\ names' = {x[1] : x \in Kept(got)}
        /\ try' = try
    BY <1>9 DEF Listed
  <2>2. try.tries = 0 /\ got \subseteq {k \in Kernel : ~IsSystem(k)} \X Nat
    BY <2>1 DEF Attributes
  <2>3. ASSUME NEW x \in Kept(got) PROVE x[1] \in H
    <3>1. x \in got /\ ~Ignored(x[1])  BY DEF Kept
    <3>2. x \in LengthsOf(Present)  BY <1>3, <2>1, <3>1
    <3>3. x[1] \in Present  BY <3>2 DEF LengthsOf
    <3>4. Synced(x[1])  BY <2>2, <3>1 DEF Synced
    <3> QED BY <1>4, <3>3, <3>4
  <2>4. names' \subseteq H  BY <2>1, <2>3
  <2> QED BY <2>1, <2>2, <2>4
<1>10. ASSUME op \in {"length", "content"}, names # {}
       PROVE  First(names) \in H /\ Called(First(names)) = First(names)
              /\ Value(First(names)) # Gone /\ <<First(names), Value(First(names))>> \in All
  <2>1. First(names) \in H  BY <1>3, <1>10, FirstIs
  <2> HIDE DEF First
  <2> QED BY <1>2, <1>4, <2>1
<1>11. ASSUME NEW k \in names, op \in {"length", "content"}, op' = "length",
              Got(k, Value(k)), <<k, Value(k)>> \in All
       PROVE  After
  BY <1>3, <1>11 DEF Got, NoTry
<1>12. CASE GetLength
  <2> DEFINE k == First(names)
  <2>1. op = "length" /\ names # {} /\ k \in names  BY <1>12, FirstIs DEF GetLength
  <2>2. Called(k) = k /\ Value(k) # Gone /\ <<k, Value(k)>> \in All  BY <1>10, <2>1
  <2>3. \/ Value(k) = <<>> /\ Got(k, <<>>) /\ op' = op
        \/ op' = "content" /\ try'.len = Len(Value(k)) /\ UNCHANGED <<got, names>>
    BY <1>5, <1>12, <2>2 DEF GetLength
  <2>4. Length(k) = Len(Value(k))  BY DEF Length
  <2>5. CASE op' = "content" /\ try'.len = Len(Value(k)) /\ UNCHANGED <<got, names>>
    <3>1. Length(First(names')) = try'.len  BY <2>4, <2>5
    <3> QED BY <1>3, <2>1, <2>5, <3>1
  <2>6. CASE Value(k) = <<>> /\ Got(k, <<>>) /\ op' = op
    <3> HIDE DEF k
    <3> QED BY <1>11, <2>1, <2>2, <2>6
  <2> QED BY <2>3, <2>5, <2>6
<1>13. CASE GetContent
  <2> DEFINE k == First(names)
             n == try.len
  <2>1. op = "content" /\ names # {} /\ k \in names /\ n \in Nat /\ n = Length(k)
    BY <1>3, <1>13, FirstIs DEF GetContent, Attributes
  <2>2. Called(k) = k /\ Value(k) # Gone /\ <<k, Value(k)>> \in All /\ k \in Kernel
    BY <1>4, <1>10, <2>1 DEF SyncedNames
  <2>3. Fits(k, n) /\ Content(k, n) = Value(k)
    <3> HIDE DEF k, n
    <3>1. Length(k) \in Nat /\ (Length(k) <= n => Content(k, n) = Value(k))
      BY <1>2, <2>1, <2>2, ReadIsValue
    <3> QED BY <2>1, <3>1 DEF Fits
  <2>4. Got(k, Content(k, n)) /\ op' = "length"
    BY <1>5, <1>13, <2>2, <2>3 DEF GetContent
  <2> HIDE DEF k, n
  <2> QED BY <1>11, <2>1, <2>2, <2>3, <2>4
<1>14. CASE Record
  <2>1. op = "length" /\ op' = op /\ got' = {} /\ try' = try /\ names' \subseteq {x[1] : x \in got}
    BY <1>14 DEF Record, AllRead, Hashed
  <2>2. names' \subseteq H  BY <1>3, <1>4, <2>1
  <2> QED BY <1>3, <2>1, <2>2
<1> HIDE DEF After
<1> QED BY <1>1, <1>2, <1>6, <1>7, <1>8, <1>9, <1>12, <1>13, <1>14, ReadingStep

LEMMA OneMore ==
  ASSUME NEW A, NEW k, NEW v
  PROVE  NamesOf(A \cup {<<k, v>>}) = NamesOf(A) \cup {k}
<1> DEFINE x == <<k, v>>
           B == A \cup {x}
<1>1. x[1] = k /\ x \in B /\ A \subseteq B /\ \A y \in B : y \in A \/ y = x  OBVIOUS
<1> HIDE DEF x, B
<1>2. \A j \in NamesOf(B) : j \in NamesOf(A) \cup {k}  BY <1>1 DEF NamesOf
<1>3. \A j \in NamesOf(A) \cup {k} : j \in NamesOf(B)  BY <1>1 DEF NamesOf
<1>4. NamesOf(B) = NamesOf(A) \cup {k}  BY <1>2, <1>3
<1> QED BY <1>4 DEF B, x

(* An attribute that is left out of a list: a call has failed.             *)
LEMMA LeftOut ==
  ASSUME XattrTypes, Removal, Undisturbed(File), supports[File], op \in Reading,
         NEW k \in Has(File), NEW n, n = faults + 1
  PROVE  n >= IF stage = "check" /\ k \notin NamesOf(agreed.list) THEN 2 ELSE 1
<1>1. faults \in Nat  BY DEF XattrTypes
<1>2. CASE stage = "check" /\ k \notin NamesOf(agreed.list)
  <2>1. File = "target"  BY <1>2 DEF File
  <2>2. k \in Unwanted  BY <1>2, <2>1 DEF Unwanted
  <2>3. faults # 0  BY <1>2, <2>1, <2>2 DEF Removal
  <2>4. n >= 2  BY <1>1, <2>3
  <2> QED BY <1>2, <2>4
<1>3. CASE ~(stage = "check" /\ k \notin NamesOf(agreed.list))
  <2>1. n >= 1  BY <1>1
  <2> QED BY <1>3, <2>1
<1> QED BY <1>2, <1>3

LEMMA NextReadsAll ==
  ASSUME XattrTypes, Attributes, ReadsWhole, ReadsAll, Removal, XattrStep \/ Touch
  PROVE  ReadsAll'
<1> DEFINE H == Has(File)
           Whole2 == Lens(PairsOf(File, H))
           Missing(k) == faults' >= IF stage' = "check" /\ k \notin NamesOf(agreed'.list) THEN 2 ELSE 1
           After ==
             /\ \A k \in H : k \in names' \cup NamesOf(got') \/ Missing(k)
             /\ op' # "lengths" /\ faults' = 0 => listed' = Whole2
<1>1. SUFFICES ASSUME stage' # "load", op' \in {"lengths", "length", "content"}, Undisturbed(File)'
               PROVE  After
  <2> HIDE DEF After
  <2>1. SUFFICES ASSUME stage' # "load", op' \in {"lengths", "length", "content"}, Undisturbed(File)'
                 PROVE  ReadsAll'
    BY DEF ReadsAll
  <2>2. UNCHANGED System /\ File' = File /\ attrs'[File] = attrs[File]  BY <2>1, SeesTheSame
  <2>3. Has(File)' = H /\ Lens(PairsOf(File, Has(File)))' = Whole2  BY <2>2, SameFile
  <2>4. After  BY <1>1, <2>1
  <2>5. \A k : Failed(k)' <=> Missing(k)  BY DEF Failed, NamesOf
  <2>6. NamesOf(got)' = NamesOf(got')  BY DEF NamesOf
  <2> HIDE DEF H, Whole2, Missing
  <2> QED BY <2>3, <2>4, <2>5, <2>6 DEF ReadsAll, After
<1>2. /\ Undisturbed(File) /\ ~Touch /\ odd = {} /\ AttrTypes
      /\ \A k \in SyncedNames : Called(k) = k
  BY <1>1, SeesTheSame, OtherName DEF Undisturbed, XattrTypes, AttrTypes
<1>3. ~Raises /\ ~Record  BY <1>1 DEF Raises, Record
<1>4. stage' = stage /\ agreed' = agreed
  BY <1>1, <1>2, <1>3, ReadingStep
  DEF ListSize, ListNames, ListIs, ListLength, Listed, GetLength, GetContent, Got, Results
<1>5. faults \in Nat /\ faults' \in {faults, faults + 1}  BY NextXattrTypes DEF XattrTypes
<1>6. op \in {"lengths", "length", "content"} =>
        /\ \A k \in H : k \in names \cup NamesOf(got) \/ Failed(k)
        /\ op # "lengths" /\ faults = 0 => listed = Whole2
  BY <1>1, <1>2, <1>4 DEF ReadsAll
<1>7. ASSUME NEW k, Failed(k) PROVE Missing(k)
  <2>1. faults' >= faults  BY <1>5
  <2> DEFINE least == IF stage = "check" /\ k \notin NamesOf(agreed.list) THEN 2 ELSE 1
  <2>2. least \in Nat /\ faults >= least  BY <1>7 DEF Failed
  <2> HIDE DEF least
  <2>3. faults' >= least  BY <1>5, <2>1, <2>2
  <2> QED BY <1>4, <2>3 DEF least
<1>8. ASSUME supports[File], op \in Reading, Fault, NEW k \in H PROVE Missing(k)
  <2>1. faults' = faults + 1  BY <1>8 DEF Fault
  <2> QED BY <1>2, <1>4, <1>8, <2>1, LeftOut
<1>9. H \subseteq Present /\ \A k \in H : Synced(k) /\ ~IsSystem(k) /\ ~Ignored(k)
  BY DEF Has, Present, SyncedNames, Value, Synced
<1>10. op \in {"names", "lengths"} => supports[File]  BY DEF Attributes, Reading
<1> HIDE DEF H, Missing, Whole2
<1>11. CASE ListSize
  <2>1. op' = "lengths" /\ Present = {}  BY <1>1, <1>3, <1>11 DEF ListSize
  <2> QED BY <1>9, <2>1
<1>12. CASE ListNames
  <2>1. op = "names" /\ op' = "lengths"  BY <1>3, <1>12 DEF ListNames, ListIs
  <2>2. CASE ListIs(Present)
    <3>1. names' = {k \in Present : ~IsSystem(k)}  BY <2>2 DEF ListIs
    <3> QED BY <1>9, <2>1, <3>1
  <2>3. CASE Fault
    <3>1. supports[File] /\ op \in Reading  BY <1>10, <2>1 DEF Reading
    <3> QED BY <1>8, <2>1, <2>3, <3>1
  <2> QED BY <1>2, <1>3, <1>12, <2>2, <2>3, ListNamesIs
<1>13. CASE ListLength
  <2>1. op = "lengths" /\ op' = op  BY <1>3, <1>13 DEF ListLength
  <2>2. names \subseteq Present  BY <1>2, <2>1 DEF ReadsWhole
  <2>3. PICK k \in names :
          \/ names' = names \ {k} /\ got' = got \cup {<<k, Length(k)>>}
          \/ (Value(k) # Gone => Fault) /\ names' = names \ {k} /\ got' = got
    BY <1>3, <1>13 DEF ListLength
  <2>4. Value(k) # Gone  BY <2>2, <2>3 DEF Present
  <2>5. CASE names' = names \ {k} /\ got' = got \cup {<<k, Length(k)>>}
    <3>1. NamesOf(got') = NamesOf(got) \cup {k}  BY <2>5, OneMore
    <3> QED BY <1>6, <1>7, <2>1, <2>5, <3>1
  <2>6. CASE Fault
    <3>1. supports[File] /\ op \in Reading  BY <1>10, <2>1 DEF Reading
    <3> QED BY <1>8, <2>1, <2>6, <3>1
  <2> QED BY <2>3, <2>4, <2>5, <2>6
<1>14. CASE Listed
  <2>1. /\ op = "lengths" /\ names = {} /\ got' = {} /\ listed' = Kept(got)
        /\ names' = {x[1] : x \in Kept(got)} /\ faults' = faults
    BY <1>14 DEF Listed
  <2>2. ASSUME NEW k \in H PROVE k \in names' \/ (Failed(k) /\ Missing(k))
    <3>1. CASE Failed(k)  BY <1>7, <3>1
    <3>2. CASE k \in NamesOf(got)
      <4>1. PICK x \in got : x[1] = k  BY <3>2 DEF NamesOf
      <4>2. x \in Kept(got)  BY <1>9, <4>1 DEF Kept
      <4> QED BY <2>1, <4>1, <4>2
    <3> QED BY <1>6, <2>1, <3>1, <3>2
  <2>3. ASSUME faults = 0 PROVE listed' = Whole2
    <3>1. ASSUME NEW k \in H PROVE k \in names'
      <4>1. ~Failed(k)  BY <2>3 DEF Failed
      <4> QED BY <2>2, <4>1
    <3>2. got \subseteq LengthsOf(Present)  BY <1>2, <2>1 DEF ReadsWhole
    <3>3. got \subseteq {k \in Kernel : ~IsSystem(k)} \X Nat  BY <2>1 DEF Attributes
    <3>4. ASSUME NEW x \in Kept(got) PROVE x[1] \in H /\ x = <<x[1], Length(x[1])>>
      <4>1. x \in got /\ ~Ignored(x[1])  BY DEF Kept
      <4>2. PICK k \in Present : x = <<k, Length(k)>>  BY <3>2, <4>1 DEF LengthsOf
      <4>3. x[1] = k  BY <4>2
      <4>4. ~IsSystem(k)  BY <3>3, <4>1, <4>3
      <4>5. k \in H  BY <4>1, <4>2, <4>3, <4>4 DEF H, Has, Present, SyncedNames, Value, Synced
      <4> QED BY <4>2, <4>3, <4>5
    <3>5. ASSUME NEW k \in H PROVE <<k, Length(k)>> \in Kept(got)
      <4>1. PICK x \in Kept(got) : x[1] = k  BY <2>1, <3>1
      <4> QED BY <3>4, <4>1
    <3>6. Kept(got) = LengthsOf(H)
      <4>1. \A x \in Kept(got) : x \in LengthsOf(H)  BY <3>4 DEF LengthsOf
      <4>2. \A x \in LengthsOf(H) : x \in Kept(got)  BY <3>5 DEF LengthsOf
      <4> QED BY <4>1, <4>2
    <3>7. Whole2 = LengthsOf(H)
      <4>1. \A k : Length(k) = Len(attrs[File][k])  BY DEF Length, Value
      <4>2. Lens(PairsOf(File, H)) = {<<k, Len(attrs[File][k])>> : k \in H}
        <5>1. ASSUME NEW y \in Lens(PairsOf(File, H)) PROVE y \in {<<k, Len(attrs[File][k])>> : k \in H}
          <6>1. PICK x \in PairsOf(File, H) : y = <<x[1], Len(x[2])>>  BY DEF Lens
          <6>2. PICK k \in H : x = <<k, attrs[File][k]>>  BY DEF PairsOf
          <6> QED BY <6>1, <6>2
        <5>2. ASSUME NEW k \in H PROVE <<k, Len(attrs[File][k])>> \in Lens(PairsOf(File, H))
          <6> DEFINE x == <<k, attrs[File][k]>>
          <6>1. x \in PairsOf(File, H)  BY DEF PairsOf
          <6>2. <<x[1], Len(x[2])>> \in Lens(PairsOf(File, H))
            <7> HIDE DEF x
            <7> QED BY <6>1 DEF Lens
          <6> QED BY <6>2
        <5> QED BY <5>1, <5>2
      <4> QED BY <4>1, <4>2 DEF Whole2, LengthsOf
    <3> QED BY <2>1, <3>6, <3>7
  <2> QED BY <2>1, <2>2, <2>3
<1>15. ASSUME NEW k \in names, NEW v, Got(k, v), op \in {"length", "content"}, faults' = faults
       PROVE  After
  <2>1. names' = names \ {k} /\ got' = got \cup {<<k, v>>} /\ listed' = listed  BY <1>15 DEF Got
  <2>2. NamesOf(got') = NamesOf(got) \cup {k}  BY <2>1, OneMore
  <2> QED BY <1>6, <1>7, <1>15, <2>1, <2>2
<1>16. ASSUME UNCHANGED <<names, got, listed, faults>>, op \in {"length", "content"}
       PROVE  After
  BY <1>6, <1>7, <1>16
<1> HIDE DEF After
<1>17. CASE GetLength
  <2> DEFINE k == First(names)
  <2>1. k \in names  BY <1>17, FirstIs DEF GetLength
  <2>2. op = "length" /\ ((\E v : Got(k, v) /\ faults' = faults) \/ UNCHANGED <<names, got, listed, faults>>)
    BY <1>3, <1>17 DEF GetLength
  <2> HIDE DEF k
  <2> QED BY <1>15, <1>16, <2>1, <2>2
<1>18. CASE GetContent
  <2> DEFINE k == First(names)
  <2>1. op = "content" /\ k \in names  BY <1>18, FirstIs DEF GetContent, Attributes
  <2>2. (\E v : Got(k, v) /\ faults' = faults) \/ UNCHANGED <<names, got, listed, faults>>
    BY <1>3, <1>18 DEF GetContent, Progress
  <2> HIDE DEF k
  <2> QED BY <1>15, <1>16, <2>1, <2>2
<1> QED BY <1>1, <1>2, <1>3, <1>11, <1>12, <1>13, <1>14, <1>17, <1>18, ReadingStep

LEMMA PairsOfIs ==
  ASSUME NEW f, NEW S, NEW x \in PairsOf(f, S)
  PROVE  x[1] \in S /\ x = <<x[1], x[2]>> /\ x[2] = attrs[f][x[1]]
<1>1. PICK k \in S : x = <<k, attrs[f][k]>>  BY DEF PairsOf
<1> QED BY <1>1

LEMMA ReadAllOf ==
  ASSUME Undisturbed(File), ReadsWhole, ReadsAll, AllRead, stage # "load", faults = 0
  PROVE  got = PairsOf(File, Has(File)) /\ listed = Lens(PairsOf(File, Has(File)))
<1> DEFINE H == Has(File)
<1>1. op = "length" /\ names = {}  BY DEF AllRead
<1>2. got \subseteq PairsOf(File, H)  BY <1>1 DEF ReadsWhole
<1>3. \A k : ~Failed(k)  BY DEF Failed
<1>4. /\ \A k \in H : k \in NamesOf(got)
      /\ listed = Lens(PairsOf(File, H))
  BY <1>1, <1>3 DEF ReadsAll
<1> HIDE DEF H
<1>5. ASSUME NEW x \in PairsOf(File, H) PROVE x \in got
  <2>1. x[1] \in H /\ x = <<x[1], x[2]>> /\ x[2] = attrs[File][x[1]]  BY PairsOfIs
  <2>2. PICK y \in got : y[1] = x[1]  BY <1>4, <2>1 DEF NamesOf
  <2>3. y = <<y[1], y[2]>> /\ y[2] = attrs[File][y[1]]  BY <1>2, PairsOfIs
  <2>4. y = x  BY <2>1, <2>2, <2>3
  <2> QED BY <2>4
<1>6. got = PairsOf(File, H)  BY <1>2, <1>5
<1> QED BY <1>4, <1>6 DEF H

(* What is recorded of the source, and read again of it, is what it has.   *)
LEMMA NextAgreement ==
  ASSUME XattrTypes, Attributes, ReadsWhole, ReadsAll, Agreement, XattrStep \/ Touch
  PROVE  Agreement'
<1> DEFINE H == Has("source")
           All == PairsOf("source", H)
           Agreed(s, a) == s \in {"load", "before", "set", "check"} \/ (s = "ok" /\ a # None)
           After ==
             /\ Agreed(stage', agreed') => agreed'.list = All /\ agreed'.size = Total(Lens(All))
             /\ stage' = "load" => loaded' \cup got' \cup PairsOf("source", names') = All
             /\ stage' = "before" => loaded' = All
<1>1. SUFFICES ASSUME Undisturbed("source")', faults' = 0
               PROVE  After
  <2> HIDE DEF After
  <2>1. SUFFICES ASSUME Undisturbed("source")', faults' = 0 PROVE Agreement'
    BY DEF Agreement
  <2>2. UNCHANGED System /\ attrs'["source"] = attrs["source"]  BY <2>1, SameSystem, StaysUndisturbed
  <2>3. PairsOf("source", Has("source"))' = All /\ PairsOf("source", names)' = PairsOf("source", names')
    BY <2>2, SameAttrs DEF PairsOf
  <2>4. After  BY <1>1, <2>1
  <2>5. Total(Lens(agreed.list))' = Total(Lens(agreed'.list)) /\ None' = None
    BY DEF None
  <2>6. Agreed(stage', agreed') => agreed'.list = All /\ agreed'.size = Total(Lens(agreed'.list))
    <3> HIDE DEF Agreed, All
    <3> QED BY <2>4 DEF After
  <2>7. /\ stage' = "load" => loaded' \cup got' \cup PairsOf("source", names') = agreed'.list
        /\ stage' = "before" => loaded' = agreed'.list
    <3>1. stage' \in {"load", "before"} => agreed'.list = All  BY <2>6
    <3> HIDE DEF Agreed, All
    <3> QED BY <2>4, <3>1 DEF After
  <2> HIDE DEF All
  <2> QED BY <2>3, <2>5, <2>6, <2>7 DEF Agreement
<1>2. /\ Undisturbed("source") /\ faults = 0 /\ odd = {} /\ AttrTypes /\ attrs'["source"] = attrs["source"]
      /\ \A k \in SyncedNames : Called(k) = k
  BY <1>1, StaysUndisturbed, OtherName DEF Undisturbed, XattrTypes, AttrTypes
<1>3. ~Fault  BY <1>1, <1>2 DEF Fault
<1>4. /\ Agreed(stage, agreed) => agreed.list = All /\ agreed.size = Total(Lens(All))
      /\ stage = "load" => loaded \cup got \cup PairsOf("source", names) = All
      /\ stage = "before" => loaded = All
  BY <1>2 DEF Agreement
<1>5. CASE Raises  BY <1>5 DEF Raises
<1> HIDE DEF All
<1>6. ASSUME UNCHANGED <<Results, stage>>, stage # "load"
      PROVE  After
  BY <1>4, <1>6 DEF Results
<1>7. CASE NoAttributes
  BY <1>4, <1>7 DEF NoAttributes, XattrTypes
<1>8. CASE ListSize \/ ListNames \/ ListLength \/ Listed
  <2>1. stage # "load"  BY <1>8 DEF ListSize, ListNames, ListLength, Listed, XattrTypes
  <2>2. Raises \/ UNCHANGED <<Results, stage>>
    BY <1>8 DEF ListSize, ListNames, ListIs, ListLength, Listed
  <2> QED BY <1>5, <1>6, <2>1, <2>2
<1>9. ASSUME NEW k \in names, Got(k, attrs["source"][k]), stage = "load"
      PROVE  After
  <2>1. names' = names \ {k} /\ got' = got \cup {<<k, attrs["source"][k]>>} /\ UNCHANGED <<Results, stage>>
    BY <1>9 DEF Got
  <2>2. PairsOf("source", names) = PairsOf("source", names') \cup {<<k, attrs["source"][k]>>}
    BY <1>9, <2>1 DEF PairsOf
  <2>3. loaded' \cup got' \cup PairsOf("source", names') = All
    BY <1>4, <1>9, <2>1, <2>2 DEF Results
  <2> QED BY <1>4, <1>9, <2>1, <2>3 DEF Results
<1>10. ASSUME stage = "load", op \in {"length", "content"}, names # {}
       PROVE  LET k == First(names) IN
              /\ k \in names /\ Called(k) = k /\ k \in Kernel /\ Value(k) = attrs["source"][k] /\ Value(k) # Gone
  <2>1. File = "source"  BY <1>10 DEF File
  <2>2. First(names) \in names  BY <1>10, FirstIs
  <2>3. names \subseteq Has("source")  BY <1>2, <1>10, <2>1 DEF ReadsWhole
  <2> DEFINE k == First(names)
  <2>4. k \in SyncedNames /\ attrs["source"][k] # Gone  BY <2>2, <2>3 DEF Has
  <2> HIDE DEF k
  <2>5. Called(k) = k /\ k \in Kernel /\ Value(k) = attrs["source"][k]
    BY <1>2, <2>1, <2>4 DEF SyncedNames, Value
  <2> QED BY <2>2, <2>4, <2>5 DEF k
<1>11. CASE GetLength \/ GetContent
  <2> DEFINE k == First(names)
             n == try.len
  <2>1. op \in {"length", "content"} /\ names # {}  BY <1>11 DEF GetLength, GetContent, Attributes
  <2>2. CASE stage # "load"
    <3>1. Raises \/ UNCHANGED <<Results, stage>>  BY <1>11 DEF GetLength, GetContent, Got
    <3> QED BY <1>5, <1>6, <2>2, <3>1
  <2>3. CASE stage = "load"
    <3>1. k \in names /\ Called(k) = k /\ k \in Kernel /\ Value(k) = attrs["source"][k] /\ Value(k) # Gone
      BY <1>10, <2>1, <2>3
    <3> HIDE DEF k
    <3>2. CASE GetLength
      <4>1. Raises \/ (Value(k) = <<>> /\ Got(k, <<>>)) \/ UNCHANGED <<Results, stage, got, names>>
        BY <3>1, <3>2 DEF GetLength, k
      <4> QED BY <1>4, <1>5, <1>9, <2>3, <3>1, <4>1 DEF Results
    <3>3. CASE GetContent
      <4>1. \/ Raises \/ (Fits(k, n) /\ Got(k, Content(k, n)))
            \/ UNCHANGED <<Results, stage, got, names>>
        BY <3>1, <3>3 DEF GetContent, k, Progress
      <4>2. n = Length(k) /\ n \in Nat
        <5>1. op = "content" /\ File = "source"  BY <2>3, <3>3 DEF GetContent, File
        <5> QED BY <1>2, <5>1 DEF ReadsWhole, Attributes, k
      <4>3. Content(k, n) = Value(k)
        <5> HIDE DEF n
        <5>1. Length(k) <= n  BY <4>2
        <5> QED BY <1>2, <3>1, <4>2, <5>1, ReadIsValue
      <4> HIDE DEF n
      <4> QED BY <1>4, <1>5, <1>9, <2>3, <3>1, <4>1, <4>3 DEF Results
    <3> QED BY <1>11, <3>2, <3>3
  <2> QED BY <2>2, <2>3
<1>12. CASE Record
  <2>1. /\ stage = "source" /\ AllRead /\ agreed' = [list |-> got, size |-> Total(listed)]
        /\ stage' = "load" /\ got' = {}
    BY <1>12 DEF Record
  <2>2. File = "source"  BY <2>1 DEF File
  <2>3. got = All /\ listed = Lens(All)  BY <1>2, <2>1, <2>2, ReadAllOf DEF All
  <2>4. PICK cached \in SUBSET Hashed :
          /\ names' = {x[1] : x \in Hashed \ cached} /\ loaded' = cached \cup (got \ Hashed)
    BY <1>12 DEF Record
  <2>5. Hashed \subseteq got  BY DEF Hashed
  <2> DEFINE Rest == Hashed \ cached
  <2>6. PairsOf("source", names') = Rest
    <3>1. \A x \in Rest : x = <<x[1], attrs["source"][x[1]]>>
      BY <2>3, <2>5, PairsOfIs DEF All
    <3>2. names' = {x[1] : x \in Rest}  BY <2>4
    <3> HIDE DEF Rest
    <3>3. ASSUME NEW y \in PairsOf("source", names') PROVE y \in Rest
      <4>1. PICK k \in names' : y = <<k, attrs["source"][k]>>  BY DEF PairsOf
      <4>2. PICK x \in Rest : x[1] = k  BY <3>2, <4>1
      <4> QED BY <3>1, <4>1, <4>2
    <3>4. ASSUME NEW x \in Rest PROVE x \in PairsOf("source", names')
      <4>1. x[1] \in names'  BY <3>2
      <4>2. <<x[1], attrs["source"][x[1]]>> \in PairsOf("source", names')  BY <4>1 DEF PairsOf
      <4> QED BY <3>1, <4>2
    <3> QED BY <3>3, <3>4
  <2>7. loaded' \cup got' \cup PairsOf("source", names') = got
    BY <2>1, <2>4, <2>5, <2>6
  <2> QED BY <2>1, <2>3, <2>7
<1>13. CASE Load
  <2>1. CASE Raises  BY <1>5, <2>1
  <2>2. CASE ~Raises
    <3>1. /\ stage = "load" /\ names = {} /\ stage' = "before" /\ loaded' = loaded \cup got
          /\ agreed' = agreed
      BY <1>13, <2>2 DEF Load, AllRead
    <3>2. PairsOf("source", names) = {}  BY <3>1 DEF PairsOf
    <3> QED BY <1>4, <3>1, <3>2
  <2> QED BY <2>1, <2>2
<1>14. CASE ReadTarget
  <2>1. stage = "before" /\ stage' = "set" /\ agreed' = agreed  BY <1>14 DEF ReadTarget
  <2> QED BY <1>4, <2>1
<1>15. CASE SetOne
  <2>1. stage = "set" /\ stage' \in {"set", "failed"} /\ agreed' = agreed
    BY <1>15 DEF SetOne, Raises, Results
  <2> QED BY <1>4, <2>1
<1>16. CASE AllSet \/ RemoveOne
  <2>1. stage = "set"  BY <1>16 DEF AllSet, RemoveOne, XattrTypes, Ended, Reading
  <2>2. Raises \/ UNCHANGED <<Results, stage>>  BY <1>16 DEF AllSet, RemoveOne
  <2> QED BY <1>5, <1>6, <2>1, <2>2
<1>17. CASE StartCheck
  <2>1. stage = "set"  BY <1>17 DEF StartCheck, XattrTypes, Ended, Reading
  <2> QED BY <1>4, <1>17, <2>1 DEF StartCheck, Results
<1>18. CASE Check
  BY <1>4, <1>18 DEF Check, Results
<1>19. CASE Touch
  <2>1. UNCHANGED <<stage, Progress, Results>>  BY <1>19 DEF Touch
  <2>2. CASE stage # "load"  BY <1>6, <2>1, <2>2
  <2>3. CASE stage = "load"
    <3>1. UNCHANGED <<stage, names, got, agreed, loaded>>  BY <2>1 DEF Progress, Results
    <3> QED BY <1>4, <2>3, <3>1
  <2> QED BY <2>2, <2>3
<1> HIDE DEF After
<1> QED
  BY <1>7, <1>8, <1>11, <1>12, <1>13, <1>14, <1>15, <1>16, <1>17, <1>18, <1>19 DEF XattrStep

(* Two attributes have different names, and one is written at a time.      *)
LEMMA NamesDiffer ==
  ASSUME odd = {}, NEW j \in SyncedNames, NEW k \in SyncedNames, ValOfAttrname(j) = ValOfAttrname(k)
  PROVE  j = k
  BY OtherName DEF Called

LEMMA TargetHas ==
  ASSUME AttrTypes, UNCHANGED System, NEW k \in SyncedNames, NEW v \in {Gone} \cup Beginnings,
         SetTarget(k, v)
  PROVE  /\ v # Gone => Has("target")' = Has("target") \cup {k}
         /\ v = Gone => Has("target")' = Has("target") \ {k}
         /\ attrs'["target"][k] = v
         /\ \A j \in SyncedNames : j # k => attrs'["target"][j] = attrs["target"][j]
<1>1. SyncedNames' = SyncedNames /\ k \in Kernel /\ ~IsSystem(k)
  BY Vocabulary DEF SyncedNames, Synced
<1>2. attrs' = [attrs EXCEPT !["target"][k] = v]  BY <1>1 DEF SetTarget
<1>3. /\ attrs'["target"][k] = v
      /\ \A j \in SyncedNames : j # k => attrs'["target"][j] = attrs["target"][j]
  BY <1>1, <1>2 DEF AttrTypes, Files, SyncedNames
<1> QED BY <1>1, <1>3 DEF Has, Gone

LEMMA KeptAll ==
  ASSUME NEW A, A \subseteq Pairs
  PROVE  Kept(A) = A
  BY DEF Kept, Pairs, SyncedNames, Synced

(* What the next one to be written, and the next one to be removed are.    *)
LEMMA NextToWrite ==
  ASSUME XattrTypes, Attributes, odd = {}, SetOne
  PROVE  LET x == First(ToWrite) IN
         /\ x \in loaded /\ x \in agreed.list /\ Called(x[1]) = x[1] /\ x[1] \in SyncedNames
         /\ x[2] \in Beginnings /\ x[2] # Gone /\ x = <<x[1], x[2]>>
<1> DEFINE x == First(ToWrite)
<1>1. x \in ToWrite /\ stage = "set"  BY FirstIs DEF SetOne
<1> HIDE DEF x
<1>2. x \in loaded /\ x \in agreed.list /\ x \in Pairs  BY <1>1 DEF ToWrite, Kept, Attributes
<1>3. x[1] \in SyncedNames /\ x[2] \in Beginnings /\ x = <<x[1], x[2]>>  BY <1>2 DEF Pairs
<1>4. Called(x[1]) = x[1] /\ x[2] # Gone  BY <1>3, OtherName, ValuesBegin
<1> QED BY <1>2, <1>3, <1>4 DEF x

LEMMA NextToRemove ==
  ASSUME Attributes, odd = {}, RemoveOne
  PROVE  LET k == First(names) IN k \in names /\ Called(k) = k /\ k \in SyncedNames
<1>1. First(names) \in names /\ op = "remove"  BY FirstIs DEF RemoveOne
<1>2. First(names) \in SyncedNames  BY <1>1 DEF Attributes
<1> QED BY <1>1, <1>2, OtherName

LEMMA NextRemoval ==
  ASSUME XattrTypes, Attributes, ReadsWhole, ReadsAll, Removal, XattrStep \/ Touch
  PROVE  Removal'
<1>1. UNCHANGED System /\ AttrTypes  BY SameSystem DEF XattrTypes, AttrTypes
<1>2. op' = "remove" => names' \cap NamesOf(agreed'.list) = {}
  <2> SUFFICES ASSUME op' = "remove" PROVE names' \cap NamesOf(agreed'.list) = {}
    OBVIOUS
  <2>1. CASE AllSet
    <3>1. names' = {x[1] : x \in {y \in present : \A z \in Kept(agreed.list) : ~SameName(y, z)}}
          /\ agreed' = agreed
      BY <2>1 DEF AllSet, Results
    <3>2. Kept(agreed.list) = agreed.list  BY KeptAll DEF Attributes
    <3>3. \A y, z : y[1] = z[1] => SameName(y, z)  BY DEF SameName
    <3> QED BY <3>1, <3>2, <3>3 DEF NamesOf
  <2>2. CASE op = "remove" /\ names' \subseteq names /\ agreed' = agreed
    BY <2>2 DEF Removal
  <2>3. RemoveOne => op = "remove" /\ (Raises \/ (names' \subseteq names /\ agreed' = agreed))
    BY DEF RemoveOne, Results
  <2>4. Touch => UNCHANGED <<op, names, agreed>>  BY DEF Touch, Progress, Results
  <2>5. ~Raises  BY DEF Raises
  <2>6. AllSet \/ RemoveOne \/ Touch
    <3>1. ~NoAttributes  BY DEF NoAttributes
    <3>2. ~ListSize /\ ~ListNames /\ ~ListLength /\ ~Listed
      BY <2>5 DEF ListSize, ListNames, ListIs, ListLength, Listed
    <3>3. ~GetLength /\ ~GetContent  BY <2>5 DEF GetLength, GetContent, Got
    <3>4. ~Record /\ ~Load /\ ~ReadTarget  BY <2>5 DEF Record, Load, ReadTarget, AllRead
    <3>5. ~SetOne /\ ~StartCheck /\ ~Check  BY <2>5 DEF SetOne, StartCheck, Check
    <3> QED BY <3>1, <3>2, <3>3, <3>4, <3>5 DEF XattrStep
  <2> QED BY <2>1, <2>2, <2>3, <2>4, <2>5, <2>6
<1> DEFINE After(u) ==
             /\ stage' = "set" /\ op' = "set" => u \subseteq NamesOf(present')
             /\ op' = "remove" => u \subseteq names'
             /\ stage' = "check" /\ supports["target"] => u = {}
<1>3. SUFFICES ASSUME Undisturbed("target")', faults' = 0
               PROVE  After(Unwanted')
  <2> HIDE DEF After
  <2>1. SUFFICES ASSUME Undisturbed("target")', faults' = 0
                 PROVE  /\ stage' = "set" /\ op' = "set" => Unwanted' \subseteq NamesOf(present')
                        /\ op' = "remove" => Unwanted' \subseteq names'
                        /\ stage' = "check" /\ supports'["target"] => Unwanted' = {}
    BY <1>2 DEF Removal, NamesOf
  <2>2. supports' = supports  BY <1>1 DEF System
  <2> QED BY <1>3, <2>1, <2>2 DEF After
<1>4. /\ Undisturbed("target") /\ faults = 0 /\ odd = {}
      /\ SetOne \/ RemoveOne \/ attrs'["target"] = attrs["target"]
  BY <1>3, StaysUndisturbed DEF Undisturbed
<1>5. ~Fault  BY <1>3, <1>4 DEF Fault
<1>6. /\ stage = "set" /\ op = "set" => Unwanted \subseteq NamesOf(present)
      /\ op = "remove" => Unwanted \subseteq names
      /\ stage = "check" /\ supports["target"] => Unwanted = {}
  BY <1>4 DEF Removal
<1>7. attrs'["target"] = attrs["target"] /\ agreed' = agreed => Unwanted' = Unwanted
  BY <1>1, SameAttrs DEF Unwanted, NamesOf
<1>8. Unwanted' = Has("target")' \ NamesOf(agreed'.list)  BY DEF Unwanted, NamesOf
<1> HIDE DEF Unwanted
<1>9. CASE stage' \notin {"set", "check"} /\ op' # "remove"  BY <1>9
<1>10. CASE Raises  BY <1>10 DEF Raises
<1>11. CASE NoAttributes
  <2>1. stage' = "check" => stage = "before"  BY <1>11 DEF NoAttributes, XattrTypes
  <2>2. ~supports[File] /\ op' # "remove" /\ (stage' = "set" => FALSE)
    BY <1>11 DEF NoAttributes, XattrTypes
  <2>3. stage = "before" => File = "target"  BY DEF File
  <2> QED BY <2>1, <2>2, <2>3
<1>12. CASE stage' = stage /\ agreed' = agreed /\ op \in Reading /\ op' \in Reading
            /\ attrs'["target"] = attrs["target"]
  <2>1. stage # "set"  BY <1>12 DEF XattrTypes, Reading
  <2> QED BY <1>6, <1>7, <1>12, <2>1 DEF Reading
<1>13. CASE ListSize \/ ListNames \/ ListLength \/ Listed \/ GetLength \/ GetContent
  <2>1. Raises \/ (stage' = stage /\ agreed' = agreed /\ op \in Reading /\ op' \in Reading)
    BY <1>13 DEF ListSize, ListNames, ListIs, ListLength, Listed, GetLength, GetContent, Got, Results, Reading
  <2>2. ~SetOne /\ ~RemoveOne
    BY <1>13 DEF ListSize, ListNames, ListLength, Listed, GetLength, GetContent, SetOne, RemoveOne
  <2> QED BY <1>4, <1>10, <1>12, <2>1, <2>2
<1>14. CASE Record \/ Load \/ Check
  <2>1. stage' \notin {"set", "check"} /\ op' # "remove"
    BY <1>14 DEF Record, Load, Check, AllRead, Raises
  <2> QED BY <1>9, <2>1
<1>15. CASE ReadTarget
  <2>1. stage = "before" /\ AllRead /\ present' = got /\ UNCHANGED <<attrs, agreed>> /\ stage' = "set"
        /\ op' = "set"
    BY <1>15 DEF ReadTarget, Files2
  <2>2. File = "target"  BY <2>1 DEF File
  <2>3. got = PairsOf("target", Has("target"))  BY <1>4, <2>1, <2>2, ReadAllOf
  <2>4. Has("target") \subseteq NamesOf(present')
    <3> SUFFICES ASSUME NEW k \in Has("target") PROVE k \in NamesOf(present')
      OBVIOUS
    <3> DEFINE x == <<k, attrs["target"][k]>>
    <3>1. x \in present' /\ x[1] = k  BY <2>1, <2>3 DEF PairsOf
    <3> HIDE DEF x
    <3> QED BY <3>1 DEF NamesOf
  <2>5. Unwanted' \subseteq Has("target")  BY <1>7, <2>1 DEF Unwanted
  <2> QED BY <2>1, <2>4, <2>5
<1>16. CASE SetOne
  <2> DEFINE x == First(ToWrite)
  <2>1. /\ x \in agreed.list /\ Called(x[1]) = x[1] /\ x[1] \in SyncedNames
        /\ x[2] \in Beginnings /\ x[2] # Gone
    BY <1>4, <1>16, NextToWrite
  <2>2. Raises \/ (SetTarget(x[1], x[2]) /\ UNCHANGED <<stage, op, agreed, present>>)
    BY <1>5, <1>16, <2>1 DEF SetOne
  <2> HIDE DEF x
  <2>3. CASE SetTarget(x[1], x[2]) /\ UNCHANGED <<stage, op, agreed, present>>
    <3>1. Has("target")' = Has("target") \cup {x[1]}  BY <1>1, <2>1, <2>3, TargetHas
    <3>2. x[1] \in NamesOf(agreed.list)  BY <2>1 DEF NamesOf
    <3>3. Unwanted' \subseteq Unwanted  BY <1>8, <2>3, <3>1, <3>2 DEF Unwanted
    <3>4. stage = "set" /\ op = "set"  BY <1>16 DEF SetOne
    <3> QED BY <1>6, <2>3, <3>3, <3>4
  <2> QED BY <1>10, <2>2, <2>3
<1>17. CASE AllSet
  <2>1. /\ stage = "set" /\ op = "set" /\ op' = "remove" /\ stage' = stage /\ UNCHANGED <<attrs, agreed>>
        /\ names' = {x[1] : x \in {y \in present : \A z \in Kept(agreed.list) : ~SameName(y, z)}}
    BY <1>17 DEF AllSet, Results, Files2
  <2>2. Unwanted' = Unwanted /\ Kept(agreed.list) = agreed.list  BY <1>7, <2>1, KeptAll DEF Attributes
  <2>3. ASSUME NEW k \in Unwanted PROVE k \in names'
    <3>1. PICK y \in present : y[1] = k  BY <1>6, <2>1 DEF NamesOf
    <3>2. k \in SyncedNames /\ k \notin NamesOf(agreed.list)  BY DEF Unwanted, Has
    <3>3. ASSUME NEW z \in agreed.list PROVE ~SameName(y, z)
      <4>1. z[1] \in SyncedNames /\ z[1] # k  BY <3>2 DEF Attributes, Pairs, NamesOf
      <4> QED BY <1>4, <3>1, <3>2, <4>1, NamesDiffer DEF SameName
    <3> QED BY <2>1, <2>2, <3>1, <3>3
  <2> QED BY <2>1, <2>2, <2>3
<1>18. CASE RemoveOne
  <2> DEFINE k == First(names)
  <2>1. k \in names /\ Called(k) = k /\ k \in SyncedNames  BY <1>4, <1>18, NextToRemove
  <2>2. op = "remove" /\ (Raises \/ (SetTarget(k, Gone) /\ names' = names \ {k} /\ UNCHANGED <<Results, stage, op>>))
    BY <1>5, <1>18, <2>1 DEF RemoveOne
  <2> HIDE DEF k
  <2>3. CASE SetTarget(k, Gone) /\ names' = names \ {k} /\ UNCHANGED <<Results, stage, op>>
    <3>1. Has("target")' = Has("target") \ {k}  BY <1>1, <2>1, <2>3, TargetHas
    <3>2. Unwanted' = Unwanted \ {k}  BY <1>8, <2>3, <3>1 DEF Unwanted, Results
    <3>3. stage # "check"  BY <2>2 DEF XattrTypes, Reading
    <3> QED BY <1>6, <2>2, <2>3, <3>2, <3>3
  <2> QED BY <1>10, <2>2, <2>3
<1>19. CASE StartCheck
  <2>1. op = "remove" /\ names = {} /\ op' = "list" /\ UNCHANGED <<attrs, agreed>> /\ stage' = "check"
    BY <1>19 DEF StartCheck, Files2, Results
  <2> QED BY <1>6, <1>7, <2>1
<1>20. CASE Touch
  <2>1. UNCHANGED <<stage, op, names, agreed, present>>  BY <1>20 DEF Touch, Progress, Results
  <2>2. attrs'["target"] = attrs["target"]
    <3>1. touches' = [touches EXCEPT ![File] = @ + 1] /\ File \in Files
          /\ \E k, v : attrs' = [attrs EXCEPT ![File][k] = v]
      BY <1>20 DEF Touch, File, Files
    <3>2. File # "target"
      <4>1. touches'[File] # 0  BY <3>1 DEF XattrTypes
      <4> QED BY <1>3, <4>1 DEF Undisturbed
    <3> QED BY <3>1, <3>2 DEF XattrTypes, Files
  <2> QED BY <1>4, <1>6, <1>7, <2>1, <2>2
<1> HIDE DEF After
<1> QED
  BY <1>11, <1>13, <1>14, <1>15, <1>16, <1>17, <1>18, <1>19, <1>20 DEF XattrStep

(* Without interference no call finds an error.                            *)
LEMMA NothingRaised ==
  ASSUME XattrTypes, Attributes, ReadsWhole, Agreement, Clean, ~Fault,
         ListSize \/ ListNames \/ ListLength \/ Listed \/ GetLength \/ GetContent \/ Load
  PROVE  ~Raises
<1>1. Undisturbed(File) /\ odd = {} /\ faults = 0 /\ Undisturbed("source")
  BY DEF Clean, Undisturbed, File
<1>2. stage # "failed"
  <2>1. op # "none"  BY DEF ListSize, ListNames, ListLength, Listed, GetLength, GetContent, Load, AllRead
  <2> QED BY <2>1 DEF XattrTypes, Ended
<1> SUFFICES ASSUME Raises PROVE FALSE
  OBVIOUS
<1>3. stage' = "failed" /\ op' = "none"  BY DEF Raises
<1>4. CASE ListSize \/ Listed  BY <1>2, <1>3, <1>4 DEF ListSize, Listed
<1>5. CASE ListNames
  <2>1. \E S : ListIs(S)  BY <1>1, <1>5, ListNamesIs
  <2> QED BY <1>3, <2>1 DEF ListIs
<1>6. CASE ListLength
  <2>1. op = "lengths"  BY <1>6 DEF ListLength
  <2>2. names \subseteq Present  BY <1>1, <2>1 DEF ReadsWhole
  <2>3. \A k \in names : Value(k) # Gone  BY <2>2 DEF Present
  <2> QED BY <1>2, <1>3, <1>6, <2>3 DEF ListLength
<1>7. ASSUME op \in {"length", "content"}, names # {}
      PROVE  LET k == First(names) IN Called(k) = k /\ k \in names /\ Value(k) # Gone /\ k \in Kernel
  <2>1. First(names) \in names  BY <1>7, FirstIs
  <2>2. First(names) \in Has(File)  BY <1>1, <1>7, <2>1 DEF ReadsWhole
  <2>3. First(names) \in SyncedNames /\ attrs[File][First(names)] # Gone  BY <2>2 DEF Has
  <2>4. First(names) \in Kernel  BY <2>3 DEF SyncedNames
  <2>5. Called(First(names)) = First(names)  BY <1>1, <2>3, OtherName DEF XattrTypes
  <2> QED BY <2>1, <2>3, <2>4, <2>5 DEF Value
<1>8. CASE GetLength
  <2>1. op = "length" /\ names # {} /\ try.tries = 0 /\ MaxTries # 0
    BY <1>1, <1>8, XattrConstants DEF GetLength, ReadsWhole
  <2> DEFINE k == First(names)
  <2>2. Called(k) = k /\ Value(k) # Gone  BY <1>7, <2>1
  <2> HIDE DEF k
  <2>3. \/ Got(k, <<>>)
        \/ op' = "content"
    BY <1>8, <2>1, <2>2 DEF GetLength, k
  <2> QED BY <1>2, <1>3, <2>3 DEF Got
<1>9. CASE GetContent
  <2>1. op = "content" /\ names # {}  BY <1>9 DEF GetContent, Attributes
  <2> DEFINE k == First(names)
  <2>2. Called(k) = k /\ Value(k) # Gone /\ k \in Kernel  BY <1>7, <2>1
  <2>3. try.len = Length(k) /\ Length(k) \in Nat
    BY <1>1, <2>1 DEF ReadsWhole, Attributes
  <2>4. Fits(k, try.len)  BY <2>3 DEF Fits
  <2> HIDE DEF k
  <2>5. Got(k, Content(k, try.len))  BY <1>9, <2>2, <2>4 DEF GetContent, k
  <2> QED BY <1>2, <1>3, <2>5 DEF Got
<1>10. CASE Load
  <2>1. stage = "load"  BY <1>10 DEF Load
  <2>2. got \subseteq agreed.list  BY <1>1, <2>1 DEF Agreement
  <2> QED BY <1>3, <1>10, <2>2 DEF Load
<1> QED BY <1>4, <1>5, <1>6, <1>8, <1>9, <1>10

LEMMA NextWork ==
  ASSUME XattrTypes, Attributes, ReadsWhole, ReadsAll, Agreement, Removal, Work, XattrStep \/ Touch
  PROVE  Work'
<1>1. UNCHANGED System /\ AttrTypes  BY SameSystem DEF XattrTypes, AttrTypes
<1> DEFINE After(d) ==
             /\ stage' = "set" /\ op' = "set" =>
                  \A x \in agreed'.list : x \in present' \/ x \notin loaded' => x \in d
             /\ op' = "remove" \/ stage' = "check" => agreed'.list \subseteq d
             /\ stage' # "failed"
<1>2. SUFFICES ASSUME Undisturbed("source")', Undisturbed("target")', faults' = 0, supports["target"]
               PROVE  After(Done')
  <2>1. supports' = supports  BY <1>1 DEF System
  <2>2. Clean' => After(Done')  BY <1>2, <2>1 DEF Clean
  <2> HIDE DEF After
  <2>3. SUFFICES ASSUME Clean'
                 PROVE  /\ stage' = "set" /\ op' = "set" =>
                             \A x \in agreed'.list : x \in present' \/ x \notin loaded' => x \in Done'
                        /\ op' = "remove" \/ stage' = "check" => agreed'.list \subseteq Done'
                        /\ stage' # "failed"
    BY DEF Work
  <2> QED BY <2>2, <2>3 DEF After
<1>3. /\ Undisturbed("source") /\ Undisturbed("target") /\ faults = 0 /\ odd = {} /\ Clean
      /\ SetOne \/ RemoveOne \/ attrs'["target"] = attrs["target"]
  BY <1>2, StaysUndisturbed DEF Undisturbed, Clean
<1>4. ~Fault  BY <1>2, <1>3 DEF Fault
<1>5. /\ stage = "set" /\ op = "set" => \A x \in agreed.list : x \in present \/ x \notin loaded => x \in Done
      /\ op = "remove" \/ stage = "check" => agreed.list \subseteq Done
      /\ stage # "failed"
  BY <1>3 DEF Work
<1>6. attrs'["target"] = attrs["target"] => Done' = Done
  BY <1>1, SameAttrs DEF Done
<1>7. /\ Done = PairsOf("target", Has("target"))
      /\ \A k, v : <<k, v>> \in Done <=> k \in Has("target") /\ v = attrs["target"][k]
  BY DEF Done, PairsOf
<1>8. \A k, v : <<k, v>> \in Done' <=> k \in Has("target")' /\ v = attrs'["target"][k]
  BY DEF Done, PairsOf
<1> HIDE DEF Done
<1>9. ~Touch
  <2> SUFFICES ASSUME Touch PROVE FALSE
    OBVIOUS
  <2>1. touches' = [touches EXCEPT ![File] = @ + 1] /\ File \in {"source", "target"}
    BY DEF Touch, File
  <2>2. touches'[File] # 0  BY <2>1 DEF XattrTypes, Files
  <2>3. touches'["source"] = 0 /\ touches'["target"] = 0  BY <1>2 DEF Undisturbed
  <2> QED BY <2>1, <2>2, <2>3
<1>10. stage \in {"load", "before", "set", "check"} =>
         /\ agreed.list = PairsOf("source", Has("source"))
         /\ stage = "before" => loaded = agreed.list
  BY <1>3 DEF Agreement
<1>11. CASE NoAttributes
  <2>1. stage = "source"
    <3>1. op = "list" /\ ~supports[File]  BY <1>11 DEF NoAttributes
    <3>2. stage \in {"source", "before", "check"}  BY <3>1 DEF XattrTypes, Ended
    <3> QED BY <1>2, <3>1, <3>2 DEF File
  <2> QED BY <1>11, <2>1 DEF NoAttributes
<1>12. CASE ListSize \/ ListNames \/ ListLength \/ Listed \/ GetLength \/ GetContent
  <2>1. ~Raises  BY <1>3, <1>4, <1>12, NothingRaised
  <2>2. stage' = stage /\ agreed' = agreed /\ op \in Reading /\ op' \in Reading
    BY <1>12, <2>1
    DEF ListSize, ListNames, ListIs, ListLength, Listed, GetLength, GetContent, Got, Results, Reading
  <2>3. ~SetOne /\ ~RemoveOne  BY <2>2 DEF SetOne, RemoveOne, Reading
  <2>4. stage # "set"  BY <2>2 DEF XattrTypes, Reading
  <2> QED BY <1>3, <1>5, <1>6, <2>2, <2>3, <2>4 DEF Reading
<1>13. CASE Record
  <2>1. stage' = "load" /\ op' = op /\ op = "length"  BY <1>13 DEF Record, AllRead
  <2> QED BY <2>1
<1>14. CASE Load
  <2>1. ~Raises  BY <1>3, <1>4, <1>14, NothingRaised
  <2>2. stage' = "before" /\ op' = "list"  BY <1>14, <2>1 DEF Load
  <2> QED BY <2>2
<1>15. CASE ReadTarget
  <2>1. /\ stage = "before" /\ AllRead /\ present' = got /\ UNCHANGED <<attrs, agreed, loaded>>
        /\ stage' = "set" /\ op' = "set"
    BY <1>15 DEF ReadTarget, Files2
  <2>2. File = "target"  BY <2>1 DEF File
  <2>3. got = Done  BY <1>3, <1>7, <2>1, <2>2, ReadAllOf
  <2>4. loaded' = agreed'.list /\ Done' = Done /\ present' = Done  BY <1>6, <1>10, <2>1, <2>3
  <2> QED BY <2>1, <2>4
<1>16. CASE SetOne
  <2> DEFINE x == First(ToWrite)
  <2>1. /\ x \in loaded /\ x \in agreed.list /\ Called(x[1]) = x[1] /\ x[1] \in SyncedNames
        /\ x[2] \in Beginnings /\ x[2] # Gone /\ x = <<x[1], x[2]>>
    BY <1>3, <1>16, NextToWrite
  <2>2. stage = "set" /\ op = "set"  BY <1>16 DEF SetOne
  <2>3. SetTarget(x[1], x[2]) /\ loaded' = loaded \ {x} /\ UNCHANGED <<stage, op, agreed, present>>
    BY <1>4, <1>16, <2>1 DEF SetOne
  <2> HIDE DEF x
  <2>4. /\ Has("target")' = Has("target") \cup {x[1]} /\ attrs'["target"][x[1]] = x[2]
        /\ \A j \in SyncedNames : j # x[1] => attrs'["target"][j] = attrs["target"][j]
    BY <1>1, <2>1, <2>3, TargetHas
  <2>5. ASSUME NEW y \in agreed.list, y \in present \/ y \notin loaded'
        PROVE  y \in Done'
    <3>1. agreed.list = PairsOf("source", Has("source"))  BY <1>10, <2>2
    <3>2. /\ y = <<y[1], y[2]>> /\ y[2] = attrs["source"][y[1]] /\ x[2] = attrs["source"][x[1]]
          /\ y[1] \in Has("source")
      BY <2>1, <3>1, PairsOfIs
    <3>3. CASE y[1] = x[1]  BY <1>8, <2>4, <3>2, <3>3
    <3>4. CASE y[1] # x[1]
      <4>1. y # x /\ y[1] \in SyncedNames  BY <3>2, <3>4 DEF Has
      <4>2. y \in Done  BY <1>5, <2>2, <2>3, <2>5, <4>1
      <4>3. y[1] \in Has("target") /\ y[2] = attrs["target"][y[1]]  BY <1>7, <3>2, <4>2
      <4> QED BY <1>8, <2>4, <3>2, <3>4, <4>1, <4>3
    <3> QED BY <3>3, <3>4
  <2> QED BY <2>2, <2>3, <2>5
<1>17. CASE AllSet
  <2>1. /\ stage = "set" /\ op = "set" /\ op' = "remove" /\ stage' = stage /\ UNCHANGED <<attrs, agreed>>
        /\ ToWrite = {}
    BY <1>17 DEF AllSet, Results, Files2
  <2>2. ASSUME NEW x \in loaded PROVE x \in present
    <3>1. Kept(loaded) = loaded /\ x \in Pairs  BY KeptAll DEF Attributes
    <3>2. PICK y \in present : SameName(x, y) /\ x[2] = y[2]  BY <2>1, <3>1 DEF ToWrite, Member
    <3>3. y \in Pairs  BY DEF Attributes
    <3>4. x = <<x[1], x[2]>> /\ y = <<y[1], y[2]>> /\ x[1] \in SyncedNames /\ y[1] \in SyncedNames
      BY <3>1, <3>3 DEF Pairs
    <3>5. x[1] = y[1]  BY <1>3, <3>2, <3>4, NamesDiffer DEF SameName
    <3> QED BY <3>2, <3>4, <3>5
  <2>3. agreed.list \subseteq Done  BY <1>5, <2>1, <2>2
  <2> QED BY <1>6, <2>1, <2>3
<1>18. CASE RemoveOne
  <2> DEFINE k == First(names)
  <2>1. k \in names /\ Called(k) = k /\ k \in SyncedNames  BY <1>3, <1>18, NextToRemove
  <2>2. op = "remove" /\ SetTarget(k, Gone) /\ UNCHANGED <<Results, stage, op>>
    BY <1>4, <1>18, <2>1 DEF RemoveOne
  <2> HIDE DEF k
  <2>3. /\ Has("target")' = Has("target") \ {k}
        /\ \A j \in SyncedNames : j # k => attrs'["target"][j] = attrs["target"][j]
    BY <1>1, <2>1, <2>2, TargetHas
  <2>4. k \notin NamesOf(agreed.list)  BY <2>1, <2>2 DEF Removal
  <2>5. stage = "set"  BY <2>2 DEF XattrTypes, Reading, Ended
  <2>6. ASSUME NEW y \in agreed.list PROVE y \in Done'
    <3>1. agreed.list = PairsOf("source", Has("source"))  BY <1>10, <2>5
    <3>2. y = <<y[1], y[2]>> /\ y[1] \in Has("source")  BY <3>1, PairsOfIs
    <3>3. y[1] # k /\ y[1] \in SyncedNames  BY <2>4, <3>2 DEF NamesOf, Has
    <3>4. y \in Done  BY <1>5, <2>2
    <3>5. y[1] \in Has("target") /\ y[2] = attrs["target"][y[1]]  BY <1>7, <3>2, <3>4
    <3> QED BY <1>8, <2>3, <3>2, <3>3, <3>5
  <2> QED BY <2>2, <2>5, <2>6 DEF Results
<1>19. CASE StartCheck
  <2>1. op = "remove" /\ op' = "list" /\ UNCHANGED <<attrs, agreed>> /\ stage' = "check"
    BY <1>19 DEF StartCheck, Files2, Results
  <2> QED BY <1>5, <1>6, <2>1
<1>20. CASE Check
  <2>1. stage = "check" /\ AllRead /\ stage' = (IF Similar THEN "ok" ELSE "failed") /\ op' = "none"
    BY <1>20 DEF Check
  <2>2. File = "target"  BY <2>1 DEF File
  <2>3. got = Done /\ listed = Lens(Done)  BY <1>3, <1>7, <2>1, <2>2, ReadAllOf
  <2>4. agreed.list \subseteq Done /\ Has("target") \subseteq NamesOf(agreed.list)
    BY <1>2, <1>3, <1>5, <2>1 DEF Removal, Unwanted
  <2>5. ASSUME NEW y \in Done PROVE y \in agreed.list
    <3>1. y = <<y[1], y[2]>> /\ y[1] \in Has("target") /\ y[2] = attrs["target"][y[1]]
      BY <1>7, PairsOfIs
    <3>2. PICK x \in agreed.list : x[1] = y[1]  BY <2>4, <3>1 DEF NamesOf
    <3>3. x \in Done  BY <2>4
    <3>4. x = <<x[1], x[2]>> /\ x[2] = attrs["target"][x[1]]  BY <1>7, <3>3, PairsOfIs
    <3> QED BY <3>1, <3>2, <3>4
  <2>6. agreed.list = Done  BY <2>4, <2>5
  <2>7. agreed.size = Total(Lens(agreed.list))  BY <1>3, <2>1 DEF Agreement
  <2>8. \A x \in agreed.list : Member(x, got)  BY <2>3, <2>6 DEF Member, SameName
  <2>9. Similar  BY <2>3, <2>6, <2>7, <2>8 DEF Similar
  <2> QED BY <2>1, <2>9
<1> HIDE DEF After
<1> QED
  BY <1>9, <1>11, <1>12, <1>13, <1>14, <1>15, <1>16, <1>17, <1>18, <1>19, <1>20 DEF XattrStep

LEMMA SyncedIs ==
  ASSUME AttrTypes, NEW f \in Files
  PROVE  SyncedAttrs(f) = PairsOf(f, Has(f))
<1>1. DOMAIN attrs[f] = Kernel  BY DEF AttrTypes
<1> QED BY <1>1 DEF SyncedAttrs, PairsOf, Has, SyncedNames

(* What was agreed on has been read of the target, if it is similar.       *)
LEMMA SimilarIs ==
  ASSUME Attributes, odd = {}, got \subseteq Pairs, Similar
  PROVE  agreed.list = got
<1>1. ASSUME NEW x \in agreed.list PROVE x \in got
  <2>1. PICK y \in got : SameName(x, y) /\ x[2] = y[2]  BY DEF Similar, Member
  <2>2. x \in Pairs  BY DEF Attributes
  <2>3. x = <<x[1], x[2]>> /\ y = <<y[1], y[2]>> /\ x[1] \in SyncedNames /\ y[1] \in SyncedNames
    BY <2>2 DEF Pairs
  <2>4. x[1] = y[1]  BY <2>1, <2>3, NamesDiffer DEF SameName
  <2> QED BY <2>1, <2>3, <2>4
<1> QED BY <1>1, FS_Subset DEF Similar, Attributes

LEMMA NextApplied ==
  ASSUME XattrTypes, Attributes, ReadsWhole, ReadsAll, Agreement, XattrStep \/ Touch
  PROVE  AttrsApplied'
<1>1. UNCHANGED System /\ AttrTypes  BY SameSystem DEF XattrTypes, AttrTypes
<1> SUFFICES ASSUME stage' = "ok", agreed' # None, odd' = {}
             PROVE  /\ touches'["target"] = 0 => agreed'.list \subseteq SyncedAttrs("target")'
                    /\ touches'["target"] = 0 /\ faults' < 2 => SyncedAttrs("target")' = agreed'.list
                    /\ touches'["source"] = 0 /\ faults' = 0 => SyncedAttrs("source")' = agreed'.list
  BY DEF AttrsApplied, None
<1>2. stage # "ok"
  <2>1. Touch => stage # "ok"  BY DEF Touch
  <2>2. XattrStep => op # "none"
    BY DEF XattrStep, NoAttributes, ListSize, ListNames, ListLength, Listed, GetLength,
           GetContent, Record, Load, ReadTarget, SetOne, AllSet, RemoveOne, StartCheck, Check, AllRead
  <2> QED BY <2>1, <2>2 DEF XattrTypes, Ended
<1>3. stage' # stage /\ stage' # "failed"  BY <1>2
<1>4. Check
  <2>1. ~NoAttributes  BY <1>3 DEF NoAttributes, XattrTypes, None
  <2>2. ~Raises  BY <1>3 DEF Raises
  <2>3. ~ListSize /\ ~ListNames /\ ~ListLength /\ ~Listed
    BY <1>3, <2>2 DEF ListSize, ListNames, ListIs, ListLength, Listed
  <2>4. ~GetLength /\ ~GetContent  BY <1>3, <2>2 DEF GetLength, GetContent, Got
  <2>5. ~Record /\ ~Load /\ ~ReadTarget  BY <1>3, <2>2 DEF Record, Load, ReadTarget
  <2>6. ~SetOne /\ ~AllSet /\ ~RemoveOne  BY <1>3, <2>2 DEF SetOne, AllSet, RemoveOne, Results
  <2>7. ~StartCheck /\ ~Touch  BY <1>3 DEF StartCheck, Touch
  <2> QED BY <2>1, <2>3, <2>4, <2>5, <2>6, <2>7 DEF XattrStep
<1>5. stage = "check" /\ AllRead /\ Similar /\ UNCHANGED <<Files2, Results, faults>>
  BY <1>3, <1>4 DEF Check
<1>6. /\ File = "target" /\ op = "length" /\ names = {} /\ odd = {}
      /\ UNCHANGED <<attrs, touches, agreed, faults>>
  BY <1>1, <1>5 DEF File, AllRead, Files2, Results, System
<1>7. \A f \in Files : SyncedAttrs(f)' = PairsOf(f, Has(f)) /\ SyncedAttrs(f) = PairsOf(f, Has(f))
  <2> SUFFICES ASSUME NEW f \in Files
               PROVE  SyncedAttrs(f)' = PairsOf(f, Has(f)) /\ SyncedAttrs(f) = PairsOf(f, Has(f))
    OBVIOUS
  <2>1. SyncedAttrs(f) = PairsOf(f, Has(f))  BY <1>1, SyncedIs
  <2>2. \A k : Synced(k)' <=> Synced(k)  BY <1>1, Vocabulary
  <2>3. SyncedAttrs(f)' = SyncedAttrs(f)  BY <1>6, <2>2 DEF SyncedAttrs
  <2> QED BY <2>1, <2>3
<1>8. agreed.list = got  BY <1>5, <1>6, SimilarIs DEF Attributes
<1>9. CASE touches["target"] = 0
  <2>1. Undisturbed(File) /\ stage # "load" /\ op \in {"lengths", "length", "content"}
    BY <1>5, <1>6, <1>9 DEF Undisturbed
  <2>2. got \subseteq PairsOf("target", Has("target"))  BY <1>6, <2>1 DEF ReadsWhole
  <2>3. ASSUME faults < 2, NEW y \in PairsOf("target", Has("target"))
        PROVE  y \in got
    <3>1. y = <<y[1], y[2]>> /\ y[1] \in Has("target") /\ y[2] = attrs["target"][y[1]]
      BY PairsOfIs
    <3>2. y[1] \in NamesOf(got) \/ Failed(y[1])  BY <1>6, <2>1, <3>1 DEF ReadsAll
    <3>3. y[1] \in NamesOf(got)
      <4>1. faults \in Nat  BY DEF XattrTypes
      <4>2. y[1] \notin NamesOf(agreed.list) => ~Failed(y[1])  BY <1>5, <2>3, <4>1 DEF Failed
      <4> QED BY <1>8, <3>2, <4>2
    <3>4. PICK z \in got : z[1] = y[1]  BY <3>3 DEF NamesOf
    <3>5. z = <<z[1], z[2]>> /\ z[2] = attrs["target"][z[1]]  BY <2>2, PairsOfIs
    <3> QED BY <3>1, <3>4, <3>5
  <2>4. faults < 2 => got = PairsOf("target", Has("target"))  BY <2>2, <2>3
  <2>5. touches["source"] = 0 /\ faults = 0 => agreed.list = PairsOf("source", Has("source"))
    BY <1>5, <1>6 DEF Agreement, Undisturbed
  <2> QED BY <1>6, <1>7, <1>8, <2>2, <2>4, <2>5 DEF Files
<1>10. CASE touches["target"] # 0
  <2>1. touches["source"] = 0 /\ faults = 0 => agreed.list = PairsOf("source", Has("source"))
    BY <1>5, <1>6 DEF Agreement, Undisturbed
  <2> QED BY <1>6, <1>7, <1>10, <2>1 DEF Files
<1> QED BY <1>9, <1>10

LEMMA InitXattrWork == Init => XattrWork
<1> SUFFICES ASSUME XattrInit PROVE XattrWork
  BY DEF Init, XattrWork
<1>1. stage = "source" /\ op = "list"  BY DEF XattrInit
<1> QED
  BY <1>1 DEF XattrWork, ReadsWhole, ReadsAll, Agreement, Removal, Work, AttrsApplied

LEMMA NextXattrWork == XattrInv /\ XattrWork /\ [Next]_vars => XattrWork'
<1> SUFFICES ASSUME XattrInv, XattrWork, [Next]_vars PROVE XattrWork'
  OBVIOUS
<1>1. CASE XattrStep \/ Touch
  <2>1. ~NoXattrs  BY <1>1, OnlyThatJob
  <2>2. XattrTypes /\ Attributes /\ ReadsWhole /\ ReadsAll /\ Agreement /\ Removal /\ Work
    BY <2>1 DEF XattrInv, XattrWork
  <2>3. ReadsWhole' /\ ReadsAll'  BY <1>1, <2>2, NextReadsWhole, NextReadsAll
  <2>4. Agreement' /\ Removal'  BY <1>1, <2>2, NextAgreement, NextRemoval
  <2>5. Work' /\ AttrsApplied'  BY <1>1, <2>2, NextWork, NextApplied
  <2> QED BY <2>3, <2>4, <2>5 DEF XattrWork
<1>2. CASE UNCHANGED xattrvars
  <2>1. CASE NoXattrs
    <3>1. NoXattrs'  BY <1>2, <2>1 DEF xattrvars, NoXattrs, NoTry, None, Files
    <3> QED BY <3>1 DEF XattrWork
  <2>2. CASE ~NoXattrs
    <3>1. /\ UNCHANGED <<System, attrs>> /\ File' = File /\ None' = None
          /\ \A A : NamesOf(A)' = NamesOf(A) /\ Lens(A)' = Lens(A)
      BY <1>2 DEF xattrvars, System, File, None, NamesOf, Lens
    <3>2. /\ Present' = Present /\ Has(File)' = Has(File) /\ Size(Present)' = Size(Present)
          /\ LengthsOf(Present)' = LengthsOf(Present)
          /\ \A k : Length(k)' = Length(k)
      BY <3>1, SameFile DEF LengthsOf, Length, Value
    <3>3. \A f : Has(f)' = Has(f) /\ \A S : PairsOf(f, S)' = PairsOf(f, S)
      BY <3>1, SameAttrs
    <3>4. \A f : Undisturbed(f)' <=> Undisturbed(f)  BY <1>2 DEF xattrvars, Undisturbed
    <3>5. ReadsWhole => ReadsWhole'
      <4>1. First(names)' = First(names)  BY <1>2 DEF xattrvars, First
      <4> QED BY <1>2, <3>1, <3>2, <3>3, <3>4, <4>1 DEF xattrvars, ReadsWhole
    <3>6. ReadsAll => ReadsAll'
      <4>1. \A k : Failed(k)' <=> Failed(k)  BY <1>2 DEF xattrvars, Failed, NamesOf
      <4>2. NamesOf(got)' = NamesOf(got)
            /\ Lens(PairsOf(File, Has(File)))' = Lens(PairsOf(File, Has(File)))
        <5>1. PairsOf(File, Has(File))' = PairsOf(File, Has(File))  BY <3>1, <3>2 DEF PairsOf
        <5> QED BY <1>2, <5>1 DEF xattrvars, NamesOf, Lens
      <4> QED BY <1>2, <3>1, <3>2, <3>4, <4>1, <4>2 DEF xattrvars, ReadsAll
    <3>7. Agreement => Agreement'
      <4>1. Total(Lens(agreed.list))' = Total(Lens(agreed.list))
        BY <1>2 DEF xattrvars, Lens
      <4>2. PairsOf("source", names)' = PairsOf("source", names)
            /\ PairsOf("source", Has("source"))' = PairsOf("source", Has("source"))
        BY <1>2, <3>3 DEF xattrvars, PairsOf
      <4> QED BY <1>2, <3>1, <3>4, <4>1, <4>2 DEF xattrvars, Agreement
    <3>8. Removal => Removal'
      <4>1. Unwanted' = Unwanted /\ NamesOf(present)' = NamesOf(present)
            /\ NamesOf(agreed.list)' = NamesOf(agreed.list)
        BY <1>2, <3>3 DEF xattrvars, Unwanted, NamesOf
      <4> QED BY <1>2, <3>4, <4>1 DEF xattrvars, Removal
    <3>9. Work => Work'
      <4>1. Done' = Done  BY <3>3 DEF Done, PairsOf
      <4>2. Clean' <=> Clean  BY <1>2, <3>4 DEF xattrvars, Clean
      <4> QED BY <1>2, <4>1, <4>2 DEF xattrvars, Work
    <3>10. AttrsApplied => AttrsApplied'
      <4>1. \A f : SyncedAttrs(f)' = SyncedAttrs(f)
        <5>1. \A k : Synced(k)' <=> Synced(k)  BY <3>1, Vocabulary
        <5> QED BY <1>2, <5>1 DEF xattrvars, SyncedAttrs
      <4> QED BY <1>2, <3>1, <4>1 DEF xattrvars, AttrsApplied
    <3> QED BY <2>2, <3>5, <3>6, <3>7, <3>8, <3>9, <3>10 DEF XattrWork
  <2> QED BY <2>1, <2>2
<1> QED BY <1>1, <1>2, XattrMoves

(* Reading and setting attributes: without interference, what is read is   *)
(* what the file has, but for attributes that a failing call leaves out;   *)
(* and what has been set and checked is what was recorded, while others    *)
(* stay only if two calls failed (getXattrs, setXattrs, similar).          *)
THEOREM XattrsSet == Spec => []AttrsApplied
<1>1. Init => XattrInv /\ XattrWork  BY InitXattrInv, InitXattrWork
<1>2. XattrInv /\ XattrWork /\ [Next]_vars => (XattrInv /\ XattrWork)'
  BY NextXattrInv, NextXattrWork
<1>3. XattrWork => AttrsApplied  BY DEF XattrWork, NoXattrs, AttrsApplied
<1> QED BY <1>1, <1>2, <1>3, PTL DEF Spec
-----------------------------------------------------------------------------
(* The entries of a list that are inherited, or not, one after the other.  *)
LEMMA FilteredFold ==
  ASSUME NEW X, NEW entries \in Seq(X), NEW b
  PROVE  \E r :
           /\ r[0] = <<>>
           /\ \A k \in 1 .. Len(entries) :
                r[k] = IF entries[k].inherited = b THEN Append(r[k - 1], entries[k]) ELSE r[k - 1]
           /\ Filtered(entries, b) = r[Len(entries)]
<1> DEFINE n == Len(entries)
           S == 1 .. n
           F == [p \in S \X Seq(X) |->
                   IF entries[p[1]].inherited = b THEN Append(p[2], entries[p[1]]) ELSE p[2]]
           iter == CHOOSE it : it = [s \in SUBSET S |->
                     IF s = {} THEN <<>>
                     ELSE IF entries[Max(s)].inherited = b
                          THEN Append(it[s \ {Max(s)}], entries[Max(s)])
                          ELSE it[s \ {Max(s)}]]
<1>1. DOMAIN entries = S /\ n \in Nat  BY LenProperties
<1>2. Filtered(entries, b) = iter[S]  BY <1>1 DEF Filtered, FoldLeft, MapThenFoldSet
<1>3. F \in [S \X Seq(X) -> Seq(X)]  BY <1>1, ElementOfSeq, AppendProperties
<1>4. IsFiniteSet(S) /\ Chooses(Greatest(S), S)
  <2>1. S = 1 .. n  OBVIOUS
  <2> HIDE DEF S, n
  <2> QED BY <1>1, <2>1, ChoosesGreatest
<1>5. PICK g : IsFold(g, S, F, <<>>, Greatest(S), Seq(X))
  <2> DEFINE Y == Seq(X)
             base == <<>>
  <2>1. base \in Y /\ F \in [S \X Y -> Y]  BY <1>3
  <2> HIDE DEF F, S, Y, base
  <2>2. \E g : IsFold(g, S, F, base, Greatest(S), Y)  BY <1>4, <2>1, FoldExists
  <2> QED BY <2>2 DEF Y, base
<1>6. g = [s \in SUBSET S |->
             IF s = {} THEN <<>>
             ELSE IF entries[Max(s)].inherited = b
                  THEN Append(g[s \ {Max(s)}], entries[Max(s)])
                  ELSE g[s \ {Max(s)}]]
  <2> HIDE DEF S
  <2> QED BY <1>4, <1>5 DEF IsFold, Chooses, Greatest
<1>7. iter = [s \in SUBSET S |->
                IF s = {} THEN <<>>
                ELSE IF entries[Max(s)].inherited = b
                     THEN Append(iter[s \ {Max(s)}], entries[Max(s)])
                     ELSE iter[s \ {Max(s)}]]
  <2> HIDE DEF S, n
  <2> QED BY <1>6
<1> DEFINE r == [k \in 0 .. n |-> iter[1 .. k]]
<1>8. \A k \in S : r[k] = IF entries[k].inherited = b THEN Append(r[k - 1], entries[k]) ELSE r[k - 1]
  <2> SUFFICES ASSUME NEW k \in S
               PROVE  r[k] = IF entries[k].inherited = b THEN Append(r[k - 1], entries[k]) ELSE r[k - 1]
    OBVIOUS
  <2> DEFINE I == 1 .. k
  <2>1. /\ I \in SUBSET S /\ I # {} /\ Max(I) = k /\ I \ {k} = 1 .. k - 1
        /\ k \in 0 .. n /\ k - 1 \in 0 .. n
    BY <1>1, Prefix
  <2>2. r[k] = iter[I] /\ r[k - 1] = iter[I \ {k}]  BY <2>1
  <2> HIDE DEF iter, S, I, r
  <2> QED BY <1>7, <2>1, <2>2
<1>9. r[0] = <<>> /\ r[n] = iter[S]
  <2>1. 1 .. 0 = {} /\ {} \in SUBSET S /\ 0 \in 0 .. n /\ n \in 0 .. n  BY <1>1
  <2>2. r[0] = iter[{}] /\ r[n] = iter[S]  BY <2>1
  <2> HIDE DEF iter, r, S
  <2> QED BY <1>7, <2>1, <2>2
<1> QED BY <1>2, <1>8, <1>9

(* The list from which the inherited entries are deleted, from the last to *)
(* the first.                                                              *)
LEMMA DroppedFold ==
  ASSUME NEW X, NEW entries \in Seq(X)
  PROVE  \E r :
           /\ r[0] = entries
           /\ \A k \in 1 .. Len(entries) :
                LET i == Len(entries) + 1 - k IN
                r[k] = IF i <= Len(r[k - 1]) /\ r[k - 1][i].inherited
                       THEN RemoveAt(r[k - 1], i) ELSE r[k - 1]
           /\ DropInherited(entries) = r[Len(entries)]
<1> DEFINE n == Len(entries)
           S == 1 .. n
           d == [i \in DOMAIN entries |-> Len(entries) + 1 - i]
           Drop(s, i) == IF i <= Len(s) /\ s[i].inherited THEN RemoveAt(s, i) ELSE s
           F == [p \in S \X Seq(X) |-> Drop(p[2], d[p[1]])]
           iter == CHOOSE it : it = [s \in SUBSET S |->
                     IF s = {} THEN entries ELSE Drop(it[s \ {Max(s)}], d[Max(s)])]
<1>1. DOMAIN entries = S /\ n \in Nat /\ DOMAIN d = S /\ \A i \in S : d[i] = n + 1 - i  BY LenProperties
<1>2. DropInherited(entries) = iter[S]  BY <1>1 DEF DropInherited, FoldLeft, MapThenFoldSet
<1>3. F \in [S \X Seq(X) -> Seq(X)]
  <2> SUFFICES ASSUME NEW i \in S, NEW s \in Seq(X) PROVE Drop(s, d[i]) \in Seq(X)
    OBVIOUS
  <2>1. d[i] \in 1 .. n  BY <1>1
  <2> HIDE DEF d
  <2>2. ASSUME d[i] <= Len(s) PROVE RemoveAt(s, d[i]) \in Seq(X)  BY <1>1, <2>1, <2>2 DEF RemoveAt
  <2> QED BY <2>2
<1>4. IsFiniteSet(S) /\ Chooses(Greatest(S), S)
  <2>1. S = 1 .. n  OBVIOUS
  <2> HIDE DEF S, n
  <2> QED BY <1>1, <2>1, ChoosesGreatest
<1>5. PICK g : IsFold(g, S, F, entries, Greatest(S), Seq(X))
  <2> DEFINE Y == Seq(X)
  <2>1. entries \in Y /\ F \in [S \X Y -> Y]  BY <1>3
  <2> HIDE DEF F, S, Y
  <2>2. \E g : IsFold(g, S, F, entries, Greatest(S), Y)  BY <1>4, <2>1, FoldExists
  <2> QED BY <2>2 DEF Y
<1>6. g = [s \in SUBSET S |-> IF s = {} THEN entries ELSE Drop(g[s \ {Max(s)}], d[Max(s)])]
  <2> HIDE DEF S, d, Drop
  <2> QED BY <1>4, <1>5 DEF IsFold, Chooses, Greatest
<1>7. iter = [s \in SUBSET S |-> IF s = {} THEN entries ELSE Drop(iter[s \ {Max(s)}], d[Max(s)])]
  <2> HIDE DEF S, n, d, Drop
  <2> QED BY <1>6
<1> DEFINE r == [k \in 0 .. n |-> iter[1 .. k]]
<1>8. \A k \in S : r[k] = Drop(r[k - 1], n + 1 - k)
  <2> SUFFICES ASSUME NEW k \in S PROVE r[k] = Drop(r[k - 1], n + 1 - k)
    OBVIOUS
  <2> DEFINE I == 1 .. k
  <2>1. /\ I \in SUBSET S /\ I # {} /\ Max(I) = k /\ I \ {k} = 1 .. k - 1
        /\ k \in 0 .. n /\ k - 1 \in 0 .. n
    BY <1>1, Prefix
  <2>2. r[k] = iter[I] /\ r[k - 1] = iter[I \ {k}] /\ d[k] = n + 1 - k  BY <1>1, <2>1
  <2> HIDE DEF iter, S, I, r, d, Drop
  <2> QED BY <1>7, <2>1, <2>2
<1>9. r[0] = entries /\ r[n] = iter[S]
  <2>1. 1 .. 0 = {} /\ {} \in SUBSET S /\ 0 \in 0 .. n /\ n \in 0 .. n  BY <1>1
  <2>2. r[0] = iter[{}] /\ r[n] = iter[S]  BY <2>1
  <2> HIDE DEF iter, r, S, d, Drop
  <2> QED BY <1>7, <2>1, <2>2
<1>10. /\ r[0] = entries /\ DropInherited(entries) = r[n]
       /\ \A k \in S : r[k] = IF n + 1 - k <= Len(r[k - 1]) /\ r[k - 1][n + 1 - k].inherited
                              THEN RemoveAt(r[k - 1], n + 1 - k) ELSE r[k - 1]
  <2> HIDE DEF r, iter, S, d
  <2> QED BY <1>2, <1>8, <1>9
<1> HIDE DEF r
<1> QED BY <1>10

Entry == [id : 1..2, inherited : BOOLEAN]
Own == [id : 1..2, inherited : {FALSE}]
Taken == [id : 1..2, inherited : {TRUE}]

(* On Windows the entries of a file's own precede those it inherits.       *)
LEMMA Joined ==
  ASSUME NEW u \in Seq(Own), NEW v \in Seq(Taken), NEW s, s = u \o v
  PROVE  /\ s \in Seq(Entry) /\ Len(u) \in Nat /\ Len(v) \in Nat /\ Len(s) = Len(u) + Len(v)
         /\ \A i \in 1 .. Len(s) : /\ i <= Len(u) => s[i] = u[i] /\ s[i].inherited = FALSE
                                   /\ i > Len(u) => s[i].inherited = TRUE
<1>1. u \in Seq(Entry) /\ v \in Seq(Entry)
  <2>1. Own \subseteq Entry /\ Taken \subseteq Entry  BY DEF Own, Taken, Entry
  <2> QED BY <2>1
<1>2. s \in Seq(Entry) /\ Len(u) \in Nat /\ Len(v) \in Nat /\ Len(s) = Len(u) + Len(v)
  BY <1>1
<1>3. \A i \in 1 .. Len(u) : u[i].inherited = FALSE
  <2>1. \A i \in 1 .. Len(u) : u[i] \in Own  OBVIOUS
  <2>2. \A e \in Own : e.inherited = FALSE  BY DEF Own
  <2> QED BY <2>1, <2>2
<1>4. \A i \in 1 .. Len(v) : v[i].inherited = TRUE
  <2>1. \A i \in 1 .. Len(v) : v[i] \in Taken  OBVIOUS
  <2>2. \A e \in Taken : e.inherited = TRUE  BY DEF Taken
  <2> QED BY <2>1, <2>2
<1>5. ASSUME NEW i \in 1 .. Len(s)
      PROVE  /\ i <= Len(u) => s[i] = u[i] /\ s[i].inherited = FALSE
             /\ i > Len(u) => s[i].inherited = TRUE
  <2>1. CASE i <= Len(u)
    <3>1. i \in 1 .. Len(u) /\ s[i] = u[i]  BY <1>1, <1>2, <2>1
    <3> QED BY <1>2, <1>3, <2>1, <3>1
  <2>2. CASE i > Len(u)
    <3>1. s[i] = v[i - Len(u)] /\ i - Len(u) \in 1 .. Len(v)  BY <1>1, <1>2, <2>2
    <3> QED BY <1>2, <1>4, <2>2, <3>1
  <2> QED BY <1>2, <2>1, <2>2
<1> QED BY <1>2, <1>5

LEMMA DropsInherited ==
  ASSUME NEW u \in Seq(Own), NEW v \in Seq(Taken)
  PROVE  DropInherited(u \o v) = u
<1> DEFINE s == u \o v
           n == Len(s)
           m == Len(u)
<1>1. /\ s \in Seq(Entry) /\ m \in Nat /\ Len(v) \in Nat /\ n = m + Len(v)
      /\ \A i \in 1 .. n : /\ i <= m => s[i] = u[i] /\ s[i].inherited = FALSE
                           /\ i > m => s[i].inherited = TRUE
  BY Joined
<1> HIDE DEF s
<1>2. PICK r :
        /\ r[0] = s
        /\ \A k \in 1 .. n :
             LET i == n + 1 - k IN
             r[k] = IF i <= Len(r[k - 1]) /\ r[k - 1][i].inherited
                    THEN RemoveAt(r[k - 1], i) ELSE r[k - 1]
        /\ DropInherited(s) = r[n]
  BY <1>1, DroppedFold
<1> DEFINE L(k) == IF k <= n - m THEN n - k ELSE m
           P(k) == r[k] \in Seq(Entry) /\ Len(r[k]) = L(k) /\ \A j \in 1 .. L(k) : r[k][j] = s[j]
           Q == {k \in 0 .. n : P(k)}
<1>3. n \in Nat /\ m \in Nat /\ m <= n  BY <1>1
<1> HIDE DEF n, m
<1>4. 0 \in Q
  <2>1. L(0) = n /\ 0 \in 0 .. n  BY <1>1, <1>3
  <2>2. Len(s) = n  BY DEF n
  <2>3. P(0)  BY <1>1, <1>2, <2>1, <2>2
  <2> QED BY <2>1, <2>3
<1>5. ASSUME NEW k \in 0 .. n - 1, k \in Q PROVE k + 1 \in Q
  <2> DEFINE i == n - k
             t == r[k]
  <2>1. k + 1 \in 1 .. n /\ k + 1 \in 0 .. n /\ (k + 1) - 1 = k /\ n + 1 - (k + 1) = i /\ i \in 1 .. n
    BY <1>3
  <2>2. t \in Seq(Entry) /\ Len(t) = L(k) /\ \A j \in 1 .. L(k) : t[j] = s[j]  BY <1>5
  <2>3. r[k + 1] = IF i <= Len(t) /\ t[i].inherited THEN RemoveAt(t, i) ELSE t
    BY <1>2, <2>1
  <2> HIDE DEF t
  <2>4. CASE k + 1 <= n - m
    <3>1. L(k) = i /\ L(k + 1) = i - 1 /\ i > m /\ i <= L(k)
      <4>1. k \in Nat /\ k <= n - m /\ n - (k + 1) = (n - k) - 1 /\ n - k > m  BY <1>3, <2>1, <2>4
      <4> QED BY <1>3, <2>1, <2>4, <4>1
    <3>2. t[i].inherited  BY <1>1, <2>1, <2>2, <3>1
    <3>3. r[k + 1] = RemoveAt(t, i)  BY <2>1, <2>2, <2>3, <3>1, <3>2
    <3>4. RemoveAt(t, i) = SubSeq(t, 1, i - 1)
      <4>1. SubSeq(t, i + 1, Len(t)) = <<>>  BY <2>1, <2>2, <3>1
      <4> DEFINE a == SubSeq(t, 1, i - 1)
      <4>2. a \in Seq(Entry)  BY <2>1, <2>2, <3>1
      <4>3. RemoveAt(t, i) = a \o <<>>  BY <4>1 DEF RemoveAt
      <4> HIDE DEF a
      <4>4. a \o <<>> = a  BY <4>2
      <4> QED BY <4>3, <4>4 DEF a
    <3> DEFINE a == SubSeq(t, 1, i - 1)
    <3>5. a \in Seq(Entry) /\ Len(a) = i - 1 /\ \A j \in 1 .. i - 1 : a[j] = t[j]
      <4> HIDE DEF i
      <4> QED BY <1>3, <2>1, <2>2, <3>1
    <3> HIDE DEF a
    <3>6. r[k + 1] = a  BY <3>3, <3>4 DEF a
    <3>7. P(k + 1)  BY <1>3, <2>1, <2>2, <3>1, <3>5, <3>6
    <3> QED BY <2>1, <3>7
  <2>5. CASE ~(k + 1 <= n - m)
    <3>1. L(k) = m /\ L(k + 1) = m /\ i <= m
      <4>1. k \in Nat /\ ~(k + 1 <= n - m) /\ n - k <= m /\ (k <= n - m => n - k = m)
        BY <1>3, <2>1, <2>5
      <4> QED BY <1>3, <2>1, <4>1
    <3>2. t[i].inherited = FALSE
      <4>1. i \in 1 .. L(k) /\ i \in 1 .. n /\ i <= m  BY <1>3, <2>1, <3>1
      <4> HIDE DEF i, L
      <4>2. t[i] = s[i]  BY <2>2, <4>1
      <4> QED BY <1>1, <4>1, <4>2
    <3>3. r[k + 1] = t  BY <2>3, <3>2
    <3>4. P(k + 1)  BY <2>2, <3>1, <3>3
    <3> QED BY <2>1, <3>4
  <2> QED BY <2>4, <2>5
<1>6. n \in Q
  <2> HIDE DEF Q
  <2> QED BY <1>3, <1>4, <1>5, IntervalInduction
<1>7. r[n] \in Seq(Entry) /\ Len(r[n]) = m /\ \A j \in 1 .. m : r[n][j] = u[j]
  <2>1. L(n) = m  BY <1>1, <1>3
  <2> QED BY <1>1, <1>3, <1>6, <2>1
<1>8. r[n] = u
  <2>1. u \in Seq(Entry)
    <3>1. Own \subseteq Entry  BY DEF Own, Entry
    <3> QED BY <3>1
  <2> QED BY <1>7, <2>1 DEF m
<1> QED BY <1>2, <1>8 DEF s

LEMMA KeepsOwn ==
  ASSUME NEW u \in Seq(Own), NEW v \in Seq(Taken)
  PROVE  Filtered(u \o v, FALSE) = u
<1> DEFINE s == u \o v
           n == Len(s)
           m == Len(u)
<1>1. /\ s \in Seq(Entry) /\ m \in Nat /\ Len(v) \in Nat /\ n = m + Len(v)
      /\ \A i \in 1 .. n : /\ i <= m => s[i] = u[i] /\ s[i].inherited = FALSE
                           /\ i > m => s[i].inherited = TRUE
  BY Joined
<1> HIDE DEF s
<1>2. PICK r :
        /\ r[0] = <<>>
        /\ \A k \in 1 .. n : r[k] = IF s[k].inherited = FALSE THEN Append(r[k - 1], s[k]) ELSE r[k - 1]
        /\ Filtered(s, FALSE) = r[n]
  BY <1>1, FilteredFold
<1> DEFINE L(k) == IF k <= m THEN k ELSE m
           P(k) == r[k] \in Seq(Entry) /\ Len(r[k]) = L(k) /\ \A j \in 1 .. L(k) : r[k][j] = s[j]
           Q == {k \in 0 .. n : P(k)}
<1>3. n \in Nat /\ m \in Nat /\ m <= n /\ \A i \in 1 .. n : s[i] \in Entry  BY <1>1
<1> HIDE DEF n, m
<1>4. 0 \in Q
  <2>1. L(0) = 0 /\ 0 \in 0 .. n  BY <1>1, <1>3
  <2>2. P(0)  BY <1>2, <2>1
  <2> QED BY <2>1, <2>2
<1>5. ASSUME NEW k \in 0 .. n - 1, k \in Q PROVE k + 1 \in Q
  <2> DEFINE i == k + 1
             t == r[k]
  <2>1. i \in 1 .. n /\ i \in 0 .. n /\ i - 1 = k /\ k \in Nat  BY <1>3
  <2>2. t \in Seq(Entry) /\ Len(t) = L(k) /\ \A j \in 1 .. L(k) : t[j] = s[j]  BY <1>5
  <2>3. r[i] = IF s[i].inherited = FALSE THEN Append(t, s[i]) ELSE t
    BY <1>2, <2>1
  <2> HIDE DEF t, i
  <2>4. CASE i <= m
    <3>1. L(k) = k /\ L(i) = i /\ i = k + 1  BY <1>1, <2>1, <2>4 DEF i
    <3>2. r[i] = Append(t, s[i]) /\ s[i] \in Entry  BY <1>1, <1>3, <2>1, <2>3, <2>4
    <3>3. r[i] \in Seq(Entry) /\ Len(r[i]) = i /\ \A j \in 1 .. i : r[i][j] = s[j]
      BY <2>1, <2>2, <3>1, <3>2
    <3>4. P(i)  BY <3>1, <3>3
    <3> QED BY <2>1, <3>4 DEF i
  <2>5. CASE ~(i <= m)
    <3>1. L(k) = m /\ L(i) = m  BY <1>1, <2>1, <2>5 DEF i
    <3>2. r[i] = t  BY <1>1, <2>1, <2>3, <2>5
    <3>3. P(i)  BY <2>2, <3>1, <3>2
    <3> QED BY <2>1, <3>3 DEF i
  <2> QED BY <2>4, <2>5
<1>6. n \in Q
  <2> HIDE DEF Q
  <2> QED BY <1>3, <1>4, <1>5, IntervalInduction
<1>7. r[n] \in Seq(Entry) /\ Len(r[n]) = m /\ \A j \in 1 .. m : r[n][j] = u[j]
  <2>1. L(n) = m  BY <1>1, <1>3
  <2> QED BY <1>1, <1>3, <1>6, <2>1
<1>8. r[n] = u
  <2>1. u \in Seq(Entry)
    <3>1. Own \subseteq Entry  BY DEF Own, Entry
    <3> QED BY <3>1
  <2> QED BY <1>7, <2>1 DEF m
<1> QED BY <1>2, <1>8 DEF s

LEMMA TakesInherited ==
  ASSUME NEW s \in Seq(Entry)
  PROVE  Filtered(s, TRUE) \in Seq(Taken)
<1> DEFINE n == Len(s)
<1>1. PICK r :
        /\ r[0] = <<>>
        /\ \A k \in 1 .. n : r[k] = IF s[k].inherited = TRUE THEN Append(r[k - 1], s[k]) ELSE r[k - 1]
        /\ Filtered(s, TRUE) = r[n]
  BY FilteredFold
<1> DEFINE Q == {k \in 0 .. n : r[k] \in Seq(Taken)}
<1>2. n \in Nat /\ \A k \in 1 .. n : s[k] \in Entry  OBVIOUS
<1> HIDE DEF n
<1>3. 0 \in Q
  <2>1. <<>> \in Seq(Taken) /\ 0 \in 0 .. n  BY <1>2
  <2> QED BY <1>1, <2>1
<1>4. ASSUME NEW k \in 0 .. n - 1, k \in Q PROVE k + 1 \in Q
  <2>1. k + 1 \in 1 .. n /\ k + 1 \in 0 .. n /\ (k + 1) - 1 = k  BY <1>2
  <2>2. r[k + 1] = IF s[k + 1].inherited = TRUE THEN Append(r[k], s[k + 1]) ELSE r[k]  BY <1>1, <2>1
  <2>3. s[k + 1] \in Entry /\ r[k] \in Seq(Taken)  BY <1>2, <1>4, <2>1
  <2>4. s[k + 1].inherited = TRUE => s[k + 1] \in Taken  BY <2>3 DEF Entry, Taken
  <2> DEFINE e == s[k + 1]
  <2> HIDE DEF e
  <2>5. (r[k + 1] = Append(r[k], e) /\ e \in Taken) \/ r[k + 1] = r[k]
    <3>1. e.inherited = TRUE => e \in Taken  BY <2>4 DEF e
    <3>2. r[k + 1] = IF e.inherited = TRUE THEN Append(r[k], e) ELSE r[k]  BY <2>2 DEF e
    <3> QED BY <3>1, <3>2
  <2>6. r[k + 1] \in Seq(Taken)
    <3>1. e \in Taken => Append(r[k], e) \in Seq(Taken)  BY <2>3, AppendProperties
    <3> QED BY <2>3, <2>5, <3>1
  <2> QED BY <2>1, <2>6
<1>5. n \in Q
  <2> HIDE DEF Q
  <2> QED BY <1>2, <1>3, <1>4, IntervalInduction
<1> QED BY <1>1, <1>5

-----------------------------------------------------------------------------
(* Access control lists.  On Windows a file's own entries precede those it *)
(* inherits.                                                               *)
TheLists ==
  IF asys = "windows"
  THEN {[protected |-> p, entries |-> u \o v] : p \in BOOLEAN, u \in Seq(Own), v \in Seq(Taken)}
  ELSE {[protected |-> FALSE, entries |-> s] : s \in UpToTwo(Entries)}

(* The text of a list, on a file system that has lists.                   *)
ListText(l) ==
  IF asys = "windows" THEN WindowsText(l)
  ELSE IF IsTrivial(l.entries) THEN Empty ELSE Text(UnixText(l.entries))

AclStages == {"read", "finder", "chmod", "retry", "restore", "perm", "set",
              "stat", "strip", "look", "check", "ok", "failed"}

AclTypes ==
  /\ supported \in [Files -> BOOLEAN] /\ afaults \in 0..MaxAclFaults /\ edited \in Nat
  /\ astage \in AclStages
  /\ acl \in [Files -> TheLists]
  /\ above \in IF asys = "windows" THEN Seq(Taken) ELSE {<<>>}

(* What was asked for is what the source has, and what is checked is that, *)
(* if no call failed and nothing interfered; and so is the mode.           *)
AclWork ==
  /\ astage \notin {"read", "failed"} => text = ToText("source")
  /\ astage \in {"set", "stat", "strip"} => text # NotSupported
  /\ astage \in {"stat", "strip"} => text = Empty /\ asys = "solaris"
  /\ astage \in {"look", "check"} /\ supported["target"] /\ edited = 0 /\ afaults = 0 =>
       text = NotSupported \/ ToText("target") = text
  /\ astage = "ok" => (text = NotSupported \/ ToText("target") = text) /\ saved = asked
  /\ astage \in {"check", "ok"} /\ chmods = 0 => saved = perm
  /\ astage = "failed" =>
       afaults > 0 \/ chmods > 0 \/ edited > 0 \/ ~supported["target"] \/ wanted # asked

AclInv == NoAcl \/ (AclTypes /\ AclWork)

LEMMA ListsAre ==
  /\ asys = "windows" =>
       \A l : l \in TheLists <=>
         \E p \in BOOLEAN, u \in Seq(Own), v \in Seq(Taken) : l = [protected |-> p, entries |-> u \o v]
  /\ asys # "windows" =>
       \A l : l \in TheLists <=> \E s \in UpToTwo(Entries) : l = [protected |-> FALSE, entries |-> s]
<1> DEFINE U == Seq(Own)
           V == Seq(Taken)
           W == UpToTwo(Entries)
           Rec(p, u, v) == [protected |-> p, entries |-> u \o v]
<1>1. TheLists = IF asys = "windows"
                 THEN {[protected |-> p, entries |-> u \o v] : p \in BOOLEAN, u \in U, v \in V}
                 ELSE {[protected |-> FALSE, entries |-> s] : s \in W}
  BY DEF TheLists
<1> HIDE DEF U, V, W
<1>2. ASSUME asys = "windows", NEW l
      PROVE  l \in TheLists <=> \E p \in BOOLEAN, u \in U, v \in V : l = [protected |-> p, entries |-> u \o v]
  <2>1. TheLists = {Rec(p, u, v) : p \in BOOLEAN, u \in U, v \in V}  BY <1>1, <1>2
  <2> HIDE DEF Rec
  <2>2. l \in TheLists <=> \E p \in BOOLEAN, u \in U, v \in V : l = Rec(p, u, v)  BY <2>1
  <2> QED BY <2>2 DEF Rec
<1>3. ASSUME asys # "windows", NEW l
      PROVE  l \in TheLists <=> \E s \in W : l = [protected |-> FALSE, entries |-> s]
  <2>1. TheLists = {[protected |-> FALSE, entries |-> s] : s \in W}  BY <1>1, <1>3
  <2> QED BY <2>1, Zenon
<1> QED BY <1>2, <1>3 DEF U, V, W

LEMMA Kinds ==
  /\ NotSupported # Empty
  /\ \A b : Text(b) # Empty /\ Text(b) # NotSupported /\ Text(b).body = b
  /\ \A b, c : Text(b) = Text(c) => b = c
  BY DEF NotSupported, Empty, Text

TextOf(p, u) == IF u = <<>> /\ ~p THEN Empty ELSE Text([protected |-> p, entries |-> u])

LEMMA WindowsTextIs ==
  ASSUME asys = "windows", NEW p \in BOOLEAN, NEW u \in Seq(Own), NEW v \in Seq(Taken),
         NEW l, l = [protected |-> p, entries |-> u \o v]
  PROVE  ListText(l) = TextOf(p, u) /\ OwnEntries(l) = [protected |-> p, entries |-> u]
<1>1. DropInherited(l.entries) = u /\ Filtered(l.entries, FALSE) = u  BY DropsInherited, KeepsOwn
<1>2. ListText(l) = WindowsText(l)  BY DEF ListText
<1>3. l.protected = p  OBVIOUS
<1> QED BY <1>1, <1>2, <1>3 DEF WindowsText, OwnEntries, TextOf

LEMMA WindowsListIs ==
  ASSUME asys = "windows", NEW l \in TheLists
  PROVE  \E p \in BOOLEAN, u \in Seq(Own) :
           ListText(l) = TextOf(p, u) /\ OwnEntries(l) = [protected |-> p, entries |-> u]
<1>1. PICK p \in BOOLEAN, u \in Seq(Own), v \in Seq(Taken) : l = [protected |-> p, entries |-> u \o v]
  BY ListsAre
<1> DEFINE r == [protected |-> p, entries |-> u \o v]
<1>2. ListText(r) = TextOf(p, u) /\ OwnEntries(r) = [protected |-> p, entries |-> u]
  BY WindowsTextIs
<1> HIDE DEF r
<1>3. l = r  BY <1>1 DEF r
<1> QED BY <1>2, <1>3

LEMMA UnixTextIs ==
  ASSUME asys # "windows", NEW s, NEW l, l = [protected |-> FALSE, entries |-> s]
  PROVE  ListText(l) = IF s = <<>> THEN Empty ELSE Text(UnixText(s))
<1>1. l.entries = s  OBVIOUS
<1> QED BY <1>1 DEF ListText, IsTrivial

LEMMA BsdTextIs ==
  ASSUME asys \in {"freebsd", "posix"}, NEW s \in UpToTwo(Entries)
  PROVE  /\ UnixText(s) = BsdText[s] /\ BsdParsed[s] = BsdText[s]
         /\ \A t \in UpToTwo(Entries) : BsdText[s] = BsdText[t] =>
              OwnEntries([protected |-> FALSE, entries |-> s]) = OwnEntries([protected |-> FALSE, entries |-> t])
<1>1. Entries = IF asys = "freebsd" THEN NFS4 ELSE POSIX  BY DEF Entries
<1>2. UnixText(s) = BsdText[s]  BY DEF UnixText
<1>3. s \in BsdLists  BY <1>1 DEF BsdLists
<1>4. BsdParsed[s] = BsdText[s]  BY <1>3, BsdTexts
<1>5. ASSUME NEW t \in UpToTwo(Entries), BsdText[s] = BsdText[t]
      PROVE  OwnEntries([protected |-> FALSE, entries |-> s]) = OwnEntries([protected |-> FALSE, entries |-> t])
  <2>1. CASE asys = "freebsd"
    <3> DEFINE x(r) == [of |-> r, text |-> BsdText[r]]
    <3>1. x(s) \in Texts(UpToTwo(NFS4)) /\ x(t) \in Texts(UpToTwo(NFS4))  BY <1>1, <1>5, <2>1 DEF Texts
    <3>2. x(s).text = x(t).text => x(s).of = x(t).of  BY <3>1, BsdTexts
    <3>3. s = t  BY <1>5, <3>2
    <3> QED BY <3>3
  <2>2. CASE asys = "posix"
    <3> DEFINE x(r) == [of |-> r, text |-> BsdText[r]]
               Who(r) == [i \in DOMAIN r |-> r[i].who]
    <3>1. x(s) \in Texts(UpToTwo(POSIX)) /\ x(t) \in Texts(UpToTwo(POSIX))  BY <1>1, <1>5, <2>2 DEF Texts
    <3>2. x(s).text = x(t).text => Who(x(s).of) = Who(x(t).of)  BY <3>1, BsdTexts
    <3>3. Who(s) = Who(t)  BY <1>5, <3>2
    <3> QED BY <2>2, <3>3 DEF OwnEntries
  <2> QED BY <2>1, <2>2
<1> QED BY <1>2, <1>4, <1>5

(* The list that is set from the text of a list has that text...           *)
LEMMA SetAsAsked ==
  ASSUME NEW s \in TheLists, NEW t, t = ListText(s),
         above \in IF asys = "windows" THEN Seq(Taken) ELSE {<<>>}
  PROVE  /\ FromText(t, above) # {}
         /\ \A l \in FromText(t, above) : l \in TheLists /\ ListText(l) = t
<1>1. CASE asys = "windows"
  <2>1. PICK p \in BOOLEAN, u \in Seq(Own), v \in Seq(Taken) : s = [protected |-> p, entries |-> u \o v]
    BY <1>1, ListsAre
  <2>2. t = TextOf(p, u)
    <3> DEFINE r == [protected |-> p, entries |-> u \o v]
    <3>1. ListText(r) = TextOf(p, u)  BY <1>1, WindowsTextIs
    <3> HIDE DEF r
    <3>2. s = r  BY <2>1 DEF r
    <3> QED BY <3>1, <3>2
  <2> DEFINE w == IF p THEN <<>> ELSE above
             l == [protected |-> p, entries |-> u \o w]
  <2>3. FromText(t, above) = {l}
    <3>1. FromText(t, above) = WindowsLists(t, above)  BY <1>1 DEF FromText
    <3>2. (t # Empty /\ t.body.protected) = p /\ (IF t = Empty THEN <<>> ELSE t.body.entries) = u
      <4>1. CASE u = <<>> /\ ~p  BY <2>2, <4>1 DEF TextOf
      <4>2. CASE ~(u = <<>> /\ ~p)
        <5>1. t # Empty /\ t.body = [protected |-> p, entries |-> u]  BY <2>2, <4>2, Kinds DEF TextOf
        <5> QED BY <5>1
      <4> QED BY <4>1, <4>2
    <3> QED BY <3>1, <3>2 DEF WindowsLists
  <2>4. w \in Seq(Taken)  BY <1>1
  <2> HIDE DEF w
  <2>5. l \in TheLists  BY <1>1, <2>4, ListsAre
  <2>6. ListText(l) = t
    <3>1. ListText(l) = TextOf(p, u)  BY <1>1, <2>4, WindowsTextIs
    <3> HIDE DEF l
    <3> QED BY <2>2, <3>1
  <2> QED BY <2>3, <2>5, <2>6
<1>2. CASE asys # "windows"
  <2>1. PICK e \in UpToTwo(Entries) : s = [protected |-> FALSE, entries |-> e]  BY <1>2, ListsAre
  <2>2. t = IF e = <<>> THEN Empty ELSE Text(UnixText(e))  BY <1>2, <2>1, UnixTextIs
  <2>3. <<>> \in UpToTwo(Entries)  BY DEF UpToTwo
  <2>4. CASE e = <<>>
    <3>1. FromText(t, above) = {Trivial}  BY <1>2, <2>2, <2>4 DEF FromText
    <3>2. Trivial \in TheLists  BY <1>2, <2>3, ListsAre DEF Trivial
    <3>3. ListText(Trivial) = Empty  BY <1>2, UnixTextIs DEF Trivial
    <3> QED BY <2>2, <2>4, <3>1, <3>2, <3>3
  <2>5. CASE e # <<>>
    <3>1. t = Text(UnixText(e)) /\ t # Empty /\ t.body = UnixText(e)  BY <2>2, <2>5, Kinds
    <3>2. FromText(t, above) = {[protected |-> FALSE, entries |-> x] : x \in Parsed(UnixText(e))}
      BY <1>2, <3>1 DEF FromText
    <3>3. /\ e \in Parsed(UnixText(e))
          /\ \A x \in Parsed(UnixText(e)) : x \in UpToTwo(Entries) /\ x # <<>> /\ UnixText(x) = UnixText(e)
      <4>1. CASE asys \in {"freebsd", "posix"}
        <5>1. \A x \in UpToTwo(Entries) : UnixText(x) = BsdText[x] /\ BsdParsed[x] = BsdText[x]
          BY <4>1, BsdTextIs
        <5> QED BY <2>5, <4>1, <5>1 DEF Parsed
      <4>2. CASE asys \notin {"freebsd", "posix"}  BY <2>5, <4>2 DEF Parsed, UnixText
      <4> QED BY <4>1, <4>2
    <3>4. ASSUME NEW x \in Parsed(UnixText(e))
          PROVE  [protected |-> FALSE, entries |-> x] \in TheLists /\ ListText([protected |-> FALSE, entries |-> x]) = t
      <4>1. [protected |-> FALSE, entries |-> x] \in TheLists  BY <1>2, <3>3, ListsAre
      <4>2. ListText([protected |-> FALSE, entries |-> x]) = Text(UnixText(x))  BY <1>2, <3>3, UnixTextIs
      <4> QED BY <3>1, <3>3, <4>1, <4>2
    <3> QED BY <3>2, <3>3, <3>4
  <2> QED BY <2>4, <2>5
<1> QED BY <1>1, <1>2

(* ...and lists that have the same text have the same entries of their own.*)
LEMMA TextsTell ==
  ASSUME NEW s \in TheLists, NEW l \in TheLists, ListText(l) = ListText(s)
  PROVE  OwnEntries(l) = OwnEntries(s)
<1>1. CASE asys = "windows"
  <2>1. PICK p \in BOOLEAN, u \in Seq(Own) :
          ListText(s) = TextOf(p, u) /\ OwnEntries(s) = [protected |-> p, entries |-> u]
    BY <1>1, WindowsListIs
  <2>2. PICK q \in BOOLEAN, x \in Seq(Own) :
          ListText(l) = TextOf(q, x) /\ OwnEntries(l) = [protected |-> q, entries |-> x]
    BY <1>1, WindowsListIs
  <2> QED BY <2>1, <2>2, Kinds DEF TextOf
<1>2. CASE asys # "windows"
  <2>1. PICK e \in UpToTwo(Entries) : s = [protected |-> FALSE, entries |-> e]  BY <1>2, ListsAre
  <2>2. PICK x \in UpToTwo(Entries) : l = [protected |-> FALSE, entries |-> x]  BY <1>2, ListsAre
  <2>3. /\ ListText(s) = IF e = <<>> THEN Empty ELSE Text(UnixText(e))
        /\ ListText(l) = IF x = <<>> THEN Empty ELSE Text(UnixText(x))
    BY <1>2, <2>1, <2>2, UnixTextIs
  <2>4. e = x \/ UnixText(e) = UnixText(x)  BY <2>3, Kinds
  <2>5. CASE e = x  BY <2>1, <2>2, <2>5
  <2>6. CASE UnixText(e) = UnixText(x)
    <3>1. CASE asys \in {"freebsd", "posix"}  BY <2>1, <2>2, <2>6, <3>1, BsdTextIs
    <3>2. CASE asys \notin {"freebsd", "posix"}  BY <2>1, <2>2, <2>6, <3>2 DEF UnixText
    <3> QED BY <3>1, <3>2
  <2> QED BY <2>4, <2>5, <2>6
<1> QED BY <1>1, <1>2

(* The systems stay what they are.                                         *)
LEMMA SameAclSystem ==
  ASSUME asys' = asys, supported' = supported
  PROVE  /\ TheLists' = TheLists
         /\ \A f \in Files : ToText(f)' = IF supported[f] THEN ListText(acl'[f]) ELSE NotSupported
         /\ \A f \in Files : ToText(f) = IF supported[f] THEN ListText(acl[f]) ELSE NotSupported
<1>1. TheLists' = TheLists  BY DEF TheLists, Entries, UpToTwo
<1>2. ASSUME NEW f \in Files
      PROVE  /\ ToText(f)' = IF supported[f] THEN ListText(acl'[f]) ELSE NotSupported
             /\ ToText(f) = IF supported[f] THEN ListText(acl[f]) ELSE NotSupported
  BY DEF ToText, ListText, WindowsText, UnixText, IsTrivial, Text, Empty, NotSupported
<1> QED BY <1>1, <1>2

LEMMA TrivialIs ==
  asys # "windows" => Trivial \in TheLists /\ ListText(Trivial) = Empty
<1> SUFFICES ASSUME asys # "windows" PROVE Trivial \in TheLists /\ ListText(Trivial) = Empty
  OBVIOUS
<1>1. <<>> \in UpToTwo(Entries)  BY DEF UpToTwo
<1>2. Trivial \in TheLists  BY <1>1, ListsAre DEF Trivial
<1>3. ListText(Trivial) = Empty  BY UnixTextIs DEF Trivial
<1> QED BY <1>2, <1>3

(* A list has a text.                                                      *)
LEMMA IsText ==
  ASSUME NEW s \in TheLists
  PROVE  ListText(s) # NotSupported
<1>1. CASE asys = "windows"
  <2>1. PICK p \in BOOLEAN, u \in Seq(Own) : ListText(s) = TextOf(p, u)  BY <1>1, WindowsListIs
  <2> QED BY <2>1, Kinds DEF TextOf
<1>2. CASE asys # "windows"
  <2>1. PICK e \in UpToTwo(Entries) : s = [protected |-> FALSE, entries |-> e]  BY <1>2, ListsAre
  <2>2. ListText(s) = IF e = <<>> THEN Empty ELSE Text(UnixText(e))  BY <1>2, <2>1, UnixTextIs
  <2> QED BY <2>2, Kinds
<1> QED BY <1>1, <1>2

LEMMA TextIs ==
  ASSUME AclTypes, NEW f \in Files
  PROVE  /\ acl[f] \in TheLists
         /\ ToText(f) = IF supported[f] THEN ListText(acl[f]) ELSE NotSupported
         /\ ToText(f) = NotSupported <=> ~supported[f]
<1>1. acl[f] \in TheLists /\ supported[f] \in BOOLEAN  BY DEF AclTypes
<1>2. ToText(f) = IF supported[f] THEN ListText(acl[f]) ELSE NotSupported  BY DEF ToText, ListText
<1>3. ListText(acl[f]) # NotSupported  BY <1>1, IsText
<1> QED BY <1>1, <1>2, <1>3

(* Steps that leave the lists alone, and steps that set one.               *)
LEMMA ListsKept ==
  ASSUME AclTypes, UNCHANGED <<asys, supported, acl, above, edited>>,
         astage' \in AclStages, afaults' \in 0..MaxAclFaults
  PROVE  AclTypes' /\ \A f \in Files : ToText(f)' = ToText(f)
<1>1. TheLists' = TheLists  BY SameAclSystem
<1>2. AclTypes'  BY <1>1 DEF AclTypes, AclStages
<1>3. \A f \in Files : ToText(f)' = ToText(f)  BY SameAclSystem
<1> QED BY <1>2, <1>3

LEMMA TargetSet ==
  ASSUME AclTypes, UNCHANGED <<asys, supported, above>>, edited' \in Nat,
         NEW l \in TheLists, acl' = [acl EXCEPT !["target"] = l],
         astage' \in AclStages, afaults' \in 0..MaxAclFaults
  PROVE  /\ AclTypes' /\ ToText("source")' = ToText("source")
         /\ supported["target"] => ToText("target")' = ListText(l)
<1>1. /\ TheLists' = TheLists
      /\ \A f \in Files : ToText(f)' = IF supported[f] THEN ListText(acl'[f]) ELSE NotSupported
      /\ \A f \in Files : ToText(f) = IF supported[f] THEN ListText(acl[f]) ELSE NotSupported
  BY SameAclSystem
<1>2. /\ acl' \in [Files -> TheLists] /\ acl'["source"] = acl["source"] /\ acl'["target"] = l
      /\ "source" \in Files /\ "target" \in Files
  BY DEF AclTypes, Files
<1>3. AclTypes'  BY <1>1, <1>2 DEF AclTypes, AclStages
<1> QED BY <1>1, <1>2, <1>3

(* What a list of Windows holds, and what a file has at first.             *)
LEMMA EntriesAre ==
  ASSUME asys = "windows", NEW l \in TheLists
  PROVE  l.entries \in Seq(Entry)
<1>1. PICK p \in BOOLEAN, u \in Seq(Own), v \in Seq(Taken) : l = [protected |-> p, entries |-> u \o v]
  BY ListsAre
<1>2. u \o v \in Seq(Entry)  BY Joined
<1>3. l.entries = u \o v  BY <1>1
<1> QED BY <1>2, <1>3

LEMMA AtMostTwo ==
  ASSUME NEW X, NEW s \in UpToTwo(X)
  PROVE  s \in Seq(X)
<1>1. s = <<>> \/ (\E e \in X : s = <<e>>) \/ (\E e \in X, f \in X : s = <<e, f>>)
  BY DEF UpToTwo
<1>2. ASSUME NEW e \in X, s = <<e>> PROVE s \in Seq(X)  BY <1>2
<1>3. ASSUME NEW e \in X, NEW f \in X, s = <<e, f>> PROVE s \in Seq(X)  BY <1>3
<1>4. CASE s = <<>>  BY <1>4
<1> QED BY <1>1, <1>2, <1>3, <1>4

LEMMA FirstLists ==
  ASSUME asys = "windows"
  PROVE  Lists \subseteq TheLists /\ Trivial \in TheLists
<1>1. ASSUME NEW p \in BOOLEAN, NEW u \in Seq(Own), NEW v \in Seq(Taken)
      PROVE  [protected |-> p, entries |-> u \o v] \in TheLists
  BY <1>1, ListsAre
<1>2. Trivial \in TheLists
  <2>1. <<>> \in Seq(Own) /\ <<>> \in Seq(Taken) /\ <<>> \o <<>> = <<>>  OBVIOUS
  <2> QED BY <1>1, <2>1 DEF Trivial
<1>3. Entries = [id : 1 .. 2]  BY DEF Entries
<1>4. ASSUME NEW s \in UpToTwo(Entries)
      PROVE  /\ [i \in DOMAIN s |-> Explicit(s[i])] \in Seq(Own)
             /\ [i \in DOMAIN s |-> Inherited(s[i])] \in Seq(Taken)
  <2>1. s \in Seq(Entries)  BY <1>4, AtMostTwo
  <2>2. DOMAIN s = 1 .. Len(s) /\ Len(s) \in Nat /\ \A i \in 1 .. Len(s) : s[i] \in Entries  BY <2>1
  <2>3. \A e \in Entries : Explicit(e) \in Own /\ Inherited(e) \in Taken
    BY <1>3 DEF Explicit, Inherited, Own, Taken
  <2> DEFINE x == [i \in DOMAIN s |-> Explicit(s[i])]
             y == [i \in DOMAIN s |-> Inherited(s[i])]
  <2>4. x \in [1 .. Len(s) -> Own] /\ y \in [1 .. Len(s) -> Taken]  BY <2>2, <2>3
  <2> HIDE DEF x, y
  <2>5. x \in Seq(Own) /\ y \in Seq(Taken)  BY <2>2, <2>4, SeqOfLen
  <2> QED BY <2>5 DEF x, y
<1>5. ASSUME NEW l \in Lists PROVE l \in TheLists
  <2> DEFINE X(s) == [i \in DOMAIN s |-> Explicit(s[i])]
             Y(s) == [i \in DOMAIN s |-> Inherited(s[i])]
             Z(p, t) == IF p THEN <<>> ELSE Y(t)
             U == UpToTwo(Entries)
             Rec(p, s, t) == [protected |-> p, entries |-> X(s) \o Z(p, t)]
  <2>1. Lists = {Rec(p, s, t) : p \in BOOLEAN, s \in U, t \in U}  BY DEF Lists
  <2> HIDE DEF Rec
  <2>2. PICK p \in BOOLEAN, s \in U, t \in U : l = Rec(p, s, t)  BY <1>5, <2>1
  <2>3. X(s) \in Seq(Own) /\ Y(t) \in Seq(Taken)  BY <1>4
  <2> HIDE DEF X, Y
  <2>4. Z(p, t) \in Seq(Taken)  BY <2>3
  <2> HIDE DEF Z
  <2>5. l = [protected |-> p, entries |-> X(s) \o Z(p, t)]  BY <2>2 DEF Rec
  <2> QED BY <1>1, <2>3, <2>4, <2>5
<1> QED BY <1>2, <1>5

LEMMA InitAclInv == Init => AclInv
<1> SUFFICES ASSUME AclInit PROVE AclTypes /\ AclWork
  BY DEF Init, AclInv
<1>1. acl \in [Files -> Lists] /\ acl["target"] \in FewLists
  BY DEF AclInit, Files
<1>2. /\ supported \in [Files -> BOOLEAN] /\ afaults \in 0..MaxAclFaults /\ edited = 0
      /\ astage = "read"
  BY AclConstants DEF AclInit, Files
<1>3. AclWork  BY <1>2 DEF AclWork
<1>4. CASE asys = "windows"
  <2>1. Lists \subseteq TheLists  BY <1>4, FirstLists
  <2>2. acl \in [Files -> TheLists]  BY <1>1, <2>1
  <2>3. acl["target"].entries \in Seq(Entry)  BY <1>4, <2>2, EntriesAre DEF Files
  <2>4. above \in Seq(Taken)  BY <1>4, <2>3, TakesInherited DEF AclInit
  <2> QED BY <1>2, <1>3, <1>4, <2>2, <2>4 DEF AclTypes, AclStages
<1>5. CASE asys # "windows"
  <2>1. Lists \subseteq TheLists  BY <1>5 DEF TheLists, Lists
  <2>2. acl \in [Files -> TheLists]  BY <1>1, <2>1
  <2>3. above = <<>>  BY <1>5 DEF AclInit
  <2> QED BY <1>2, <1>3, <1>5, <2>2, <2>3 DEF AclTypes, AclStages
<1> QED BY <1>4, <1>5

LEMMA OnlyInherited ==
  ASSUME NEW a
  PROVE  [Trivial EXCEPT !.entries = a] = [protected |-> FALSE, entries |-> a]
<1> DEFINE r == [Trivial EXCEPT !.entries = a]
           s == [protected |-> FALSE, entries |-> a]
<1>1. /\ DOMAIN r = {"protected", "entries"} /\ DOMAIN s = {"protected", "entries"}
      /\ r = [x \in DOMAIN r |-> r[x]] /\ s = [x \in DOMAIN s |-> s[x]]
  BY DEF Trivial
<1>2. r.protected = FALSE /\ r.entries = a /\ s.protected = FALSE /\ s.entries = a  BY DEF Trivial
<1> HIDE DEF r, s
<1>3. r = s  BY <1>1, <1>2
<1> QED BY <1>3 DEF r, s

LEMMA NextAclInv == AclInv /\ ModeSafe /\ [Next]_vars => AclInv'
<1> SUFFICES ASSUME AclInv, ModeSafe, [Next]_vars PROVE AclInv'
  OBVIOUS
<1>1. CASE UNCHANGED aclvars
  <2>1. NoAcl' <=> NoAcl  BY <1>1 DEF aclvars, NoAcl, Trivial, Empty, Files
  <2>2. ASSUME AclTypes, AclWork PROVE AclTypes' /\ AclWork'
    <3>1. UNCHANGED <<asys, supported, acl, above, edited, astage, text, afaults, perm, saved,
                      wanted, asked, chmods>>
      BY <1>1 DEF aclvars
    <3>2. AclTypes' /\ \A f \in Files : ToText(f)' = ToText(f)
      BY <2>2, <3>1, ListsKept DEF AclTypes
    <3>3. ToText("source")' = ToText("source") /\ ToText("target")' = ToText("target")
      BY <3>2 DEF Files
    <3>4. AclWork'  BY <2>2, <3>1, <3>3 DEF AclWork, NotSupported, Empty
    <3> QED BY <3>2, <3>4
  <2> QED BY <2>1, <2>2 DEF AclInv
<1>2. ASSUME AclStep \/ Chmod \/ EditAcl PROVE AclInv'
  <2>1. AclTypes /\ AclWork
    <3>1. ASSUME NoAcl PROVE FALSE
      <4>1. astage = "ok"  BY <3>1 DEF NoAcl
      <4> QED BY <1>2, <4>1 DEF AclStep, ReadText, SetFinder, MakeWritable, Retry, Restore, SetPerm,
                    SetAcl, SetUnsupported, StatForStrip, StripAcl, LookAgain, CheckAcl, Chmod, EditAcl
    <3> QED BY <3>1 DEF AclInv
  <2> DEFINE Src == ToText("source")
             Tgt == ToText("target")
  <2>2. /\ "source" \in Files /\ "target" \in Files
        /\ Src = NotSupported <=> ~supported["source"]
        /\ Tgt = NotSupported <=> ~supported["target"]
    BY <2>1, TextIs DEF Files
  <2>3. afaults \in 0..MaxAclFaults /\ edited \in Nat /\ MaxAclFaults \in Nat /\ chmods \in Nat
    BY <2>1, AclConstants DEF AclTypes, ModeSafe
  <2>4. /\ AclFault => afaults' \in 0..MaxAclFaults /\ afaults' > 0
        /\ ~(afaults > 0) <=> afaults = 0
        /\ NotSupported' = NotSupported /\ Empty' = Empty
    BY <2>3 DEF AclFault, NotSupported, Empty
  <2>5. ASSUME UNCHANGED <<asys, supported, acl, above, edited>>,
               astage' \in AclStages, afaults' \in 0..MaxAclFaults
        PROVE  AclTypes' /\ ToText("source")' = Src /\ ToText("target")' = Tgt
    BY <2>1, <2>2, <2>5, ListsKept
  <2>6. ASSUME UNCHANGED <<asys, supported, above>>, edited' \in Nat,
               NEW l \in TheLists, acl' = [acl EXCEPT !["target"] = l],
               astage' \in AclStages, afaults' \in 0..MaxAclFaults
        PROVE  AclTypes' /\ ToText("source")' = Src
               /\ (supported["target"] => ToText("target")' = ListText(l))
    BY <2>1, <2>6, TargetSet
  <2> HIDE DEF Src, Tgt
  <2>7. /\ astage \notin {"read", "failed"} => text = Src
        /\ astage \in {"set", "stat", "strip"} => text # NotSupported
        /\ astage \in {"stat", "strip"} => text = Empty /\ asys = "solaris"
        /\ astage \in {"look", "check"} /\ supported["target"] /\ edited = 0 /\ afaults = 0 =>
             text = NotSupported \/ Tgt = text
        /\ astage \in {"check", "ok"} /\ chmods = 0 => saved = perm
    BY <2>1 DEF AclWork, Src, Tgt
  \* What is left to show of a step that goes on, and of one that raises an exception.
  <2>8. ASSUME AclTypes', ToText("source")' = Src, text' = Src,
               astage' \in {"finder", "chmod", "retry", "restore", "perm"}
        PROVE  AclInv'
    BY <2>4, <2>8 DEF AclInv, AclWork
  <2>9. ASSUME UNCHANGED <<asys, supported, acl, above, edited>>,
               astage' = "failed", afaults' \in 0..MaxAclFaults,
               afaults' > 0 \/ chmods' > 0 \/ edited' > 0 \/ ~supported'["target"] \/ wanted' # asked'
        PROVE  AclInv'
    <3>1. AclTypes'  BY <2>5, <2>9 DEF AclStages
    <3> QED BY <2>9, <3>1 DEF AclInv, AclWork
  <2> USE DEF Go, Environment, Target, Raise
  <2>10. CASE ReadText
    <3>1. CASE Raise  BY <2>4, <2>9, <2>10, <3>1 DEF ReadText
    <3>2. CASE ~Raise
      <4>1. /\ UNCHANGED <<asys, supported, acl, above, edited, afaults>> /\ text' = Src
            /\ astage' \in {"finder", "perm"}
        BY <2>10, <3>2 DEF ReadText, Src
      <4>2. AclTypes' /\ ToText("source")' = Src  BY <2>3, <2>5, <4>1 DEF AclStages
      <4> QED BY <2>8, <4>1, <4>2
    <3> QED BY <3>1, <3>2
  <2>11. CASE SetFinder \/ MakeWritable \/ Retry \/ Restore
    <3>1. /\ UNCHANGED <<asys, supported, acl, above, edited, text>>
          /\ astage \in {"finder", "chmod", "retry", "restore"}
          /\ astage' \in {"perm", "chmod", "retry", "restore", "failed"}
          /\ afaults' \in 0..MaxAclFaults /\ (astage' = "failed" => afaults' > 0)
      BY <2>3, <2>4, <2>11 DEF SetFinder, MakeWritable, Retry, Restore
    <3>2. CASE astage' = "failed"  BY <2>9, <3>1, <3>2
    <3>3. CASE astage' # "failed"
      <4>1. AclTypes' /\ ToText("source")' = Src  BY <2>5, <3>1 DEF AclStages
      <4>2. text' = Src  BY <2>7, <3>1
      <4> QED BY <2>8, <3>1, <3>3, <4>1, <4>2
    <3> QED BY <3>2, <3>3
  <2>12. CASE SetPerm
    <3>1. CASE Raise  BY <2>4, <2>9, <2>12, <3>1 DEF SetPerm
    <3>2. CASE ~Raise
      <4>1. /\ text = Src /\ UNCHANGED <<asys, supported, above, edited, text, afaults>>
            /\ astage' = CASE text = NotSupported -> "look"
                           [] text = Empty /\ asys = "solaris" -> "stat"
                           [] OTHER -> "set"
        BY <2>7, <2>12, <3>2 DEF SetPerm
      <4>2. /\ astage' \in {"look", "stat", "set"} /\ (astage' = "look" <=> text = NotSupported)
            /\ astage' = "stat" => text = Empty /\ asys = "solaris"
        BY <4>1, Kinds
      <4>3. AclTypes' /\ ToText("source")' = Src
        <5>1. CASE acl' = acl  BY <2>3, <2>5, <4>1, <4>2, <5>1 DEF AclStages
        <5>2. CASE asys # "windows" /\ acl' = [acl EXCEPT !["target"] = Trivial]
          <6>1. Trivial \in TheLists  BY <5>2, TrivialIs
          <6> QED BY <2>3, <2>6, <4>1, <4>2, <5>2, <6>1 DEF AclStages
        <5> QED BY <2>12, <3>2, <5>1, <5>2 DEF SetPerm
      <4> QED BY <2>4, <4>1, <4>2, <4>3 DEF AclInv, AclWork
    <3> QED BY <3>1, <3>2
  <2>13. CASE SetAcl
    <3>1. /\ astage = "set" /\ supported["target"] /\ text = Src /\ text # NotSupported
          /\ supported["source"]
          /\ text = ListText(acl["source"]) /\ acl["source"] \in TheLists
      BY <2>1, <2>2, <2>7, <2>13, TextIs DEF SetAcl, Src
    <3>2. /\ FromText(text, above) # {}
          /\ \A l \in FromText(text, above) : l \in TheLists /\ ListText(l) = text
      <4>1. above \in IF asys = "windows" THEN Seq(Taken) ELSE {<<>>}  BY <2>1 DEF AclTypes
      <4> QED BY <3>1, <4>1, SetAsAsked
    <3>3. UNCHANGED <<asys, supported, above, edited, text>>  BY <2>13 DEF SetAcl
    <3>4. \/ \E l \in FromText(text, above) :
               acl' = [acl EXCEPT !["target"] = l] /\ astage' = "look" /\ afaults' = afaults
          \/ acl' = acl /\ astage' \in {"look", "failed"} /\ AclFault
      BY <2>13, <3>2 DEF SetAcl
    <3>5. ASSUME NEW l \in FromText(text, above),
                 acl' = [acl EXCEPT !["target"] = l] /\ astage' = "look" /\ afaults' = afaults
          PROVE  AclInv'
      <4>1. AclTypes' /\ ToText("source")' = Src /\ ToText("target")' = ListText(l)
        BY <2>3, <2>6, <3>1, <3>2, <3>3, <3>5 DEF AclStages
      <4>2. ToText("target")' = text' /\ text' = ToText("source")'  BY <3>1, <3>2, <3>3, <4>1
      <4> QED BY <3>5, <4>1, <4>2 DEF AclInv, AclWork
    <3>6. ASSUME acl' = acl /\ astage' \in {"look", "failed"} /\ AclFault PROVE AclInv'
      <4>1. AclTypes' /\ ToText("source")' = Src  BY <2>4, <2>5, <3>3, <3>6 DEF AclStages
      <4>2. text' = Src /\ afaults' > 0 /\ ~(afaults' = 0)  BY <2>4, <3>1, <3>3, <3>6
      <4> QED BY <3>6, <4>1, <4>2 DEF AclInv, AclWork
    <3> QED BY <3>4, <3>5, <3>6
  <2>14. CASE SetUnsupported
    <3>1. /\ UNCHANGED <<asys, supported, acl, above, edited, text, afaults>> /\ ~supported["target"]
          /\ astage = "set" /\ astage' \in {"look", "failed"}
      BY <2>14 DEF SetUnsupported
    <3>2. AclTypes' /\ ToText("source")' = Src  BY <2>3, <2>5, <3>1 DEF AclStages
    <3>3. text' = Src  BY <2>7, <3>1
    <3> QED BY <3>1, <3>2, <3>3 DEF AclInv, AclWork
  <2>15. CASE StatForStrip
    <3>1. CASE Raise  BY <2>4, <2>9, <2>15, <3>1 DEF StatForStrip
    <3>2. CASE ~Raise
      <4>1. /\ UNCHANGED <<asys, supported, acl, above, edited, text, afaults>>
            /\ astage = "stat" /\ astage' = "strip"
        BY <2>15, <3>2 DEF StatForStrip
      <4>2. AclTypes' /\ ToText("source")' = Src  BY <2>3, <2>5, <4>1 DEF AclStages
      <4> QED BY <2>4, <2>7, <4>1, <4>2 DEF AclInv, AclWork
    <3> QED BY <3>1, <3>2
  <2>16. CASE StripAcl
    <3>1. /\ text = Src /\ text = Empty /\ asys = "solaris" /\ astage = "strip"
          /\ UNCHANGED <<asys, supported, above, edited, text>>
      BY <2>7, <2>16 DEF StripAcl
    <3>2. Trivial \in TheLists /\ ListText(Trivial) = Empty  BY <3>1, TrivialIs
    <3>3. CASE acl' = [acl EXCEPT !["target"] = Trivial] /\ astage' = "look" /\ afaults' = afaults
      <4>1. /\ AclTypes' /\ ToText("source")' = Src
            /\ supported["target"] => ToText("target")' = ListText(Trivial)
        BY <2>3, <2>6, <3>1, <3>2, <3>3 DEF AclStages
      <4>2. /\ text' = ToText("source")' /\ supported' = supported
            /\ supported["target"] => ToText("target")' = text'
        BY <3>1, <3>2, <4>1
      <4> QED BY <3>3, <4>1, <4>2 DEF AclInv, AclWork
    <3>4. CASE acl' = acl /\ astage' = "failed" /\ (AclFault \/ (~supported["target"] /\ afaults' = afaults))
      BY <2>3, <2>4, <2>9, <3>1, <3>4
    <3> QED BY <2>16, <3>3, <3>4 DEF StripAcl
  <2>17. CASE LookAgain
    <3>1. CASE Raise  BY <2>4, <2>9, <2>17, <3>1 DEF LookAgain
    <3>2. CASE ~Raise
      <4>1. /\ UNCHANGED <<asys, supported, acl, above, edited, text, afaults, perm, chmods>>
            /\ astage = "look" /\ astage' = "check" /\ saved' = perm
        BY <2>17, <3>2 DEF LookAgain
      <4>2. AclTypes' /\ ToText("source")' = Src /\ ToText("target")' = Tgt
        BY <2>3, <2>5, <4>1 DEF AclStages
      <4>3. supported'["target"] /\ edited' = 0 /\ afaults' = 0 =>
              text' = NotSupported' \/ ToText("target")' = text'
        BY <2>4, <2>7, <4>1, <4>2
      <4>4. text' = ToText("source")'  BY <2>7, <4>1, <4>2
      <4> QED BY <4>1, <4>2, <4>3, <4>4 DEF AclInv, AclWork
    <3> QED BY <3>1, <3>2
  <2>18. CASE CheckAcl
    <3>1. CASE Raise  BY <2>4, <2>9, <2>18, <3>1 DEF CheckAcl
    <3>2. CASE ~Raise
      <4> DEFINE Fine == (text = NotSupported \/ Tgt = text) /\ saved = asked
      <4>1. /\ UNCHANGED <<asys, supported, acl, above, edited, text, afaults, perm, chmods, saved,
                            asked, wanted>>
            /\ astage = "check" /\ astage' = IF Fine THEN "ok" ELSE "failed"
        BY <2>18, <3>2 DEF CheckAcl, Tgt
      <4>2. AclTypes' /\ ToText("source")' = Src /\ ToText("target")' = Tgt
        BY <2>3, <2>5, <4>1 DEF AclStages
      <4>3. text = Src /\ (chmods = 0 => saved = perm /\ perm = wanted)
        BY <2>7, <4>1 DEF ModeSafe
      <4>4. CASE Fine  BY <2>4, <4>1, <4>2, <4>3, <4>4 DEF AclInv, AclWork
      <4>5. CASE ~Fine
        <5>1. afaults > 0 \/ chmods > 0 \/ edited > 0 \/ ~supported["target"] \/ wanted # asked
          <6>1. SUFFICES ASSUME afaults = 0, chmods = 0, edited = 0, supported["target"]
                         PROVE  wanted # asked
            BY <2>3
          <6>2. text = NotSupported \/ Tgt = text  BY <2>7, <4>1, <6>1
          <6> QED BY <4>3, <4>5, <6>1, <6>2
        <5> QED BY <2>3, <2>9, <4>1, <4>5, <5>1
      <4> QED BY <4>4, <4>5
    <3> QED BY <3>1, <3>2
  <2>19. CASE Chmod
    <3>1. /\ UNCHANGED <<asys, supported, acl, above, edited, text, afaults, astage>>
          /\ chmods' > 0 /\ chmods' # 0 /\ astage \notin {"ok", "failed"}
      BY <2>3, <2>19 DEF Chmod
    <3>2. /\ AclTypes' /\ ToText("source")' = Src /\ ToText("target")' = Tgt
      BY <2>1, <2>3, <2>5, <3>1 DEF AclTypes
    <3> QED BY <2>4, <2>7, <3>1, <3>2 DEF AclInv, AclWork
  <2>20. CASE EditAcl
    <3> DEFINE l == [Trivial EXCEPT !.entries = above]
    <3>1. /\ UNCHANGED <<asys, supported, above, text, afaults, astage, saved, perm, chmods>>
          /\ edited' = edited + 1
          /\ acl' = [acl EXCEPT !["target"] = l] /\ astage \notin {"ok", "failed"}
      BY <2>20 DEF EditAcl
    <3>2. l \in TheLists
      <4>1. l = [protected |-> FALSE, entries |-> above]  BY OnlyInherited
      <4>2. CASE asys = "windows"
        <5>1. above \in Seq(Taken)  BY <2>1, <4>2 DEF AclTypes
        <5>2. <<>> \in Seq(Own) /\ FALSE \in BOOLEAN  OBVIOUS
        <5>3. <<>> \o above = above  BY <5>1
        <5>4. \E p \in BOOLEAN, u \in Seq(Own), v \in Seq(Taken) : l = [protected |-> p, entries |-> u \o v]
          BY <4>1, <5>1, <5>2, <5>3
        <5> QED BY <4>2, <5>4, ListsAre
      <4>3. CASE asys # "windows"
        <5>1. above = <<>>  BY <2>1, <4>3 DEF AclTypes
        <5> QED BY <4>1, <4>3, <5>1, TrivialIs DEF Trivial
      <4> QED BY <4>2, <4>3
    <3> HIDE DEF l
    <3>3. edited' \in Nat /\ edited' > 0 /\ edited' # 0  BY <2>3, <3>1
    <3>4. AclTypes' /\ ToText("source")' = Src
      BY <2>1, <2>3, <2>6, <3>1, <3>2, <3>3 DEF AclTypes
    <3> QED BY <2>4, <2>7, <3>1, <3>3, <3>4 DEF AclInv, AclWork
  <2> QED
    BY <1>2, <2>10, <2>11, <2>12, <2>13, <2>14, <2>15, <2>16, <2>17, <2>18, <2>19, <2>20 DEF AclStep
<1> QED BY <1>1, <1>2 DEF Next, Copies, SetsXattrs, SetsAcl, vars

(* The invariant of access control lists: the text is that of the source,  *)
(* and what is checked after a list was set has that text (props_acl.c).   *)
THEOREM AclInvariant == Spec => []AclInv
<1>1. AclInv /\ ModeSafe /\ [Next]_vars => (AclInv /\ ModeSafe)'  BY NextAclInv, NextModeSafe
<1> QED BY <1>1, InitAclInv, InitModeSafe, PTL DEF Spec

-----------------------------------------------------------------------------
(* Attributes and lists that were set without an error are those that were *)
(* recorded of the source, unless another program changed the target's     *)
(* attributes, or the call for the length of one and another call failed;  *)
(* and the mode is the one asked for (props_xattr.c, props_acl.c and the   *)
(* checks in props.ml).                                                    *)
THEOREM PropertiesApplied == Spec => []Applied
<1>1. AclInv /\ ModeSafe => ListApplied
  <2> SUFFICES ASSUME AclTypes, AclWork, ModeSafe, astage = "ok"
               PROVE  /\ supported["source"] =>
                           OwnEntries(acl["target"]) = OwnEntries(acl["source"])
                      /\ chmods = 0 => perm = asked
    BY DEF AclInv, NoAcl, ListApplied
  <2>1. chmods = 0 => perm = asked  BY DEF AclWork
  <2>2. ASSUME supported["source"] PROVE OwnEntries(acl["target"]) = OwnEntries(acl["source"])
    <3>1. /\ acl["source"] \in TheLists /\ acl["target"] \in TheLists
          /\ ToText("source") = ListText(acl["source"]) /\ ToText("source") # NotSupported
          /\ ToText("target") = IF supported["target"] THEN ListText(acl["target"]) ELSE NotSupported
      BY <2>2, TextIs DEF Files
    <3>2. text = ToText("source") /\ (text = NotSupported \/ ToText("target") = text)
      BY DEF AclWork
    <3>3. ListText(acl["target"]) = ListText(acl["source"])  BY <3>1, <3>2
    <3> QED BY <3>1, <3>3, TextsTell
  <2> QED BY <2>1, <2>2
<1> QED BY <1>1, XattrsSet, AclInvariant, InitModeSafe, NextModeSafe, PTL DEF Applied, Spec

(* The checks after setting properties refuse nothing that was set without *)
(* a failing call and without interference, if the target's file system    *)
(* has attributes and lists, no name begins with user.! on Linux, and the  *)
(* list gives the file the mode asked for.                                 *)
THEOREM NothingRefused == Spec => []NotRefused
<1>1. XattrInv /\ XattrWork /\ AclInv /\ ModeSafe => NotRefused
  <2> SUFFICES ASSUME XattrInv, XattrWork, AclInv, ModeSafe PROVE NotRefused
    OBVIOUS
  <2>1. stage = "failed" =>
          faults > 0 \/ touches["source"] + touches["target"] > 0 \/ odd # {} \/ ~supports["target"]
    <3>1. CASE NoXattrs  BY <3>1 DEF NoXattrs
    <3>2. CASE XattrTypes /\ Work
      <4>1. touches["source"] \in Nat /\ touches["target"] \in Nat /\ faults \in Nat
        BY <3>2 DEF XattrTypes, Files
      <4>2. stage = "failed" => ~Clean  BY <3>2 DEF Work
      <4> QED BY <4>1, <4>2 DEF Clean, Undisturbed
    <3> QED BY <3>1, <3>2 DEF XattrInv, XattrWork
  <2>2. astage = "failed" =>
          afaults > 0 \/ chmods + edited > 0 \/ ~supported["target"] \/ wanted # asked
    <3>1. NoAcl => astage = "ok"  BY DEF NoAcl
    <3>2. CASE AclTypes /\ AclWork
      <4>1. chmods \in Nat /\ edited \in Nat  BY <3>2 DEF AclTypes, ModeSafe
      <4> QED BY <3>2, <4>1 DEF AclWork
    <3> QED BY <3>1, <3>2 DEF AclInv
  <2> QED BY <2>1, <2>2 DEF NotRefused
<1> QED
  BY <1>1, XattrInvariant, InitXattrInv, NextXattrInv, InitXattrWork, NextXattrWork, AclInvariant,
     InitModeSafe, NextModeSafe, PTL DEF Spec

(* Only so many calls fail.                                                *)
LEMMA NextFaults ==
  ASSUME XattrInv, faults <= MaxDisturbances, [Next]_vars
  PROVE  faults' <= MaxDisturbances
<1>1. CASE UNCHANGED xattrvars  BY <1>1 DEF xattrvars
<1>2. CASE XattrStep \/ Touch
  <2>1. XattrTypes  BY <1>2, OnlyThatJob DEF XattrInv
  <2>2. touches["source"] \in Nat /\ touches["target"] \in Nat /\ faults \in Nat /\ MaxDisturbances \in Nat
    BY <2>1, XattrConstants DEF XattrTypes, Files
  <2>3. Fault => faults' <= MaxDisturbances  BY <2>2 DEF Fault, Disturbances
  <2>4. CASE faults' = faults  BY <2>4
  <2>5. CASE ~Fault
    <3>1. Touch \/ NoAttributes \/ Listed \/ Record \/ Load \/ ReadTarget \/ AllSet \/ StartCheck \/ Check
            => faults' = faults
      BY DEF Touch, NoAttributes, Listed, Record, Load, ReadTarget, AllSet, StartCheck, Check
    <3>2. ListSize \/ ListNames => faults' = faults  BY <2>5 DEF ListSize, ListNames
    <3>3. ListLength => faults' = faults  BY <2>5 DEF ListLength
    <3>4. GetLength \/ GetContent => faults' = faults  BY <2>5 DEF GetLength, GetContent
    <3>5. SetOne \/ RemoveOne => faults' = faults  BY <2>5 DEF SetOne, RemoveOne
    <3> QED BY <1>2, <2>4, <3>1, <3>2, <3>3, <3>4, <3>5 DEF XattrStep
  <2> QED BY <2>3, <2>5
<1> QED BY <1>1, <1>2, XattrMoves

(* Every variable keeps its type.                                          *)
THEOREM TypesKept == Spec => []TypeOK
<1>1. CopyInv => CopyTypeOK
  <2> SUFFICES ASSUME CopyTypes PROVE CopyTypeOK
    BY DEF CopyInv
  <2>1. \A i \in DOMAIN dst : dst[i] \in Byte
    <3>1. dst \in Seq(Byte)  BY DEF CopyTypes
    <3>2. DOMAIN dst = 1..Len(dst)  BY <3>1, LenProperties
    <3> QED BY <3>1, <3>2, ElementOfSeq
  <2>2. \A i \in DOMAIN dst : dst[i] \in Stale..MaxLength  BY <2>1 DEF Byte
  <2>3. {outPos, inPos, copied, left} \subseteq Nat  BY DEF CopyTypes
  <2> QED BY <2>2, <2>3 DEF CopyTypes, CopyTypeOK
<1>2. XattrInv /\ faults <= MaxDisturbances => XattrTypeOK
  <2> SUFFICES ASSUME XattrInv, faults <= MaxDisturbances PROVE XattrTypeOK
    OBVIOUS
  <2>1. CASE NoXattrs
    <3>1. /\ stage = "ok" /\ op = "none" /\ try.tries = 0 /\ faults = 0
          /\ \A f \in Files : attrs[f] = <<>>
      BY <2>1 DEF NoXattrs, NoTry
    <3>2. 0 \in 0..MaxTries /\ 0 \in 0..MaxDisturbances  BY XattrConstants
    <3>3. \A f \in Files : DOMAIN attrs[f] = {}  BY <3>1
    <3> QED BY <3>1, <3>2, <3>3 DEF XattrTypeOK
  <2>2. CASE XattrTypes
    <3>1. \A f \in Files : \A k \in DOMAIN attrs[f] : attrs[f][k] \in {Gone} \cup Beginnings
      BY <2>2 DEF XattrTypes
    <3>2. faults \in 0..MaxDisturbances  BY <2>2, XattrConstants DEF XattrTypes
    <3> QED BY <2>2, <3>1, <3>2 DEF XattrTypes, XattrTypeOK, Reading, Ended
  <2> QED BY <2>1, <2>2 DEF XattrInv
<1>3. AclInv /\ ModeSafe => AclTypeOK
  <2> SUFFICES ASSUME AclInv, ModeSafe PROVE AclTypeOK
    OBVIOUS
  <2>1. {perm, saved, wanted, asked} \subseteq Modes  BY DEF ModeSafe
  <2>2. CASE NoAcl
    <3>1. /\ acl = [f \in Files |-> Trivial] /\ astage = "ok" /\ afaults \in 0..MaxAclFaults
      BY <2>2, AclConstants DEF NoAcl
    <3>2. \A f \in DOMAIN acl : DOMAIN acl[f].entries = {}  BY <3>1 DEF Trivial
    <3> QED BY <2>1, <3>1, <3>2 DEF AclTypeOK
  <2>3. CASE AclTypes
    <3>1. DOMAIN acl = Files /\ \A f \in Files : acl[f] \in TheLists  BY <2>3 DEF AclTypes
    <3>2. \A f \in DOMAIN acl : \A i \in DOMAIN acl[f].entries :
            acl[f].entries[i] \in IF asys = "windows" THEN [id : 1..2, inherited : BOOLEAN] ELSE Entries
      <4>1. ASSUME NEW l \in TheLists, NEW i \in DOMAIN l.entries
            PROVE  l.entries[i] \in IF asys = "windows" THEN [id : 1..2, inherited : BOOLEAN] ELSE Entries
        <5>1. CASE asys = "windows"
          <6>1. l.entries \in Seq(Entry)  BY <5>1, EntriesAre
          <6>2. DOMAIN l.entries = 1 .. Len(l.entries)  BY <6>1, LenProperties
          <6>3. l.entries[i] \in Entry  BY <6>1, <6>2, ElementOfSeq
          <6> QED BY <5>1, <6>3 DEF Entry
        <5>2. CASE asys # "windows"
          <6>1. PICK s \in UpToTwo(Entries) : l = [protected |-> FALSE, entries |-> s]  BY <5>2, ListsAre
          <6>2. l.entries = s /\ s \in Seq(Entries)  BY <6>1, AtMostTwo
          <6> QED BY <5>2, <6>2
        <5> QED BY <5>1, <5>2
      <4> QED BY <3>1, <4>1
    <3> QED BY <2>1, <2>3, <3>2 DEF AclTypes, AclTypeOK, AclStages
  <2> QED BY <2>2, <2>3 DEF AclInv
<1>4. Init => faults <= MaxDisturbances  BY XattrConstants DEF Init, XattrInit, NoXattrs
<1>5. XattrInv /\ faults <= MaxDisturbances /\ [Next]_vars => (faults <= MaxDisturbances)'
  BY NextFaults
<1> QED
  BY <1>1, <1>2, <1>3, <1>4, <1>5, CopyInvariant, InitXattrInv, NextXattrInv, AclInvariant,
     InitModeSafe, NextModeSafe, PTL DEF Spec, TypeOK

=============================================================================
