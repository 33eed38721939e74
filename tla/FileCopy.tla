------------------------------ MODULE FileCopy ------------------------------
(***************************************************************************)
(* Copying the contents of a file inside one host (copy.ml) with the calls *)
(* each system has for it (copy_stubs.c).                                  *)
(*                                                                         *)
(* A local copy tries to clone the file by its path, then by descriptor,   *)
(* then lets the kernel copy it piece after piece, and at last reads and   *)
(* writes.  The rsync decompressor copies blocks of the old file in the    *)
(* same way, in between strings it writes through the buffer of the        *)
(* output channel.  Another program may change the file that is copied.    *)
(*                                                                         *)
(* A byte of the target is the offset (from 1) it was copied from, a byte  *)
(* of a string a negative number, 0 where nothing was written, and Stale   *)
(* what the decompressor's buffer has held before.                         *)
(***************************************************************************)
EXTENDS Integers, Sequences, FiniteSetsExt

CONSTANTS
  CopySystems,  \* the systems that are considered
  FileLengths,  \* the lengths of the file when the copy was decided
  MaxLength,    \* no longer file
  Chunk,        \* copy_size: the kernel is asked to copy that much at a time
  Cluster,      \* the cluster size of the Windows file system
  MaxEdits      \* other programs change the file that often

ASSUME CopyConstants ==
  /\ FileLengths \subseteq 0..MaxLength /\ MaxLength \in Nat
  /\ Chunk \in Nat \ {0} /\ Cluster \in Nat \ {0} /\ MaxEdits \in Nat

VARIABLES
  system,     \* the operating system
  mode,       \* "local" or "rsync"
  fileLength, \* the length of the file when the copy was decided
  pc,         \* what the copy does now
  pieces,     \* the strings and blocks still to be written, the current one first
  srcLen,     \* the length of the file that is copied
  edits,      \* how often it changed
  dst,        \* the target
  outPos,     \* the offset of the output descriptor
  buffer,     \* what the output channel holds back
  inPos,      \* the offset of the input channel
  copied,     \* what copy_file has copied of the block
  left        \* what the read-write loop has to copy

copyvars == <<system, mode, fileLength, pc, pieces, srcLen, edits, dst, outPos, buffer,
              inPos, copied, left>>

String(j) == [kind |-> "string", off |-> -j, len |-> 1]
Block(off, len) == [kind |-> "block", off |-> off, len |-> len]

Plan(m) == IF m = "local" THEN <<Block(0, fileLength)>>
           ELSE <<String(1), Block(1, fileLength - 1), String(2), Block(0, 1)>>

(* The byte the target should have at i.                                   *)
Expected(i) ==
  IF mode = "local" THEN i
  ELSE CASE i = 1 -> -1
         [] i \in 2..fileLength -> i
         [] i = fileLength + 1 -> -2
         [] i = fileLength + 2 -> 1
         [] OTHER -> 0

GoalLength == IF mode = "local" THEN fileLength ELSE fileLength + 2

CopyInit ==
  /\ system \in CopySystems /\ fileLength \in FileLengths
  /\ mode \in IF fileLength < 2 THEN {"local"} ELSE {"local", "rsync"}
  /\ pc = IF mode = "rsync" THEN "piece" ELSE "path"
  /\ pieces = Plan(mode)
  /\ srcLen = fileLength /\ edits = 0
  /\ dst = <<>> /\ outPos = 0 /\ buffer = <<>>
  /\ inPos = 0 /\ copied = 0 /\ left = 0

-----------------------------------------------------------------------------
Least(m, n) == IF m <= n THEN m ELSE n

(* The n bytes of the file after offset off; nothing follows its end.      *)
Bytes(off, n) == [i \in 1..n |-> IF off + i <= srcLen THEN off + i ELSE 0]

(* What a byte beyond the end is in the buffer of the decompressor.        *)
Stale == -3

(* The file d with bytes written at pos.                                   *)
Written(d, pos, bytes) ==
  [i \in 1..Max({Len(d), pos + Len(bytes)}) |->
     IF i \in pos + 1..pos + Len(bytes) THEN bytes[i - pos]
     ELSE IF i <= Len(d) THEN d[i] ELSE 0]

block == Head(pieces)
offset == block.off + copied
len == Least(Chunk, block.len - copied)
available == Max({0, Least(len, srcLen - offset)})

(* What a call that copies up to len bytes may copy: nothing at the end.   *)
Counts == IF available = 0 THEN {0} ELSE 1..available

Source == <<system, mode, fileLength, srcLen, edits>>
Channels == <<buffer, inPos, left>>

(* Mutant: a short count is taken for the end of the file.                 *)
CopiedShort(n) ==
  /\ dst' = Written(dst, outPos, Bytes(offset, n))
  /\ outPos' = outPos + n
  /\ IF n < len \/ copied + n = block.len
     THEN pieces' = Tail(pieces) /\ pc' = "piece" /\ copied' = 0
     ELSE pc' = "range" /\ copied' = copied + n /\ UNCHANGED pieces
  /\ UNCHANGED <<Source, Channels>>

(* Mutant: a count of 0 does not end the loop.                             *)
CopiedOn(n) ==
  /\ dst' = Written(dst, outPos, Bytes(offset, n))
  /\ outPos' = outPos + n
  /\ IF copied + n = block.len
     THEN pieces' = Tail(pieces) /\ pc' = "piece" /\ copied' = 0
     ELSE pc' = "range" /\ copied' = copied + n /\ UNCHANGED pieces
  /\ UNCHANGED <<Source, Channels>>

(* copyFileAux got n bytes copied and goes on, unless that is all or the   *)
(* file has ended.                                                         *)
Copied(n) ==
  /\ dst' = Written(dst, outPos, Bytes(offset, n))
  /\ outPos' = outPos + n
  /\ IF n = 0 \/ copied + n = block.len
     THEN pieces' = Tail(pieces) /\ pc' = "piece" /\ copied' = 0
     ELSE pc' = "range" /\ copied' = copied + n /\ UNCHANGED pieces
  /\ UNCHANGED <<Source, Channels>>

(* Mutant: the input channel is left where it is.                          *)
FallbackStays ==
  /\ pc' = "read"
  /\ inPos' = IF mode = "rsync" THEN offset ELSE inPos
  /\ left' = IF mode = "rsync" THEN block.len - copied ELSE fileLength

(* copy_file raised an exception, whatever had been copied: the rest is    *)
(* read and written.  For a local copy the channel is moved only if it     *)
(* must, and the loop is bounded by the whole length.                      *)
Fallback ==
  /\ pc' = "read"
  /\ inPos' = IF mode = "rsync" \/ copied # 0 THEN offset ELSE inPos
  /\ left' = IF mode = "rsync" THEN block.len - copied ELSE fileLength

(* The call failed and moved no offset.                                    *)
Fails == Fallback /\ UNCHANGED <<Source, pieces, dst, outPos, buffer, copied>>

-----------------------------------------------------------------------------
(* unison_clone_path: clonefile clones all of it or nothing (Darwin).      *)
ClonePath ==
  /\ pc = "path"
  /\ \/ /\ system = "darwin"
        /\ pc' = "ok" /\ dst' = Bytes(0, srcLen)
     \/ pc' = "file" /\ UNCHANGED dst
  /\ UNCHANGED <<Source, pieces, outPos, Channels, copied>>

(* unison_clone_file: the FICLONE request moves no offset (Linux).  Then   *)
(* the progress is shown, and the user may have aborted.                   *)
CloneFile ==
  /\ pc = "file"
  /\ \/ /\ system = "linux"
        /\ pc' \in {"ok", "failed"} /\ dst' = Bytes(0, srcLen)
     \/ pc' = "piece" /\ UNCHANGED dst
  /\ UNCHANGED <<Source, pieces, outPos, Channels, copied>>

(* Mutant: the buffer is not flushed.                                      *)
NextPieceUnflushed ==
  /\ pc = "piece" /\ pieces # <<>>
  /\ IF block.kind = "string"
     THEN buffer' = Append(buffer, block.off) /\ pieces' = Tail(pieces) /\ UNCHANGED pc
     ELSE pc' = "range" /\ UNCHANGED <<pieces, buffer>>
  /\ UNCHANGED <<Source, dst, outPos, inPos, left, copied>>

(* A string goes to the buffer; before a block the buffer is flushed, as   *)
(* the descriptor under the channel is going to be used.                   *)
NextPiece ==
  /\ pc = "piece" /\ pieces # <<>>
  /\ IF block.kind = "string"
     THEN /\ buffer' = Append(buffer, block.off) /\ pieces' = Tail(pieces)
          /\ UNCHANGED <<pc, dst, outPos>>
     ELSE /\ dst' = Written(dst, outPos, buffer)
          /\ outPos' = outPos + Len(buffer) /\ buffer' = <<>>
          /\ IF block.len = 0 THEN pieces' = Tail(pieces) /\ UNCHANGED pc
             ELSE pc' = "range" /\ UNCHANGED pieces
  /\ UNCHANGED <<Source, inPos, left, copied>>

(* The channels are closed, the output one is flushed first.               *)
CloseFiles ==
  /\ pc = "piece" /\ pieces = <<>>
  /\ dst' = Written(dst, outPos, buffer)
  /\ outPos' = outPos + Len(buffer) /\ buffer' = <<>>
  /\ pc' = "ok"
  /\ UNCHANGED <<Source, pieces, inPos, left, copied>>

(* Linux: copy_file_range; where it does not work, sendfile.               *)
LinuxCopy ==
  /\ system = "linux"
  /\ \/ pc = "range" /\ pc' = "sendfile"
        /\ UNCHANGED <<Source, pieces, dst, outPos, Channels, copied>>
     \/ pc \in {"range", "sendfile"} /\ (Fails \/ \E n \in Counts : Copied(n))

(* FreeBSD: copy_file_range, which old versions do not have.               *)
FreeBSDCopy ==
  system = "freebsd" /\ pc = "range" /\ (Fails \/ \E n \in Counts : Copied(n))

(* Mutant: a failure is a failure, whatever has been copied.               *)
SolarisCopyFails ==
  /\ system = "solaris" /\ pc = "range"
  /\ \/ \E n \in Counts : Copied(n)
     \/ \E n \in 0..available :
          /\ dst' = Written(dst, outPos, Bytes(offset, n)) /\ outPos' = outPos + n
          /\ Fallback /\ UNCHANGED <<Source, pieces, buffer, copied>>

(* Solaris: sendfile may fail after it has copied something, which then is *)
(* reported as a success.                                                  *)
SolarisCopy ==
  /\ system = "solaris" /\ pc = "range"
  /\ \/ \E n \in Counts : Copied(n)
     \/ \E n \in 0..available : IF n > 0 THEN Copied(n) ELSE Fails

(* The region that Windows is asked to clone is made of whole clusters.    *)
ByteCount == len + (Cluster - (len % Cluster))
WholeClusters(n) == ((n + Cluster - 1) \div Cluster) * Cluster

(* Windows: both volumes must support cloning, and the offsets be at a     *)
(* cluster; then the target is extended, if it is too short.               *)
WindowsPrepares ==
  /\ system = "windows" /\ pc = "range"
  /\ \/ Fails
     \/ /\ offset % Cluster = 0 /\ outPos % Cluster = 0
        /\ dst' = Written(dst, outPos + len, <<>>)
        /\ pc' = "duplicate" /\ UNCHANGED <<Channels>>
        /\ UNCHANGED <<Source, pieces, outPos, copied>>
     \/ /\ offset % Cluster = 0 /\ outPos % Cluster = 0
        /\ dst' = Written(dst, outPos + len, <<>>)
        /\ Fallback
        /\ UNCHANGED <<Source, pieces, outPos, buffer, copied>>

(* Windows clones the region, if it is in both files, and leaves the       *)
(* offset to the program.                                                  *)
WindowsDuplicates ==
  /\ system = "windows" /\ pc = "duplicate"
  /\ \/ Fails
     \/ /\ offset + ByteCount <= WholeClusters(srcLen)
        /\ outPos + ByteCount <= WholeClusters(Len(dst))
        /\ \/ Copied(len)
           \/ /\ dst' = Written(dst, outPos, Bytes(offset, len))
              /\ Fallback
              /\ UNCHANGED <<Source, pieces, outPos, buffer, copied>>

(* The other systems have no such call.                                    *)
OtherCopy == system \in {"darwin", "other"} /\ pc = "range" /\ Fails

(* readWriteBounded ends at the end of the file.  Reading may fail.        *)
ReadWriteBounded ==
  /\ pc = "read" /\ mode = "local"
  /\ LET max == Least(left, srcLen - inPos) IN
     \/ \E n \in 1..max :
          /\ buffer' = buffer \o Bytes(inPos, n)
          /\ inPos' = inPos + n /\ left' = left - n
          /\ UNCHANGED <<pc, pieces, copied>>
     \/ /\ max <= 0
        /\ pc' = "piece" /\ pieces' = Tail(pieces) /\ copied' = 0
        /\ UNCHANGED Channels
     \/ /\ left > 0 /\ pc' = "failed"
        /\ UNCHANGED <<Channels, pieces, copied>>
  /\ UNCHANGED <<Source, dst, outPos>>

(* copyBlocks' of the decompressor reads as much as there is, n bytes at a *)
(* time, and writes n bytes in any case.                                   *)
CopyBlocks ==
  /\ pc = "read" /\ mode = "rsync"
  /\ \/ \E n \in 1..left :
          LET read == Max({0, Least(n, srcLen - inPos)}) IN
          /\ buffer' = buffer \o [i \in 1..n |-> IF i <= read THEN inPos + i ELSE Stale]
          /\ inPos' = inPos + read /\ left' = left - n
          /\ UNCHANGED <<pc, pieces, copied>>
     \/ /\ left = 0
        /\ pc' = "piece" /\ pieces' = Tail(pieces) /\ copied' = 0
        /\ UNCHANGED Channels
     \/ /\ left > 0 /\ pc' = "failed"
        /\ UNCHANGED <<Channels, pieces, copied>>
  /\ UNCHANGED <<Source, dst, outPos>>

(* The user aborts: noticed when progress is shown, between the calls of a *)
(* local copy, and between the pieces of the decompressor.                 *)
Aborted ==
  /\ \/ mode = "local" /\ pc = "range" /\ copied > 0
     \/ mode = "local" /\ pc = "read" /\ inPos > 0
     \/ pc = "piece" /\ (mode = "rsync" \/ pieces = <<>>)
  /\ pc' = "failed"
  /\ UNCHANGED <<Source, pieces, dst, outPos, Channels, copied>>

(* Another program changes the length of the file.                         *)
Edit ==
  /\ edits < MaxEdits /\ pc \notin {"ok", "failed"}
  /\ srcLen' \in (0..MaxLength) \ {srcLen} /\ edits' = edits + 1
  /\ UNCHANGED <<system, mode, fileLength, pc, pieces, dst, outPos, Channels, copied>>

CopyStep ==
  \/ ClonePath \/ CloneFile \/ NextPiece \/ CloseFiles
  \/ LinuxCopy \/ FreeBSDCopy \/ SolarisCopy
  \/ WindowsPrepares \/ WindowsDuplicates \/ OtherCopy
  \/ ReadWriteBounded \/ CopyBlocks \/ Aborted

-----------------------------------------------------------------------------
CopyTypeOK ==
  /\ pc \in {"path", "file", "piece", "range", "sendfile", "duplicate", "read",
             "ok", "failed"}
  /\ srcLen \in 0..MaxLength /\ edits \in 0..MaxEdits
  /\ {outPos, inPos, copied, left} \subseteq Nat
  /\ \A i \in DOMAIN dst : dst[i] \in Stale..MaxLength

=============================================================================
