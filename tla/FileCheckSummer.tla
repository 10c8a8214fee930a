--------------------------- MODULE FileCheckSummer ---------------------------
(***************************************************************************)
(* The sliding window of FileCheckSummer (src/src/filechecksummer.cpp and  *)
(* .h): ScanDataFile moves a window of BlockSize bytes along a disk file,  *)
(* one byte (Step) or up to one block (Jump) at a time, over a buffer of   *)
(* two blocks that Fill tops up from disk.                                 *)
(*                                                                         *)
(* Pointers into the buffer are indices 0 .. 2*BlockSize.  A checksum is   *)
(* represented by the window of bytes it is the CRC of, and an MD5 context *)
(* by the sequence of bytes it was fed: equal values stand for equal CRCs  *)
(* and hashes, so the model says which bytes are summed, not how.          *)
(***************************************************************************)
EXTENDS Integers, Sequences

CONSTANTS
  BlockSize,     \* bytes of a block, the width of the window
  Byte,          \* the values of a byte
  Zero,          \* the byte 0, used to blank the buffer
  Uninit,        \* what a byte of the new[]ed buffer holds before it is written
  Stray,         \* an entry of a checksum that is the CRC of no window
  FileContents,  \* the files scanned
  Distance,      \* the distances callers ask Jump for, 1 (a Step) apart
  Limit16k       \* 16384, where the hash of the first 16k ends

ASSUME BlockSizeAssumption == BlockSize \in Nat \ {0}
ASSUME ByteAssumption == Zero \in Byte /\ Uninit \notin Byte
ASSUME FileAssumption == FileContents \subseteq Seq(Byte) \ {<<>>}
ASSUME DistanceAssumption == Distance \subseteq Nat \ {0, 1}
ASSUME LimitAssumption == Limit16k \in Nat \ {0}

VARIABLES
  content,            \* the bytes of the disk file; they do not change during a scan
  computefilehashes,  \* whether this scan computes the hashes of the file
  currentoffset, buffer, outpointer, inpointer, tailpointer, readoffset,
  checksum, context16k, contextfull,
  status              \* "new" before Start, "scanning", "failed" after a read error

vars == <<content, computefilehashes, currentoffset, buffer, outpointer, inpointer,
          tailpointer, readoffset, checksum, context16k, contextfull, status>>

Index == 0 .. 2 * BlockSize - 1
Window == 0 .. BlockSize - 1
BufferByte == Byte \union {Uninit}

filesize == Len(content)
Least(a, b) == IF a <= b THEN a ELSE b

BlockLength == Least(BlockSize, filesize - currentoffset)

(* The CRC of the window that starts at the front of the buffer b.         *)
BlockChecksum(b) == [i \in Window |-> b[i]]

(* CRCSlideChar: right only when outch is the byte the CRC began with.     *)
SlideChecksum(crc, inch, outch) ==
  IF crc[0] = outch
  THEN [i \in Window |-> IF i = BlockSize - 1 THEN inch ELSE crc[i + 1]]
  ELSE [i \in Window |-> Stray]

Init ==
  /\ content \in FileContents
  /\ computefilehashes \in BOOLEAN
  /\ buffer = [i \in Index |-> Uninit]
  /\ currentoffset = 0 /\ readoffset = 0
  /\ outpointer = 0 /\ inpointer = 0 /\ tailpointer = 0
  /\ checksum = [i \in Window |-> Stray]
  /\ context16k = <<>> /\ contextfull = <<>>
  /\ status = "new"

-----------------------------------------------------------------------------
(* Fill, called with the buffer and the tail as its caller has left them.  *)

FillSkipped(tail, from, longfill) ==
  from >= filesize \/ (tail >= BlockSize /\ ~longfill)

FillTarget(tail) == IF tail = 0 THEN BlockSize ELSE 2 * BlockSize
FillWant(tail, from) == Least(filesize - from, FillTarget(tail) - tail)

(* The data read goes in at the tail, and the rest up to the target is     *)
(* blanked.                                                                *)
FilledBuffer(b, tail, from) ==
  [i \in Index |->
    IF i < tail \/ i >= FillTarget(tail) THEN b[i]
    ELSE IF i < tail + FillWant(tail, from) THEN content[from + (i - tail) + 1]
    ELSE Zero]

(* The buffer, the tail and the next read offset after a Fill succeeds.    *)
AfterFill(b, tail, from, longfill) ==
  IF FillSkipped(tail, from, longfill) THEN b ELSE FilledBuffer(b, tail, from)

TailAfterFill(tail, from, longfill) ==
  IF FillSkipped(tail, from, longfill) THEN tail ELSE tail + FillWant(tail, from)

ReadAfterFill(tail, from, longfill) ==
  from + (TailAfterFill(tail, from, longfill) - tail)

(* Mutant: the hash of the whole file does not go on from that of its      *)
(* first 16k.                                                              *)
UpdateHashesSeparately(offset, data) ==
  LET reaches == offset < Limit16k /\ offset + Len(data) >= Limit16k
      first == Limit16k - offset
  IN  /\ context16k' = IF offset >= Limit16k THEN context16k
                       ELSE IF reaches THEN context16k \o SubSeq(data, 1, first)
                       ELSE context16k \o data
      /\ contextfull' = IF offset >= Limit16k THEN contextfull \o data
                        ELSE IF reaches THEN SubSeq(data, first + 1, Len(data))
                        ELSE contextfull

UpdateHashes(offset, data) ==
  LET reaches == offset < Limit16k /\ offset + Len(data) >= Limit16k
      first == Limit16k - offset
  IN  /\ context16k' = IF offset >= Limit16k THEN context16k
                       ELSE IF reaches THEN context16k \o SubSeq(data, 1, first)
                       ELSE context16k \o data
      /\ contextfull' = IF offset >= Limit16k THEN contextfull \o data
                        ELSE IF reaches
                        THEN context16k' \o SubSeq(data, first + 1, Len(data))
                        ELSE contextfull

(* What a Fill that succeeds does to the hashes of the file.               *)
HashFill(tail, from, longfill) ==
  IF computefilehashes /\ ~FillSkipped(tail, from, longfill)
  THEN UpdateHashes(from, SubSeq(content, from + 1, from + FillWant(tail, from)))
  ELSE UNCHANGED <<context16k, contextfull>>

(* A Fill whose DiskFile::Read fails: every caller gives the scan up.      *)
FillFails(tail, from, longfill) ==
  /\ ~FillSkipped(tail, from, longfill)
  /\ FillWant(tail, from) > 0
  /\ status' = "failed"
  /\ tailpointer' = tail /\ readoffset' = from
  /\ UNCHANGED <<checksum, context16k, contextfull>>

-----------------------------------------------------------------------------
(* ScanDataFile starts at 0, and once for every later range it searches;   *)
(* a later range starts beyond the place the scan has reached.             *)
StartAt(offset) ==
  /\ status # "failed"
  /\ status = "scanning" => ~computefilehashes /\ offset > currentoffset
  /\ computefilehashes => offset = 0
  /\ currentoffset' = offset
  /\ outpointer' = 0 /\ inpointer' = BlockSize
  /\ \/ /\ buffer' = AfterFill(buffer, 0, offset, FALSE)
        /\ tailpointer' = TailAfterFill(0, offset, FALSE)
        /\ readoffset' = ReadAfterFill(0, offset, FALSE)
        /\ HashFill(0, offset, FALSE)
        /\ checksum' = BlockChecksum(buffer')
        /\ status' = "scanning"
     \/ FillFails(0, offset, FALSE) /\ UNCHANGED buffer
  /\ UNCHANGED <<content, computefilehashes>>

Start == \E offset \in 0 .. filesize - 1 : StartAt(offset)

(* Mutant: the end of the file is not recorded.                            *)
ReachEndUnnoticed ==
  /\ tailpointer' = 0 /\ outpointer' = 0
  /\ buffer' = [i \in Index |-> IF i < BlockSize THEN Zero ELSE buffer[i]]
  /\ checksum' = [i \in Window |-> Stray]
  /\ UNCHANGED <<currentoffset, inpointer, readoffset, context16k, contextfull, status>>

(* The window has reached the end of the file, in Step and in Jump.        *)
ReachEnd ==
  /\ currentoffset' = filesize
  /\ tailpointer' = 0 /\ outpointer' = 0
  /\ buffer' = [i \in Index |-> IF i < BlockSize THEN Zero ELSE buffer[i]]
  /\ checksum' = [i \in Window |-> Stray]
  /\ UNCHANGED <<inpointer, readoffset, context16k, contextfull, status>>

(* Mutants: the buffer's halves are exchanged one byte late, and without   *)
(* the tail moving with them.                                              *)
SlideOverLate(b, tail) ==
  LET slides == outpointer = BlockSize
  IN  /\ checksum' = SlideChecksum(checksum, b[inpointer], b[outpointer])
      /\ outpointer' = IF slides THEN 0 ELSE outpointer + 1
      /\ inpointer' = IF slides THEN BlockSize ELSE inpointer + 1
      /\ buffer' = IF slides
                   THEN [i \in Index |-> IF i < BlockSize THEN b[i + BlockSize] ELSE b[i]]
                   ELSE b
      /\ tailpointer' = IF slides THEN tail - BlockSize ELSE tail

SlideOverLeavingTail(b, tail) ==
  LET slides == outpointer + 1 = BlockSize
  IN  /\ checksum' = SlideChecksum(checksum, b[inpointer], b[outpointer])
      /\ outpointer' = IF slides THEN 0 ELSE outpointer + 1
      /\ inpointer' = IF slides THEN BlockSize ELSE inpointer + 1
      /\ buffer' = IF slides
                   THEN [i \in Index |-> IF i < BlockSize THEN b[i + BlockSize] ELSE b[i]]
                   ELSE b
      /\ tailpointer' = tail

(* The window moves on by one byte over the buffer b, and when it has      *)
(* moved a whole block the second half of the buffer becomes the first.    *)
SlideOver(b, tail) ==
  LET slides == outpointer + 1 = BlockSize
  IN  /\ checksum' = SlideChecksum(checksum, b[inpointer], b[outpointer])
      /\ outpointer' = IF slides THEN 0 ELSE outpointer + 1
      /\ inpointer' = IF slides THEN BlockSize ELSE inpointer + 1
      /\ buffer' = IF slides
                   THEN [i \in Index |-> IF i < BlockSize THEN b[i + BlockSize] ELSE b[i]]
                   ELSE b
      /\ tailpointer' = IF slides THEN tail - BlockSize ELSE tail

(* Mutant: Fill is called one byte late.                                   *)
StepFillsLate == tailpointer < inpointer

(* Step calls Fill only when the incoming byte is not buffered yet.        *)
StepFills == tailpointer <= inpointer

StepInside ==
  \/ /\ StepFills
     /\ SlideOver(AfterFill(buffer, tailpointer, readoffset, TRUE),
                  TailAfterFill(tailpointer, readoffset, TRUE))
     /\ readoffset' = ReadAfterFill(tailpointer, readoffset, TRUE)
     /\ HashFill(tailpointer, readoffset, TRUE)
     /\ UNCHANGED status
  \/ /\ ~StepFills
     /\ SlideOver(buffer, tailpointer)
     /\ UNCHANGED <<readoffset, context16k, contextfull, status>>
  \/ /\ StepFills
     /\ FillFails(tailpointer, readoffset, TRUE)
     /\ UNCHANGED <<buffer, outpointer, inpointer>>

Step ==
  /\ status = "scanning" /\ currentoffset < filesize
  /\ \/ currentoffset + 1 >= filesize /\ ReachEnd
     \/ /\ currentoffset + 1 < filesize
        /\ currentoffset' = currentoffset + 1
        /\ StepInside
  /\ UNCHANGED <<content, computefilehashes>>

(* Mutant: a jump goes as far as it is asked to.                           *)
JumpDistanceUncapped(distance) == distance

(* Not allowed to jump more than one block.                                *)
JumpDistance(distance) == Least(distance, BlockSize)

(* Mutant: the data that is kept stays where it was.                       *)
KeptBufferUnmoved(b, from, keep) == b

(* memmove of the data that is kept to the front of the buffer.            *)
KeptBuffer(b, from, keep) ==
  [i \in Index |-> IF i < keep THEN b[from + i] ELSE b[i]]

JumpInside(distance) ==
  LET out == outpointer + distance
      keep == tailpointer - out
      kept == KeptBuffer(buffer, out, keep)
  IN  /\ outpointer' = 0 /\ inpointer' = BlockSize
      /\ \/ /\ buffer' = AfterFill(kept, keep, readoffset, FALSE)
            /\ tailpointer' = TailAfterFill(keep, readoffset, FALSE)
            /\ readoffset' = ReadAfterFill(keep, readoffset, FALSE)
            /\ HashFill(keep, readoffset, FALSE)
            /\ checksum' = BlockChecksum(buffer')
            /\ UNCHANGED status
         \/ FillFails(keep, readoffset, FALSE) /\ buffer' = kept

Jump(asked) ==
  LET distance == JumpDistance(asked)
  IN  /\ status = "scanning" /\ currentoffset < filesize
      /\ \/ currentoffset + distance >= filesize /\ ReachEnd
         \/ /\ currentoffset + distance < filesize
            /\ currentoffset' = currentoffset + distance
            /\ JumpInside(distance)
      /\ UNCHANGED <<content, computefilehashes>>

Next == Start \/ Step \/ \E d \in Distance : Jump(d)

Spec == Init /\ [][Next]_vars

(* ScanDataFile loops until the window has reached the end of its range,   *)
(* stepping or jumping each time round: no iteration waits for anything.   *)
FairSpec == Spec /\ WF_vars(Next)

-----------------------------------------------------------------------------
Scanning == status = "scanning" /\ currentoffset < filesize

(* Every variable has its type.                                            *)
TypeOK ==
  /\ content \in FileContents
  /\ computefilehashes \in BOOLEAN
  /\ currentoffset \in 0 .. filesize
  /\ readoffset \in 0 .. filesize
  /\ buffer \in [Index -> BufferByte]
  /\ outpointer \in Window
  /\ inpointer \in Index
  /\ tailpointer \in 0 .. 2 * BlockSize
  /\ checksum \in [Window -> BufferByte \union {Stray}]
  /\ context16k \in Seq(Byte) /\ contextfull \in Seq(Byte)
  /\ status \in {"new", "scanning", "failed"}

(* The three pointers and the two offsets agree: the window is one block   *)
(* wide, what is buffered beyond the window's start is exactly what was    *)
(* read beyond the current offset, and a whole block of it is there unless *)
(* the file has no more (Start, Step, Jump and Fill each move some of the  *)
(* five, never all).                                                       *)
PointersAgree ==
  Scanning =>
    /\ inpointer = outpointer + BlockSize
    /\ outpointer <= tailpointer
    /\ readoffset - currentoffset = tailpointer - outpointer
    /\ tailpointer - outpointer >= BlockLength

(* What the scan compares with the block table is data of the file: the    *)
(* first BlockLength bytes of the window are the file's bytes at the       *)
(* current offset, whatever sequence of steps and jumps led there.         *)
WindowShowsFile ==
  Scanning => \A i \in 0 .. BlockLength - 1 :
                buffer[outpointer + i] = content[currentoffset + i + 1]

(* The rolling checksum is the CRC of the window: the assertion that       *)
(* CRCSlideChar's comment makes (crc.h:95), after any mixture of steps,    *)
(* jumps and refills, and although Fill rewrites the buffer under it.      *)
ChecksumTracksWindow ==
  Scanning => \A i \in Window : checksum[i] = buffer[outpointer + i]

(* When the window has reached the end of the file, the whole of it has    *)
(* been hashed, each byte once and in order, and so have its first 16k, on *)
(* whichever side of the 16k mark the reads fell (GetFileHashes).          *)
HashesCoverFile ==
  (status = "scanning" /\ computefilehashes /\ currentoffset = filesize) =>
    /\ context16k = SubSeq(content, 1, Least(filesize, Limit16k))
    /\ (IF filesize < Limit16k THEN context16k ELSE contextfull) = content

(* assert(outpointer <= tailpointer) of Jump, for the next jump there is.  *)
JumpStaysInBuffer ==
  Scanning => \A d \in Distance :
    currentoffset + JumpDistance(d) < filesize
      => outpointer + JumpDistance(d) <= tailpointer

(* A scan never goes back, and no call passes over more than one block: a  *)
(* block of the file is always looked at with some window that begins in   *)
(* it or at its start.                                                     *)
MovesAtMostOneBlock ==
  [][ (status = "scanning" /\ ~Start) => /\ currentoffset' > currentoffset
                             /\ currentoffset' <= currentoffset + BlockSize ]_vars

(* The scan loop ends: it reaches the end of the file or a read fails.     *)
ScanEnds == <>(status = "failed" \/ (status = "scanning" /\ currentoffset = filesize))

(* Claimed by "Blank the rest of the buffer" (filechecksummer.cpp:171):    *)
(* beyond the end of the file the window holds zeros, which is what the    *)
(* checksum of a last, short block is defined over.                        *)
WindowZeroPadded ==
  Scanning => \A i \in BlockLength .. BlockSize - 1 : buffer[outpointer + i] = Zero

=============================================================================
