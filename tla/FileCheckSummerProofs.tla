------------------------ MODULE FileCheckSummerProofs ------------------------
(***************************************************************************)
(* The scan window shows the file: proofs about FileCheckSummer for every  *)
(* block size, file, sequence of calls and read failure.                   *)
(***************************************************************************)
EXTENDS FileCheckSummer, SequenceTheorems, TLAPS

USE BlockSizeAssumption, ByteAssumption, FileAssumption, DistanceAssumption,
    LimitAssumption

-----------------------------------------------------------------------------
(* The inductive invariant.  Beyond the properties the runs check it says  *)
(* that everything buffered is data of the file (a jump keeps bytes that   *)
(* are not in the window yet), what the MD5 contexts hold between reads,   *)
(* and that the whole file has been read when the window is at its end.    *)

(* The bytes of b from index first up to last are the file's, index i      *)
(* holding the byte of file offset i + shift.                              *)
ShowsFile(b, first, last, shift) ==
  \A i \in first .. last - 1 : b[i] = content[shift + i + 1]

BufferShowsFile ==
  Scanning => ShowsFile(buffer, outpointer, tailpointer, currentoffset - outpointer)

ContextsHold(read) ==
  /\ context16k = SubSeq(content, 1, Least(read, Limit16k))
  /\ read >= Limit16k => contextfull = SubSeq(content, 1, read)

ContextsCoverRead ==
  /\ computefilehashes => ContextsHold(readoffset)
  /\ status = "new" => readoffset = 0

EndIsRead ==
  (status = "scanning" /\ currentoffset = filesize) => readoffset = filesize

IInv ==
  /\ TypeOK
  /\ PointersAgree
  /\ BufferShowsFile
  /\ ChecksumTracksWindow
  /\ ContextsCoverRead
  /\ EndIsRead

(* The facts about a file of FileContents that the proofs use.             *)
LEMMA FileFacts ==
  ASSUME content \in FileContents
  PROVE  /\ content \in Seq(Byte)
         /\ filesize \in Nat \ {0}
         /\ \A i \in 1 .. filesize : content[i] \in Byte
BY DEF filesize

-----------------------------------------------------------------------------
(* Fill reads on from where the last read ended: what it adds at the tail  *)
(* is the file's data, it leaves what was there alone, and unless the file *)
(* ends first it brings a block's worth.                                   *)
LEMMA FillFacts ==
  ASSUME content \in FileContents,
         NEW b \in [Index -> BufferByte],
         NEW tail \in 0 .. 2 * BlockSize,
         NEW from \in 0 .. filesize,
         NEW longfill \in BOOLEAN,
         NEW t, t = TailAfterFill(tail, from, longfill),
         NEW r, r = ReadAfterFill(tail, from, longfill),
         NEW a, a = AfterFill(b, tail, from, longfill)
  PROVE  /\ t \in tail .. 2 * BlockSize
         /\ r \in from .. filesize
         /\ r - from = t - tail
         /\ a \in [Index -> BufferByte]
         /\ \A i \in 0 .. tail - 1 : a[i] = b[i]
         /\ ShowsFile(a, tail, t, from - tail)
         /\ t >= BlockSize \/ r = filesize
         /\ ~longfill \/ tail = 0 \/ t = 2 * BlockSize \/ r = filesize
<1> USE FileFacts DEF Index, BufferByte
<1>1. CASE FillSkipped(tail, from, longfill)
  BY <1>1 DEF FillSkipped, TailAfterFill, ReadAfterFill, AfterFill, filesize, ShowsFile
<1>2. CASE ~FillSkipped(tail, from, longfill)
  <2> DEFINE want == FillWant(tail, from)
             target == FillTarget(tail)
  <2>1. target \in tail .. 2 * BlockSize /\ target >= BlockSize
        /\ (tail > 0 => target = 2 * BlockSize)
    BY DEF FillTarget
  <2>2. want \in Nat /\ want <= filesize - from /\ want <= target - tail
        /\ (want = filesize - from \/ want = target - tail)
    BY <2>1 DEF FillWant, Least, filesize
  <2>3. t = tail + want /\ r = from + want
    BY <1>2, <2>2 DEF TailAfterFill, ReadAfterFill
  <2>4. a = FilledBuffer(b, tail, from)
    BY <1>2 DEF AfterFill
  <2>5. FilledBuffer(b, tail, from) \in [Index -> BufferByte]
    <3>1. \A i \in Index : tail <= i /\ i < tail + want
            => content[from + (i - tail) + 1] \in Byte
      BY <2>2 DEF filesize
    <3>2. QED
      BY <3>1 DEF FilledBuffer
  <2>6. \A i \in 0 .. tail - 1 : FilledBuffer(b, tail, from)[i] = b[i]
    BY DEF FilledBuffer
  <2>7. ShowsFile(FilledBuffer(b, tail, from), tail, tail + want, from - tail)
    <3>1. ASSUME NEW i \in tail .. tail + want - 1
          PROVE  FilledBuffer(b, tail, from)[i] = content[from + (i - tail) + 1]
      <4> HIDE DEF want, target
      <4>1. i \in Index /\ ~(i < tail \/ i >= target) /\ i < tail + want
        BY <2>1, <2>2
      <4>2. QED
        BY <4>1, Zenon DEF FilledBuffer, want, target
    <3>2. \A i \in tail .. tail + want - 1 : from + (i - tail) = (from - tail) + i
      BY <2>2
    <3>3. QED
      BY <3>1, <3>2 DEF ShowsFile
  <2> HIDE DEF want, target
  <2>8. t \in tail .. 2 * BlockSize /\ r \in from .. filesize /\ r - from = t - tail
    BY <2>1, <2>2, <2>3
  <2>9. t >= BlockSize \/ r = filesize
    BY <2>1, <2>2, <2>3
  <2>10. tail > 0 => (t = 2 * BlockSize \/ r = filesize)
    BY <2>1, <2>2, <2>3
  <2>11. ShowsFile(a, tail, t, from - tail)
    BY <2>3, <2>4, <2>7
  <2>12. QED
    BY <2>4, <2>5, <2>6, <2>8, <2>9, <2>10, <2>11
<1>3. QED
  BY <1>1, <1>2

-----------------------------------------------------------------------------
(* The piece of a piece of a file that UpdateHashes feeds to a context.    *)
LEMMA SubSeqOfPiece ==
  ASSUME NEW s \in Seq(Byte), NEW from \in Nat, NEW to \in from .. Len(s),
         NEW i \in 1 .. to - from + 1, NEW j \in i - 1 .. to - from
  PROVE  SubSeq(SubSeq(s, from + 1, to), i, j) = SubSeq(s, from + i, from + j)
<1> DEFINE d == SubSeq(s, from + 1, to)
           x == SubSeq(d, i, j)
           y == SubSeq(s, from + i, from + j)
<1>1. d \in Seq(Byte) /\ Len(d) = to - from /\ \A k \in 1 .. to - from : d[k] = s[from + k]
  BY SubSeqProperties
<1> HIDE DEF d
<1>2. x \in Seq(Byte) /\ Len(x) = j - i + 1 /\ \A k \in 1 .. j - i + 1 : x[k] = d[i + k - 1]
  BY <1>1, SubSeqProperties
<1>3. y \in Seq(Byte) /\ Len(y) = j - i + 1
      /\ \A k \in 1 .. j - i + 1 : y[k] = s[from + i + k - 1]
  <2> DEFINE first == from + i
             last == from + j
  <2>1. /\ first \in 1 .. Len(s) + 1 /\ last \in first - 1 .. Len(s)
        /\ last - first + 1 = j - i + 1
    OBVIOUS
  <2> HIDE DEF first, last
  <2>2. LET z == SubSeq(s, first, last)
        IN  /\ z \in Seq(Byte) /\ Len(z) = last - first + 1
            /\ \A k \in 1 .. last - first + 1 : z[k] = s[first + k - 1]
    BY <2>1, SubSeqProperties
  <2>3. QED
    BY <2>1, <2>2 DEF first, last
<1> HIDE DEF x, y
<1>4. ASSUME NEW k \in 1 .. j - i + 1 PROVE x[k] = y[k]
  BY <1>1, <1>2, <1>3
<1>5. x = y
  BY <1>2, <1>3, <1>4, SeqEqual
<1>6. QED
  BY <1>5 DEF x, y, d

(* A prefix and the piece that follows it make the longer prefix.          *)
LEMMA PrefixExtended ==
  ASSUME NEW s \in Seq(Byte), NEW m \in 0 .. Len(s), NEW n \in m .. Len(s)
  PROVE  SubSeq(s, 1, m) \o SubSeq(s, m + 1, n) = SubSeq(s, 1, n)
<1> DEFINE x == SubSeq(s, 1, m)
           y == SubSeq(s, m + 1, n)
           z == SubSeq(s, 1, n)
<1>1. x \in Seq(Byte) /\ Len(x) = m /\ \A k \in 1 .. m : x[k] = s[k]
  BY SubSeqProperties
<1>2. y \in Seq(Byte) /\ Len(y) = n - m /\ \A k \in 1 .. n - m : y[k] = s[m + k]
  BY SubSeqProperties
<1>3. z \in Seq(Byte) /\ Len(z) = n /\ \A k \in 1 .. n : z[k] = s[k]
  BY SubSeqProperties
<1> HIDE DEF x, y, z
<1>4. /\ x \o y \in Seq(Byte) /\ Len(x \o y) = n
      /\ \A k \in 1 .. n : (x \o y)[k] = IF k <= m THEN x[k] ELSE y[k - m]
  BY <1>1, <1>2, ConcatProperties
<1>5. ASSUME NEW k \in 1 .. n PROVE (x \o y)[k] = z[k]
  BY <1>1, <1>2, <1>3, <1>4
<1>6. x \o y = z
  BY <1>3, <1>4, <1>5, SeqEqual
<1>7. QED
  BY <1>6 DEF x, y, z

(* The three ways a read lies with respect to the 16k mark.                *)
LEMMA UpdateHashesCases ==
  ASSUME NEW offset \in Nat, NEW data, NEW len \in Nat, len = Len(data),
         UpdateHashes(offset, data)
  PROVE  /\ offset >= Limit16k =>
              context16k' = context16k /\ contextfull' = contextfull \o data
         /\ (offset < Limit16k /\ offset + len < Limit16k) =>
              context16k' = context16k \o data /\ contextfull' = contextfull
         /\ (offset < Limit16k /\ offset + len >= Limit16k) =>
              /\ context16k' = context16k \o SubSeq(data, 1, Limit16k - offset)
              /\ contextfull' = context16k' \o SubSeq(data, Limit16k - offset + 1, len)
<1>1. ASSUME offset >= Limit16k
      PROVE  context16k' = context16k /\ contextfull' = contextfull \o data
  BY <1>1 DEF UpdateHashes
<1>2. ASSUME offset < Limit16k /\ offset + len < Limit16k
      PROVE  context16k' = context16k \o data /\ contextfull' = contextfull
  <2>1. ~(offset >= Limit16k) /\ ~(offset + Len(data) >= Limit16k)
    BY <1>2
  <2>2. QED
    BY <2>1, Zenon DEF UpdateHashes
<1>3. ASSUME offset < Limit16k /\ offset + len >= Limit16k
      PROVE  /\ context16k' = context16k \o SubSeq(data, 1, Limit16k - offset)
             /\ contextfull' = context16k' \o SubSeq(data, Limit16k - offset + 1, len)
  <2>1. ~(offset >= Limit16k) /\ offset < Limit16k /\ offset + Len(data) >= Limit16k
    BY <1>3
  <2>2. QED
    BY <2>1, Zenon DEF UpdateHashes
<1>4. QED
  BY <1>1, <1>2, <1>3, Zenon

(* Each read extends what the contexts hold by exactly the bytes read, on  *)
(* whichever side of the 16k mark it begins and ends.                      *)
LEMMA HashFacts ==
  ASSUME content \in FileContents,
         NEW tail \in 0 .. 2 * BlockSize,
         NEW from \in 0 .. filesize,
         NEW longfill \in BOOLEAN,
         computefilehashes,
         context16k \in Seq(Byte), contextfull \in Seq(Byte),
         ContextsHold(from),
         HashFill(tail, from, longfill),
         NEW r, r = ReadAfterFill(tail, from, longfill)
  PROVE  /\ context16k' \in Seq(Byte) /\ contextfull' \in Seq(Byte)
         /\ context16k' = SubSeq(content, 1, Least(r, Limit16k))
         /\ r >= Limit16k => contextfull' = SubSeq(content, 1, r)
<1>0. content \in Seq(Byte) /\ filesize \in Nat /\ filesize = Len(content)
  BY FileFacts DEF filesize
<1>1. CASE FillSkipped(tail, from, longfill)
  <2>1. r = from
    BY <1>1, <1>0 DEF ReadAfterFill, TailAfterFill
  <2>2. UNCHANGED <<context16k, contextfull>>
    BY <1>1 DEF HashFill
  <2>3. QED
    BY <2>1, <2>2 DEF ContextsHold
<1>2. CASE ~FillSkipped(tail, from, longfill)
  <2> DEFINE want == FillWant(tail, from)
             data == SubSeq(content, from + 1, from + want)
  <2>1. want \in Nat /\ from + want \in from .. filesize
    BY <1>0 DEF FillWant, FillTarget, Least
  <2>2. r = from + want
    BY <1>2, <2>1, <1>0 DEF ReadAfterFill, TailAfterFill
  <2>3. UpdateHashes(from, data)
    BY <1>2 DEF HashFill
  <2> HIDE DEF want
  <2>4. data \in Seq(Byte) /\ Len(data) = want
    BY <1>0, <2>1, SubSeqProperties
  <2>5. SubSeq(content, 1, from) \o data = SubSeq(content, 1, r)
    BY <1>0, <2>1, <2>2, PrefixExtended
  <2>piece. \A i \in 1 .. want + 1 : \A j \in i - 1 .. want :
           SubSeq(data, i, j) = SubSeq(content, from + i, from + j)
    BY <1>0, <2>1, SubSeqOfPiece
  <2> HIDE DEF data
  <2>nat. from \in Nat /\ want \in Nat
    BY <1>0, <2>1
  <2>6. SubSeq(content, 1, r) \in Seq(Byte)
    BY <1>0, <2>1, <2>2, SubSeqProperties
  <2>7. CASE from >= Limit16k
    <3>1. context16k' = context16k /\ contextfull' = contextfull \o data
      BY <2>3, <2>4, <2>7, <2>1, <1>0, UpdateHashesCases
    <3>2. Least(r, Limit16k) = Limit16k /\ Least(from, Limit16k) = Limit16k
      BY <2>7, <2>1, <2>2, <1>0 DEF Least
    <3>3. context16k = SubSeq(content, 1, Limit16k) /\ contextfull = SubSeq(content, 1, from)
      BY <2>7, <3>2 DEF ContextsHold
    <3>4. contextfull' = SubSeq(content, 1, r)
      BY <3>1, <3>3, <2>5
    <3>5. QED
      BY <3>1, <3>2, <3>3, <3>4, <2>6
  <2>8. CASE from < Limit16k /\ from + want < Limit16k
    <3>1. context16k' = context16k \o data /\ contextfull' = contextfull
      BY <2>3, <2>4, <2>8, <1>0, <2>1, UpdateHashesCases
    <3>2. Least(from, Limit16k) = from /\ Least(r, Limit16k) = r /\ ~(r >= Limit16k)
      BY <2>8, <2>1, <2>2, <1>0 DEF Least
    <3>3. context16k' = SubSeq(content, 1, r)
      BY <3>1, <3>2, <2>5 DEF ContextsHold
    <3>4. QED
      BY <3>1, <3>2, <3>3, <2>6
  <2>9. CASE from < Limit16k /\ from + want >= Limit16k
    <3> DEFINE first == Limit16k - from
    <3>1. first \in 1 .. want /\ from + first = Limit16k
      BY <2>9, <2>1, <1>0
    <3>2. context16k' = context16k \o SubSeq(data, 1, first)
          /\ contextfull' = context16k' \o SubSeq(data, first + 1, want)
      <4>1. /\ context16k' = context16k \o SubSeq(data, 1, Limit16k - from)
            /\ contextfull' = context16k' \o SubSeq(data, Limit16k - from + 1, want)
        BY <2>3, <2>4, <2>9, <2>nat, UpdateHashesCases
      <4>2. QED
        BY <4>1
    <3> HIDE DEF first
    <3>range. /\ 1 \in 1 .. want + 1 /\ first \in 1 - 1 .. want
           /\ first + 1 \in 1 .. want + 1 /\ want \in (first + 1) - 1 .. want
      BY <3>1, <2>nat
    <3>3. SubSeq(data, 1, first) = SubSeq(content, from + 1, Limit16k)
      <4>1. SubSeq(data, 1, first) = SubSeq(content, from + 1, from + first)
        BY <3>range, <2>piece
      <4>2. QED
        BY <4>1, <3>1
    <3>4. SubSeq(data, first + 1, want) = SubSeq(content, Limit16k + 1, r)
      <4>1. SubSeq(data, first + 1, want) = SubSeq(content, from + (first + 1), from + want)
        BY <3>range, <2>piece
      <4>2. from + (first + 1) = Limit16k + 1
        BY <3>1, <2>nat
      <4>3. QED
        BY <4>1, <4>2, <2>2
    <3>5. context16k = SubSeq(content, 1, from) /\ Least(r, Limit16k) = Limit16k
      BY <2>9, <2>1, <2>2, <1>0 DEF ContextsHold, Least
    <3>6. context16k' = SubSeq(content, 1, Limit16k)
      <4>1. SubSeq(content, 1, from) \o SubSeq(content, from + 1, Limit16k)
            = SubSeq(content, 1, Limit16k)
        BY <2>9, <2>1, <1>0, PrefixExtended
      <4>2. QED
        BY <4>1, <3>2, <3>3, <3>5
    <3>7. contextfull' = SubSeq(content, 1, r)
      <4>1. SubSeq(content, 1, Limit16k) \o SubSeq(content, Limit16k + 1, r)
            = SubSeq(content, 1, r)
        <5>1. Limit16k \in 0 .. Len(content) /\ r \in Limit16k .. Len(content)
          BY <2>9, <2>1, <2>2, <1>0
        <5>2. QED
          BY <5>1, <1>0, PrefixExtended
      <4>2. QED
        BY <4>1, <3>2, <3>4, <3>6
    <3>8. SubSeq(content, 1, Limit16k) \in Seq(Byte)
      BY <2>9, <2>1, <1>0, SubSeqProperties
    <3>9. QED
      BY <3>5, <3>6, <3>7, <3>8, <2>6
  <2>10. QED
    BY <2>7, <2>8, <2>9, <2>1, <1>0
<1>3. QED
  BY <1>1, <1>2

-----------------------------------------------------------------------------
(* What a successful Fill leaves in the contexts covers what has been read. *)
LEMMA HashFillCovers ==
  ASSUME TypeOK,
         NEW tail \in 0 .. 2 * BlockSize, NEW from \in 0 .. filesize,
         NEW longfill \in BOOLEAN,
         computefilehashes => ContextsHold(from),
         HashFill(tail, from, longfill),
         readoffset' = ReadAfterFill(tail, from, longfill),
         UNCHANGED <<content, computefilehashes>>
  PROVE  /\ context16k' \in Seq(Byte) /\ contextfull' \in Seq(Byte)
         /\ computefilehashes' => ContextsHold(readoffset)'
<1>1. CASE computefilehashes
  <2>1. /\ context16k' \in Seq(Byte) /\ contextfull' \in Seq(Byte)
        /\ context16k' = SubSeq(content, 1, Least(readoffset', Limit16k))
        /\ readoffset' >= Limit16k => contextfull' = SubSeq(content, 1, readoffset')
    BY <1>1, HashFacts DEF TypeOK
  <2>2. QED
    BY <2>1 DEF ContextsHold
<1>2. CASE ~computefilehashes
  BY <1>2 DEF HashFill, TypeOK
<1>3. QED
  BY <1>1, <1>2

(* Start and Jump: the window is at the front of the buffer, the first     *)
(* keep bytes of which are the file's, and Fill has brought the rest.      *)
LEMMA RefilledWindow ==
  ASSUME content \in FileContents,
         NEW b \in [Index -> BufferByte], NEW keep \in 0 .. 2 * BlockSize,
         NEW from \in 0 .. filesize, NEW cur \in 0 .. filesize - 1,
         NEW longfill \in BOOLEAN,
         from = cur + keep,
         ShowsFile(b, 0, keep, cur),
         NEW t, t = TailAfterFill(keep, from, longfill),
         NEW r, r = ReadAfterFill(keep, from, longfill),
         NEW a, a = AfterFill(b, keep, from, longfill)
  PROVE  /\ t \in 0 .. 2 * BlockSize /\ r \in 0 .. filesize
         /\ r - cur = t
         /\ t >= Least(BlockSize, filesize - cur)
         /\ a \in [Index -> BufferByte]
         /\ ShowsFile(a, 0, t, cur)
         /\ BlockChecksum(a) \in [Window -> BufferByte \union {Stray}]
         /\ \A i \in Window : BlockChecksum(a)[i] = a[i]
<1>1. filesize \in Nat
  BY FileFacts
<1>2. /\ t \in keep .. 2 * BlockSize
      /\ r \in from .. filesize
      /\ r - from = t - keep
      /\ t >= BlockSize \/ r = filesize
  BY FillFacts, SMTT(30)
<1>0. a \in [Index -> BufferByte]
  BY FillFacts, SMTT(30)
<1>3. t \in 0 .. 2 * BlockSize /\ r \in 0 .. filesize /\ r - cur = t /\ from - keep = cur
  BY <1>1, <1>2
<1>4. t >= Least(BlockSize, filesize - cur)
  BY <1>1, <1>2, <1>3 DEF Least
<1>5. ShowsFile(a, 0, t, cur)
  <2>1. \A i \in 0 .. keep - 1 : a[i] = b[i]
    BY FillFacts, SMTT(30)
  <2>2. ShowsFile(a, keep, t, from - keep)
    BY FillFacts, SMTT(30)
  <2>3. ASSUME NEW i \in 0 .. t - 1, i < keep PROVE a[i] = content[cur + i + 1]
    BY <2>1, <2>3 DEF ShowsFile
  <2>4. ASSUME NEW i \in 0 .. t - 1, ~(i < keep) PROVE a[i] = content[cur + i + 1]
    <3>1. i \in keep .. t - 1
      BY <2>4, <1>3
    <3>2. QED
      BY <3>1, <2>2, <1>3, Zenon DEF ShowsFile
  <2>5. QED
    BY <2>3, <2>4 DEF ShowsFile
<1>6. BlockChecksum(a) = [i \in Window |-> a[i]]
  BY DEF BlockChecksum
<1>7. \A i \in Window : a[i] \in BufferByte
  BY <1>0 DEF Window, Index
<1>8. QED
  BY <1>0, <1>3, <1>4, <1>5, <1>6, <1>7

(* Step: the window moves on by one byte of the buffer, and the rolling    *)
(* checksum with it.                                                       *)
LEMMA SlidWindow ==
  ASSUME NEW b \in [Index -> BufferByte], NEW tail \in 0 .. 2 * BlockSize,
         NEW cur \in Nat, NEW next \in Nat, next = cur + 1,
         outpointer \in Window, inpointer = outpointer + BlockSize,
         outpointer < tail,
         checksum \in [Window -> BufferByte \union {Stray}],
         \A i \in Window : checksum[i] = b[outpointer + i],
         ShowsFile(b, outpointer, tail, cur - outpointer),
         SlideOver(b, tail)
  PROVE  /\ outpointer' \in Window /\ inpointer' = outpointer' + BlockSize
         /\ tailpointer' \in 0 .. 2 * BlockSize
         /\ tailpointer' - outpointer' = tail - outpointer - 1
         /\ buffer' \in [Index -> BufferByte]
         /\ checksum' \in [Window -> BufferByte \union {Stray}]
         /\ \A i \in Window : checksum'[i] = buffer'[outpointer' + i]
         /\ ShowsFile(buffer', outpointer', tailpointer', next - outpointer')
<1> DEFINE slid == [i \in Window |-> IF i = BlockSize - 1 THEN b[inpointer] ELSE checksum[i + 1]]
<1>1. checksum' = slid
  <2>1. checksum[0] = b[outpointer]
    BY DEF Window
  <2>2. QED
    BY <2>1 DEF SlideOver, SlideChecksum
<1>2. \A i \in Window : slid[i] = b[outpointer + 1 + i] /\ slid[i] \in BufferByte
  BY DEF Window, Index
<1>3. CASE outpointer + 1 = BlockSize
  <2>1. /\ outpointer' = 0 /\ inpointer' = BlockSize
        /\ buffer' = [i \in Index |-> IF i < BlockSize THEN b[i + BlockSize] ELSE b[i]]
        /\ tailpointer' = tail - BlockSize
    BY <1>3 DEF SlideOver
  <2>2. /\ outpointer' \in Window /\ inpointer' = outpointer' + BlockSize
        /\ tailpointer' \in 0 .. 2 * BlockSize
        /\ tailpointer' - outpointer' = tail - outpointer - 1
    BY <2>1, <1>3 DEF Window
  <2>3. buffer' \in [Index -> BufferByte]
    BY <2>1 DEF Index
  <2>4. ASSUME NEW i \in Window
        PROVE  buffer'[outpointer' + i] = b[outpointer + 1 + i]
    <3>1. outpointer' + i = i /\ i \in Index /\ i < BlockSize
          /\ i + BlockSize = outpointer + 1 + i
      BY <2>1, <1>3 DEF Window, Index
    <3>2. QED
      BY <3>1, <2>1
  <2>5. ASSUME NEW i \in outpointer' .. tailpointer' - 1
        PROVE  buffer'[i] = content[(next - outpointer') + i + 1]
    <3>1. i \in Window /\ i + BlockSize \in outpointer .. tail - 1
      BY <2>1, <1>3 DEF Window
    <3>2. buffer'[i] = b[i + BlockSize]
      BY <3>1, <2>1 DEF Window, Index
    <3>3. b[i + BlockSize] = content[(cur - outpointer) + (i + BlockSize) + 1]
      BY <3>1 DEF ShowsFile
    <3>4. (cur - outpointer) + (i + BlockSize) + 1 = (next - outpointer') + i + 1
      BY <3>1, <2>1, <1>3 DEF Window
    <3>5. QED
      BY <3>2, <3>3, <3>4
  <2>6. QED
    BY <1>1, <1>2, <2>2, <2>3, <2>4, <2>5 DEF ShowsFile
<1>4. CASE outpointer + 1 # BlockSize
  <2>1. /\ outpointer' = outpointer + 1 /\ inpointer' = inpointer + 1
        /\ buffer' = b /\ tailpointer' = tail
    BY <1>4 DEF SlideOver
  <2>2. /\ outpointer' \in Window /\ inpointer' = outpointer' + BlockSize
        /\ tailpointer' \in 0 .. 2 * BlockSize
        /\ tailpointer' - outpointer' = tail - outpointer - 1
    BY <2>1, <1>4 DEF Window
  <2>3. ShowsFile(buffer', outpointer', tailpointer', next - outpointer')
    <3>1. next - outpointer' = cur - outpointer
      BY <2>1 DEF Window
    <3>2. ShowsFile(b, outpointer + 1, tail, cur - outpointer)
      BY DEF ShowsFile, Window
    <3>3. QED
      BY <3>1, <3>2, <2>1
  <2>4. QED
    BY <1>1, <1>2, <2>1, <2>2, <2>3
<1>5. QED
  BY <1>3, <1>4

-----------------------------------------------------------------------------
(* Each action preserves the invariant.                                    *)

(* A read that failed ends the scan: nothing is claimed of the window.     *)
LEMMA FailurePreserves ==
  ASSUME IInv, NEW tail \in 0 .. 2 * BlockSize, NEW from \in 0 .. filesize,
         NEW longfill, FillFails(tail, from, longfill),
         computefilehashes => ContextsHold(from),
         UNCHANGED <<content, computefilehashes>>,
         currentoffset' \in 0 .. filesize,
         buffer' \in [Index -> BufferByte],
         outpointer' \in Window, inpointer' \in Index
  PROVE  IInv'
<1>1. /\ status' = "failed" /\ tailpointer' = tail /\ readoffset' = from
      /\ UNCHANGED <<checksum, context16k, contextfull>>
  BY DEF FillFails
<1>2. filesize' = filesize
  BY DEF filesize
<1>3. TypeOK'
  BY <1>1, <1>2 DEF IInv, TypeOK
<1>4. ContextsCoverRead'
  BY <1>1 DEF ContextsCoverRead, ContextsHold
<1>5. QED
  BY <1>1, <1>3, <1>4
     DEF IInv, Scanning, PointersAgree, BufferShowsFile, ChecksumTracksWindow, EndIsRead

(* The window has been refilled from its front, by Start or by Jump.       *)
LEMMA RefillPreserves ==
  ASSUME IInv,
         NEW b \in [Index -> BufferByte], NEW keep \in 0 .. 2 * BlockSize,
         NEW from \in 0 .. filesize, NEW longfill \in BOOLEAN,
         NEW cur \in 0 .. filesize - 1, currentoffset' = cur,
         from = cur + keep,
         ShowsFile(b, 0, keep, cur),
         computefilehashes => ContextsHold(from),
         buffer' = AfterFill(b, keep, from, longfill),
         tailpointer' = TailAfterFill(keep, from, longfill),
         readoffset' = ReadAfterFill(keep, from, longfill),
         HashFill(keep, from, longfill),
         outpointer' = 0, inpointer' = BlockSize,
         checksum' = BlockChecksum(buffer'),
         status' = "scanning",
         UNCHANGED <<content, computefilehashes>>
  PROVE  IInv'
<1>1. content \in FileContents /\ TypeOK /\ filesize \in Nat /\ filesize' = filesize
  BY FileFacts DEF IInv, TypeOK, filesize
<1>2. /\ context16k' \in Seq(Byte) /\ contextfull' \in Seq(Byte)
      /\ computefilehashes' => ContextsHold(readoffset)'
  BY <1>1, HashFillCovers
<1>3. /\ tailpointer' \in 0 .. 2 * BlockSize /\ readoffset' \in 0 .. filesize
      /\ readoffset' - cur = tailpointer'
      /\ tailpointer' >= Least(BlockSize, filesize - cur)
      /\ buffer' \in [Index -> BufferByte]
      /\ ShowsFile(buffer', 0, tailpointer', cur)
      /\ checksum' \in [Window -> BufferByte \union {Stray}]
      /\ \A i \in Window : checksum'[i] = buffer'[i]
  BY <1>1, RefilledWindow
<1>4. TypeOK'
  <2>1. 0 \in Window /\ BlockSize \in Index /\ cur \in 0 .. filesize
    BY <1>1 DEF Window, Index
  <2>2. /\ content' \in FileContents /\ computefilehashes' \in BOOLEAN
        /\ status' \in {"new", "scanning", "failed"}
    BY <1>1 DEF TypeOK
  <2>3. QED
    BY <1>1, <1>2, <1>3, <2>1, <2>2, Zenon DEF TypeOK
<1>5. PointersAgree'
  BY <1>1, <1>3 DEF PointersAgree, BlockLength
<1>6. BufferShowsFile'
  <2>1. currentoffset' - outpointer' = cur
    BY <1>1
  <2>2. QED
    BY <1>3, <2>1 DEF BufferShowsFile, ShowsFile
<1>7. ChecksumTracksWindow'
  BY <1>3 DEF ChecksumTracksWindow, Window
<1>8. ContextsCoverRead' /\ EndIsRead'
  BY <1>1, <1>2 DEF ContextsCoverRead, EndIsRead
<1>9. QED
  BY <1>4, <1>5, <1>6, <1>7, <1>8 DEF IInv

(* The window has moved on by a byte over a buffer b that agrees with the  *)
(* one the window was in and holds the window's next byte, if there is one. *)
LEMMA SlidePreserves ==
  ASSUME IInv, Scanning,
         NEW cur \in Nat, cur = currentoffset,
         NEW out \in Window, out = outpointer,
         NEW b \in [Index -> BufferByte], NEW t \in out + 1 .. 2 * BlockSize,
         NEW r \in 0 .. filesize,
         NEW next \in 0 .. filesize - 1, next = cur + 1, currentoffset' = next,
         \A i \in Window : b[out + i] = buffer[out + i],
         ShowsFile(b, out, t, cur - out),
         r - cur = t - out,
         t - out - 1 >= Least(BlockSize, filesize - next),
         SlideOver(b, t),
         readoffset' = r,
         context16k' \in Seq(Byte), contextfull' \in Seq(Byte),
         computefilehashes' => ContextsHold(readoffset)',
         UNCHANGED <<content, computefilehashes, status>>
  PROVE  IInv'
<1>1. content \in FileContents /\ TypeOK /\ filesize \in Nat /\ filesize' = filesize
  BY FileFacts DEF IInv, TypeOK, filesize
<1>2. inpointer = out + BlockSize
  BY DEF IInv, PointersAgree
<1>3. \A i \in Window : checksum[i] = b[out + i]
  BY DEF IInv, ChecksumTracksWindow
<1>4. checksum \in [Window -> BufferByte \union {Stray}]
  BY <1>1 DEF TypeOK
<1>5. t \in 0 .. 2 * BlockSize /\ out < t
  BY DEF Window
<1>6. PICK out2 \in Window, t2 \in 0 .. 2 * BlockSize :
        /\ out2 = outpointer' /\ t2 = tailpointer'
        /\ inpointer' = out2 + BlockSize
        /\ t2 - out2 = t - out - 1
        /\ buffer' \in [Index -> BufferByte]
        /\ checksum' \in [Window -> BufferByte \union {Stray}]
        /\ \A i \in Window : checksum'[i] = buffer'[out2 + i]
        /\ ShowsFile(buffer', out2, t2, next - out2)
  <2>1. next \in Nat
    BY <1>1
  <2>2. /\ outpointer' \in Window /\ inpointer' = outpointer' + BlockSize
        /\ tailpointer' \in 0 .. 2 * BlockSize
        /\ tailpointer' - outpointer' = t - out - 1
        /\ buffer' \in [Index -> BufferByte]
        /\ checksum' \in [Window -> BufferByte \union {Stray}]
        /\ \A i \in Window : checksum'[i] = buffer'[outpointer' + i]
        /\ ShowsFile(buffer', outpointer', tailpointer', next - outpointer')
    BY <2>1, <1>2, <1>3, <1>4, <1>5, SlidWindow
  <2>3. QED
    BY <2>2, Zenon
<1>7. TypeOK'
  <2>1. out2 + BlockSize \in Index
    BY DEF Window, Index
  <2>2. next \in 0 .. filesize
    BY <1>1
  <2>3. QED
    BY <1>1, <1>6, <2>1, <2>2 DEF TypeOK
<1>8. PointersAgree'
  <2>0. out \in Nat /\ out2 \in Nat /\ t \in Nat /\ r \in Nat /\ filesize \in Nat
    BY <1>1 DEF Window
  <2>1. out2 <= t2 /\ r - next = t2 - out2
    <3>1. t2 - out2 = t - out - 1
      BY <1>6, Zenon
    <3>2. QED
      BY <3>1, <2>0, <1>5
  <2>2. t2 - out2 >= Least(BlockSize, filesize - next)
    BY <1>1, <1>6 DEF Window
  <2>3. QED
    BY <1>1, <1>6, <2>1, <2>2, Zenon DEF PointersAgree, BlockLength
<1>9. BufferShowsFile'
  <2>1. \A i \in out2 .. t2 - 1 : buffer'[i] = content[(next - out2) + i + 1]
    BY <1>6, Zenon DEF ShowsFile
  <2>2. /\ outpointer' = out2 /\ tailpointer' = t2
        /\ currentoffset' = next /\ content' = content
    BY <1>6, Zenon
  <2>3. ASSUME NEW i \in outpointer' .. tailpointer' - 1
        PROVE  buffer'[i] = content'[(currentoffset' - outpointer') + i + 1]
    <3>1. i \in out2 .. t2 - 1
      BY <2>2, Zenon
    <3>2. buffer'[i] = content[(next - out2) + i + 1]
      BY <3>1, <2>1, Zenon
    <3>3. currentoffset' - outpointer' = next - out2
      BY <2>2, Zenon
    <3>4. QED
      BY <3>2, <3>3, <2>2, Zenon
  <2>4. QED
    BY <2>3 DEF BufferShowsFile, ShowsFile
<1>10. ChecksumTracksWindow'
  BY <1>6 DEF ChecksumTracksWindow
<1>11. ContextsCoverRead' /\ EndIsRead'
  BY <1>1 DEF ContextsCoverRead, EndIsRead, Scanning
<1>12. QED
  BY <1>7, <1>8, <1>9, <1>10, <1>11 DEF IInv

(* While the window is in the file it holds a byte at least, and all of a  *)
(* block unless the file has been read to its end.                         *)
LEMMA WindowFacts ==
  ASSUME IInv, Scanning
  PROVE  /\ content \in FileContents /\ filesize \in Nat
         /\ currentoffset \in 0 .. filesize - 1 /\ readoffset \in 0 .. filesize
         /\ outpointer \in Window /\ inpointer = outpointer + BlockSize
         /\ tailpointer \in outpointer + 1 .. 2 * BlockSize
         /\ readoffset - currentoffset = tailpointer - outpointer
         /\ tailpointer - outpointer >= BlockSize \/ readoffset = filesize
<1>1. content \in FileContents /\ filesize \in Nat
  BY FileFacts DEF IInv, TypeOK
<1>2. /\ currentoffset \in 0 .. filesize /\ readoffset \in 0 .. filesize
      /\ outpointer \in Window /\ tailpointer \in 0 .. 2 * BlockSize
      /\ currentoffset < filesize
  BY DEF IInv, TypeOK, Scanning
<1>3. /\ inpointer = outpointer + BlockSize
      /\ readoffset - currentoffset = tailpointer - outpointer
      /\ tailpointer - outpointer >= Least(BlockSize, filesize - currentoffset)
  BY DEF IInv, PointersAgree, BlockLength
<1>4. /\ currentoffset \in Nat /\ readoffset \in Nat
      /\ outpointer \in Nat /\ tailpointer \in Nat
  BY <1>1, <1>2 DEF Window
<1>5. CASE BlockSize <= filesize - currentoffset
  <2>1. tailpointer - outpointer >= BlockSize
    BY <1>3, <1>5 DEF Least
  <2>2. QED
    BY <1>1, <1>2, <1>3, <1>4, <2>1
<1>6. CASE ~(BlockSize <= filesize - currentoffset)
  <2>1. tailpointer - outpointer >= filesize - currentoffset
    BY <1>3, <1>6 DEF Least
  <2>2. readoffset = filesize
    BY <1>1, <1>2, <1>3, <1>4, <2>1
  <2>3. QED
    BY <1>1, <1>2, <1>3, <1>4, <2>1, <2>2
<1>7. QED
  BY <1>5, <1>6

(* At the end of the file there is nothing left to read.                   *)
LEMMA ReachEndPreserves ==
  ASSUME IInv, Scanning, ReachEnd,
         currentoffset + BlockSize >= filesize,
         UNCHANGED <<content, computefilehashes>>
  PROVE  IInv'
<1>1. content \in FileContents /\ filesize \in Nat /\ filesize' = filesize
  BY WindowFacts DEF filesize
<1>2. readoffset = filesize
  <2>1. tailpointer \in Nat /\ outpointer \in Nat /\ currentoffset \in Nat /\ readoffset \in 0 .. filesize
    BY WindowFacts DEF Window
  <2>2. readoffset - currentoffset = tailpointer - outpointer
        /\ (tailpointer - outpointer >= BlockSize \/ readoffset = filesize)
    BY WindowFacts
  <2>3. QED
    BY <1>1, <2>1, <2>2
<1>3. /\ currentoffset' = filesize /\ readoffset' = readoffset /\ status' = status
      /\ tailpointer' = 0 /\ outpointer' = 0 /\ inpointer' = inpointer
      /\ context16k' = context16k /\ contextfull' = contextfull
      /\ checksum' = [i \in Window |-> Stray]
      /\ buffer' = [i \in Index |-> IF i < BlockSize THEN Zero ELSE buffer[i]]
  BY DEF ReachEnd
<1>4. ~Scanning'
  BY <1>1, <1>3 DEF Scanning
<1>5. TypeOK'
  <2>1. buffer' \in [Index -> BufferByte]
    BY <1>3 DEF IInv, TypeOK, BufferByte
  <2>2. 0 \in Window /\ filesize \in 0 .. filesize /\ 0 \in 0 .. 2 * BlockSize
    BY <1>1 DEF Window
  <2>3. checksum' \in [Window -> BufferByte \union {Stray}]
    BY <1>3
  <2>4. QED
    BY <1>1, <1>3, <2>1, <2>2, <2>3 DEF IInv, TypeOK
<1>6. ContextsCoverRead'
  BY <1>3 DEF IInv, ContextsCoverRead, ContextsHold
<1>7. EndIsRead'
  BY <1>1, <1>2, <1>3 DEF EndIsRead
<1>8. QED
  BY <1>4, <1>5, <1>6, <1>7
     DEF IInv, PointersAgree, BufferShowsFile, ChecksumTracksWindow

(* The bytes of the window are not touched by the Fill of a Step: it fills *)
(* when the window's next byte is missing and the file has more of it, and *)
(* then a whole block is buffered.                                         *)
LEMMA StepPreserves ==
  ASSUME IInv, Step
  PROVE  IInv'
<1>1. Scanning /\ UNCHANGED <<content, computefilehashes>>
  BY DEF Step, Scanning
<1>2. /\ content \in FileContents /\ filesize \in Nat
      /\ buffer \in [Index -> BufferByte] /\ tailpointer \in 0 .. 2 * BlockSize
      /\ currentoffset \in Nat /\ outpointer \in Window /\ readoffset \in 0 .. filesize
      /\ context16k \in Seq(Byte) /\ contextfull \in Seq(Byte)
      /\ computefilehashes => ContextsHold(readoffset)
      /\ TypeOK
  BY <1>1, WindowFacts DEF IInv, TypeOK, ContextsCoverRead
<1>3. CASE currentoffset + 1 >= filesize /\ ReachEnd
  <2>1. currentoffset + BlockSize >= filesize
    BY <1>2, <1>3
  <2>2. QED
    BY <1>1, <1>3, <2>1, ReachEndPreserves
<1>4. CASE /\ currentoffset + 1 < filesize
           /\ currentoffset' = currentoffset + 1
           /\ StepInside
  <2> DEFINE next == currentoffset + 1
  <2>1. next \in 0 .. filesize - 1 /\ next = currentoffset + 1 /\ currentoffset' = next
    BY <1>2, <1>4
  <2> HIDE DEF next
  <2>2. /\ inpointer = outpointer + BlockSize
        /\ tailpointer \in outpointer + 1 .. 2 * BlockSize
        /\ readoffset - currentoffset = tailpointer - outpointer
        /\ tailpointer - outpointer >= BlockSize \/ readoffset = filesize
    BY <1>1, WindowFacts
  <2>3. ShowsFile(buffer, outpointer, tailpointer, currentoffset - outpointer)
    BY <1>1 DEF IInv, BufferShowsFile
  <2>pos. tailpointer # 0
    BY <2>2, <1>2 DEF Window
  <2>4. CASE /\ ~StepFills /\ SlideOver(buffer, tailpointer)
             /\ UNCHANGED <<readoffset, context16k, contextfull, status>>
    <3>1. tailpointer - outpointer - 1 >= Least(BlockSize, filesize - next)
      BY <1>2, <2>1, <2>2, <2>4 DEF StepFills, Least, Window
    <3>2. computefilehashes' => ContextsHold(readoffset)'
      BY <1>1, <1>2, <2>4 DEF ContextsHold
    <3>3. context16k' \in Seq(Byte) /\ contextfull' \in Seq(Byte)
          /\ readoffset' = readoffset /\ status' = status
      BY <1>2, <2>4
    <3>4. QED
      BY <1>1, <1>2, <2>1, <2>2, <2>3, <2>4, <3>1, <3>2, <3>3, SlidePreserves
  <2>5. ASSUME NEW longfill \in BOOLEAN, longfill,
               StepFills,
               SlideOver(AfterFill(buffer, tailpointer, readoffset, longfill),
                         TailAfterFill(tailpointer, readoffset, longfill)),
               readoffset' = ReadAfterFill(tailpointer, readoffset, longfill),
               HashFill(tailpointer, readoffset, longfill),
               status' = status
        PROVE  IInv'
    <3> DEFINE b == AfterFill(buffer, tailpointer, readoffset, longfill)
               t == TailAfterFill(tailpointer, readoffset, longfill)
               r == ReadAfterFill(tailpointer, readoffset, longfill)
    <3>1. SlideOver(b, t) /\ readoffset' = r
      BY <2>5
    <3>2. b = AfterFill(buffer, tailpointer, readoffset, longfill)
          /\ t = TailAfterFill(tailpointer, readoffset, longfill)
          /\ r = ReadAfterFill(tailpointer, readoffset, longfill)
      OBVIOUS
    <3> HIDE DEF b, t, r
    <3>3. /\ t \in tailpointer .. 2 * BlockSize /\ r \in readoffset .. filesize
          /\ r - readoffset = t - tailpointer
          /\ t = 2 * BlockSize \/ r = filesize
      <4>1. /\ t \in tailpointer .. 2 * BlockSize /\ r \in readoffset .. filesize
            /\ r - readoffset = t - tailpointer
        BY <1>2, <3>2, FillFacts
      <4>2. ~longfill \/ tailpointer = 0 \/ t = 2 * BlockSize \/ r = filesize
        BY <1>2, <3>2, FillFacts, SMTT(30)
      <4>3. QED
        BY <2>pos, <2>5, <4>1, <4>2, Zenon
    <3>4. b \in [Index -> BufferByte]
      BY <1>2, <3>2, FillFacts
    <3>5. \A i \in 0 .. tailpointer - 1 : b[i] = buffer[i]
      BY <1>2, <3>2, FillFacts, SMTT(30)
    <3>6. ShowsFile(b, tailpointer, t, readoffset - tailpointer)
      BY <1>2, <3>2, FillFacts
    <3>7. readoffset - tailpointer = currentoffset - outpointer
          /\ r - currentoffset = t - outpointer
          /\ t \in outpointer + 1 .. 2 * BlockSize /\ r \in 0 .. filesize
      BY <1>2, <2>2, <3>3 DEF Window
    <3>8. ShowsFile(b, outpointer, t, currentoffset - outpointer)
      <4>1. ASSUME NEW i \in outpointer .. t - 1, i < tailpointer
            PROVE  b[i] = content[currentoffset - outpointer + i + 1]
        <5>1. i \in outpointer .. tailpointer - 1 /\ i \in 0 .. tailpointer - 1
          BY <4>1, <1>2, <2>2 DEF Window
        <5>2. QED
          BY <5>1, <3>5, <2>3, Zenon DEF ShowsFile
      <4>2. ASSUME NEW i \in outpointer .. t - 1, ~(i < tailpointer)
            PROVE  b[i] = content[currentoffset - outpointer + i + 1]
        <5>1. i \in tailpointer .. t - 1
          BY <4>2, <1>2, <2>2, <3>7 DEF Window
        <5>2. QED
          BY <5>1, <3>6, <3>7, Zenon DEF ShowsFile
      <4>3. QED
        BY <4>1, <4>2, Zenon DEF ShowsFile
    <3>9. \A i \in Window : b[outpointer + i] = buffer[outpointer + i]
      <4>1. CASE readoffset = filesize
        <5>1. FillSkipped(tailpointer, readoffset, longfill)
          BY <4>1, <1>2 DEF FillSkipped
        <5>2. QED
          BY <5>1, <3>2 DEF AfterFill
      <4>2. CASE tailpointer - outpointer >= BlockSize
        <5>1. \A i \in Window : outpointer + i \in 0 .. tailpointer - 1
          BY <4>2, <1>2, <2>2 DEF Window
        <5>2. QED
          BY <5>1, <3>5
      <4>3. QED
        BY <4>1, <4>2, <2>2
    <3>10. t - outpointer - 1 >= Least(BlockSize, filesize - next)
      <4>1. t - outpointer - 1 >= BlockSize \/ t - outpointer - 1 = filesize - next
        BY <1>2, <2>1, <3>3, <3>7 DEF Window
      <4>2. QED
        BY <4>1, <1>2, <2>1, <3>7 DEF Least, Window
    <3>11. /\ context16k' \in Seq(Byte) /\ contextfull' \in Seq(Byte)
           /\ computefilehashes' => ContextsHold(readoffset)'
      BY <1>1, <1>2, <2>5, HashFillCovers
    <3>12. QED
      BY <1>1, <1>2, <2>1, <2>5, <3>1, <3>4, <3>7, <3>8, <3>9, <3>10, <3>11, SlidePreserves
  <2>6. CASE /\ StepFills
             /\ FillFails(tailpointer, readoffset, TRUE)
             /\ UNCHANGED <<buffer, outpointer, inpointer>>
    <3>1. inpointer \in Index /\ next \in 0 .. filesize
      BY <1>2, <2>1 DEF TypeOK
    <3>2. /\ currentoffset' \in 0 .. filesize /\ buffer' \in [Index -> BufferByte]
          /\ outpointer' \in Window /\ inpointer' \in Index
      BY <1>2, <2>1, <2>6, <3>1, Zenon
    <3>3. QED
      BY <1>1, <1>2, <2>6, <3>2, FailurePreserves, Zenon
  <2>7. QED
    BY <1>4, <2>4, <2>5, <2>6, Zenon DEF StepInside
<1>5. QED
  BY <1>3, <1>4 DEF Step

LEMMA JumpPreserves ==
  ASSUME IInv, NEW asked \in Distance, Jump(asked)
  PROVE  IInv'
<1> DEFINE d == JumpDistance(asked)
<1>1. Scanning /\ UNCHANGED <<content, computefilehashes>>
  BY DEF Jump, Scanning
<1>2. /\ content \in FileContents /\ filesize \in Nat
      /\ buffer \in [Index -> BufferByte] /\ tailpointer \in 0 .. 2 * BlockSize
      /\ currentoffset \in Nat /\ outpointer \in Nat /\ readoffset \in 0 .. filesize
      /\ computefilehashes => ContextsHold(readoffset)
  BY <1>1, WindowFacts DEF IInv, TypeOK, ContextsCoverRead, Window
<1>3. d \in 1 .. BlockSize
  BY DEF JumpDistance, Least
<1>4. \/ currentoffset + d >= filesize /\ ReachEnd
      \/ currentoffset + d < filesize /\ currentoffset' = currentoffset + d /\ JumpInside(d)
  BY DEF Jump
<1> HIDE DEF d
<1>5. CASE currentoffset + d >= filesize /\ ReachEnd
  <2>1. currentoffset + BlockSize >= filesize
    BY <1>2, <1>3, <1>5
  <2>2. QED
    BY <1>1, <1>5, <2>1, ReachEndPreserves
<1>6. CASE /\ currentoffset + d < filesize
           /\ currentoffset' = currentoffset + d
           /\ JumpInside(d)
  <2> DEFINE cur == currentoffset + d
             out == outpointer + d
             keep == tailpointer - out
             kept == KeptBuffer(buffer, out, keep)
  <2>1. /\ tailpointer \in outpointer + 1 .. 2 * BlockSize
        /\ readoffset - currentoffset = tailpointer - outpointer
        /\ tailpointer - outpointer >= BlockSize \/ readoffset = filesize
    BY <1>1, WindowFacts
  <2>2. ShowsFile(buffer, outpointer, tailpointer, currentoffset - outpointer)
    BY <1>1 DEF IInv, BufferShowsFile
  <2>3. /\ cur \in 0 .. filesize - 1 /\ cur = currentoffset + d /\ currentoffset' = cur
        /\ out \in Nat /\ keep \in 0 .. 2 * BlockSize /\ out + keep = tailpointer
        /\ readoffset = cur + keep /\ cur - out = currentoffset - outpointer
        /\ outpointer <= out
    BY <1>2, <1>3, <1>6, <2>1
  <2>4. kept = [i \in Index |-> IF i < keep THEN buffer[out + i] ELSE buffer[i]]
    BY DEF KeptBuffer
  <2>5. /\ outpointer' = 0 /\ inpointer' = BlockSize
        /\ \/ /\ buffer' = AfterFill(kept, keep, readoffset, FALSE)
              /\ tailpointer' = TailAfterFill(keep, readoffset, FALSE)
              /\ readoffset' = ReadAfterFill(keep, readoffset, FALSE)
              /\ HashFill(keep, readoffset, FALSE)
              /\ checksum' = BlockChecksum(buffer')
              /\ UNCHANGED status
           \/ FillFails(keep, readoffset, FALSE) /\ buffer' = kept
    BY <1>6, Zenon DEF JumpInside
  <2> HIDE DEF cur, out, keep, kept
  <2>6. \A i \in 0 .. keep - 1 : out + i \in outpointer .. tailpointer - 1 /\ out + i \in Index
    BY <1>2, <2>3, SMTT(30) DEF Index
  <2>7. kept \in [Index -> BufferByte]
    <3>1. ASSUME NEW i \in Index, i < keep PROVE out + i \in Index
      <4>1. i \in 0 .. keep - 1
        BY <3>1, <2>3 DEF Index
      <4>2. QED
        BY <4>1, <2>6, Zenon
    <3>2. QED
      BY <1>2, <2>4, <3>1
  <2>8. ShowsFile(kept, 0, keep, cur)
    <3>1. ASSUME NEW i \in 0 .. keep - 1
          PROVE  kept[i] = content[cur + i + 1]
      <4>1. kept[i] = buffer[out + i]
        BY <2>3, <2>4 DEF Index
      <4>2. buffer[out + i] = content[(currentoffset - outpointer) + (out + i) + 1]
        BY <2>2, <2>6, Zenon DEF ShowsFile
      <4>3. (currentoffset - outpointer) + (out + i) + 1 = cur + i + 1
        <5>1. i \in Nat /\ cur \in Nat /\ out \in Nat
          BY <1>2, <2>3
        <5>2. (cur - out) + (out + i) + 1 = cur + i + 1
          BY <5>1
        <5>3. QED
          BY <5>2, <2>3, Zenon
      <4>4. QED
        BY <4>1, <4>2, <4>3
    <3>2. QED
      BY <3>1 DEF ShowsFile
  <2>9. ASSUME NEW longfill \in BOOLEAN,
               buffer' = AfterFill(kept, keep, readoffset, longfill),
               tailpointer' = TailAfterFill(keep, readoffset, longfill),
               readoffset' = ReadAfterFill(keep, readoffset, longfill),
               HashFill(keep, readoffset, longfill),
               checksum' = BlockChecksum(buffer'),
               status' = status
        PROVE  IInv'
    <3>1. status' = "scanning"
      BY <1>1, <2>9 DEF Scanning
    <3>2. outpointer' = 0 /\ inpointer' = BlockSize
      BY <2>5, Zenon
    <3>3. QED
      BY <1>1, <1>2, <2>3, <2>7, <2>8, <2>9, <3>1, <3>2, RefillPreserves
  <2>10. CASE FillFails(keep, readoffset, FALSE) /\ buffer' = kept
    <3>1. 0 \in Window /\ BlockSize \in Index /\ cur \in 0 .. filesize
      BY <1>2, <2>3 DEF Window, Index
    <3>2. outpointer' = 0 /\ inpointer' = BlockSize
      BY <2>5, Zenon
    <3>3. /\ currentoffset' \in 0 .. filesize /\ buffer' \in [Index -> BufferByte]
          /\ outpointer' \in Window /\ inpointer' \in Index
      BY <2>3, <2>7, <2>10, <3>1, <3>2, Zenon
    <3>4. QED
      BY <1>1, <1>2, <2>3, <2>10, <3>3, FailurePreserves, Zenon
  <2>11. QED
    BY <2>5, <2>9, <2>10, Zenon
<1>7. QED
  BY <1>4, <1>5, <1>6

LEMMA StartPreserves ==
  ASSUME IInv, NEW offset \in 0 .. filesize - 1, StartAt(offset)
  PROVE  IInv'
<1>1. /\ content \in FileContents /\ filesize \in Nat
      /\ buffer \in [Index -> BufferByte]
      /\ offset \in 0 .. filesize /\ offset = offset + 0
      /\ 0 \in 0 .. 2 * BlockSize
  BY FileFacts DEF IInv, TypeOK
<1>2. /\ status # "failed"
      /\ status = "scanning" => ~computefilehashes
      /\ computefilehashes => offset = 0
      /\ currentoffset' = offset
      /\ outpointer' = 0 /\ inpointer' = BlockSize
      /\ UNCHANGED <<content, computefilehashes>>
  BY Zenon DEF StartAt
<1>3. computefilehashes => ContextsHold(offset)
  BY <1>2 DEF IInv, TypeOK, ContextsCoverRead
<1>4. ShowsFile(buffer, 0, 0, offset)
  BY DEF ShowsFile
<1>5. ASSUME NEW longfill \in BOOLEAN,
             buffer' = AfterFill(buffer, 0, offset, longfill),
             tailpointer' = TailAfterFill(0, offset, longfill),
             readoffset' = ReadAfterFill(0, offset, longfill),
             HashFill(0, offset, longfill),
             checksum' = BlockChecksum(buffer'),
             status' = "scanning"
      PROVE  IInv'
  BY <1>1, <1>2, <1>3, <1>4, <1>5, RefillPreserves
<1>6. CASE FillFails(0, offset, FALSE) /\ UNCHANGED buffer
  <2>1. 0 \in Window /\ BlockSize \in Index
    BY DEF Window, Index
  <2>2. /\ currentoffset' \in 0 .. filesize /\ buffer' \in [Index -> BufferByte]
        /\ outpointer' \in Window /\ inpointer' \in Index
    BY <1>1, <1>2, <1>6, <2>1, Zenon
  <2>3. QED
    BY <1>1, <1>2, <1>3, <1>6, <2>2, FailurePreserves, Zenon
<1>7. QED
  BY <1>5, <1>6, Zenon DEF StartAt

-----------------------------------------------------------------------------
LEMMA InitEstablishes == Init => IInv
<1> SUFFICES ASSUME Init PROVE IInv
  OBVIOUS
<1>1. content \in FileContents /\ filesize \in Nat \ {0} /\ content \in Seq(Byte)
  BY FileFacts DEF Init
<1>2. status = "new" /\ readoffset = 0 /\ context16k = <<>> /\ contextfull = <<>>
  BY DEF Init
<1>3. TypeOK
  <2>1. 0 \in Window /\ 0 \in Index /\ 0 \in 0 .. filesize /\ 0 \in 0 .. 2 * BlockSize
    BY <1>1 DEF Window, Index
  <2>2. buffer \in [Index -> BufferByte] /\ checksum \in [Window -> BufferByte \union {Stray}]
    BY DEF Init, BufferByte
  <2>3. <<>> \in Seq(Byte)
    OBVIOUS
  <2>4. QED
    BY <1>1, <2>1, <2>2, <2>3 DEF Init, TypeOK
<1>4. ContextsCoverRead
  <2>1. SubSeq(content, 1, 0) = <<>> /\ Least(0, Limit16k) = 0 /\ ~(0 >= Limit16k)
    BY <1>1 DEF Least
  <2>2. QED
    BY <1>2, <2>1 DEF ContextsCoverRead, ContextsHold
<1>5. QED
  BY <1>2, <1>3, <1>4
     DEF IInv, Scanning, PointersAgree, BufferShowsFile, ChecksumTracksWindow, EndIsRead

LEMMA NextPreserves == IInv /\ [Next]_vars => IInv'
<1> SUFFICES ASSUME IInv, [Next]_vars PROVE IInv'
  OBVIOUS
<1>1. CASE Start
  BY <1>1, StartPreserves DEF Start
<1>2. CASE Step
  BY <1>2, StepPreserves
<1>3. CASE \E asked \in Distance : Jump(asked)
  BY <1>3, JumpPreserves
<1>4. CASE UNCHANGED vars
  BY <1>4
     DEF vars, IInv, TypeOK, PointersAgree, BufferShowsFile, ShowsFile, ChecksumTracksWindow,
         ContextsCoverRead, ContextsHold, EndIsRead, Scanning, BlockLength, filesize
<1>5. QED
  BY <1>1, <1>2, <1>3, <1>4 DEF Next

(* The inductive invariant holds throughout a scan, for every block size   *)
(* and file, whatever the order of steps, jumps, restarts and read errors. *)
THEOREM Invariance == Spec => []IInv
BY InitEstablishes, NextPreserves, PTL DEF Spec

(* Pointers, offsets, buffer and hash contexts of the scan keep their      *)
(* types: no index leaves the two blocks of buffer.                        *)
THEOREM TypeCorrect == Spec => []TypeOK
BY Invariance, PTL DEF IInv

(* The window stays one block wide and in step with the file offsets.      *)
THEOREM PointersStayInStep == Spec => []PointersAgree
BY Invariance, PTL DEF IInv

(* The rolling checksum is that of the window after every Step and Jump.   *)
THEOREM ChecksumRolls == Spec => []ChecksumTracksWindow
BY Invariance, PTL DEF IInv

(* What is compared with the blocks of the set is the data of the file.    *)
THEOREM WindowIsFile == Spec => []WindowShowsFile
<1>1. IInv => WindowShowsFile
  <2> SUFFICES ASSUME IInv, Scanning, NEW i \in 0 .. BlockLength - 1
               PROVE  buffer[outpointer + i] = content[currentoffset + i + 1]
    BY DEF WindowShowsFile
  <2>1. /\ currentoffset \in Nat /\ filesize \in Nat /\ outpointer \in Nat
        /\ tailpointer \in Nat /\ i \in Nat
    BY WindowFacts DEF Window, BlockLength, Least
  <2>2. i < tailpointer - outpointer
    BY <2>1 DEF IInv, PointersAgree, BlockLength, Least
  <2>3. outpointer + i \in outpointer .. tailpointer - 1
    BY <2>1, <2>2
  <2>4. buffer[outpointer + i] = content[(currentoffset - outpointer) + (outpointer + i) + 1]
    BY <2>3, Zenon DEF IInv, BufferShowsFile, ShowsFile
  <2>5. (currentoffset - outpointer) + (outpointer + i) + 1 = currentoffset + i + 1
    BY <2>1
  <2>6. QED
    BY <2>4, <2>5
<1>2. QED
  BY <1>1, Invariance, PTL

(* The hashes taken when the scan has ended are those of the whole file.   *)
THEOREM HashesAreOfFile == Spec => []HashesCoverFile
<1>1. IInv => HashesCoverFile
  <2> SUFFICES ASSUME IInv, status = "scanning", computefilehashes, currentoffset = filesize
               PROVE  /\ context16k = SubSeq(content, 1, Least(filesize, Limit16k))
                      /\ (IF filesize < Limit16k THEN context16k ELSE contextfull) = content
    BY DEF HashesCoverFile
  <2>1. content \in Seq(Byte) /\ filesize \in Nat /\ filesize = Len(content)
    BY FileFacts DEF IInv, TypeOK, filesize
  <2>2. ContextsHold(filesize)
    BY DEF IInv, ContextsCoverRead, EndIsRead
  <2>3. SubSeq(content, 1, filesize) = content
    BY <2>1, SubSeqFull
  <2>4. filesize < Limit16k => Least(filesize, Limit16k) = filesize
    BY <2>1 DEF Least
  <2>5. ~(filesize < Limit16k) => filesize >= Limit16k
    BY <2>1
  <2>6. QED
    BY <2>2, <2>3, <2>4, <2>5 DEF ContextsHold
<1>2. QED
  BY <1>1, Invariance, PTL

(* The assertion of Jump holds at every jump there can be.                 *)
THEOREM JumpAssertionHolds == Spec => []JumpStaysInBuffer
<1>1. IInv => JumpStaysInBuffer
  <2> SUFFICES ASSUME IInv, Scanning, NEW asked \in Distance,
                      currentoffset + JumpDistance(asked) < filesize
               PROVE  outpointer + JumpDistance(asked) <= tailpointer
    BY DEF JumpStaysInBuffer
  <2>1. JumpDistance(asked) \in 1 .. BlockSize
    BY DEF JumpDistance, Least
  <2>2. /\ currentoffset \in Nat /\ filesize \in Nat /\ outpointer \in Nat
        /\ tailpointer \in Nat /\ readoffset \in Nat
    BY WindowFacts DEF Window
  <2>3. /\ readoffset - currentoffset = tailpointer - outpointer
        /\ tailpointer - outpointer >= BlockSize \/ readoffset = filesize
    BY WindowFacts
  <2>4. QED
    BY <2>1, <2>2, <2>3
<1>2. QED
  BY <1>1, Invariance, PTL

(* A call of the scan moves the window on, and by no more than one block.  *)
THEOREM NoBlockSkipped == Spec => MovesAtMostOneBlock
<1> DEFINE Advance == (status = "scanning" /\ ~Start) =>
                        /\ currentoffset' > currentoffset
                        /\ currentoffset' <= currentoffset + BlockSize
<1>1. IInv /\ [Next]_vars => [Advance]_vars
  <2> SUFFICES ASSUME IInv, Next, status = "scanning", ~Start
               PROVE  /\ currentoffset' > currentoffset
                      /\ currentoffset' <= currentoffset + BlockSize
    OBVIOUS
  <2>1. Step \/ \E asked \in Distance : Jump(asked)
    BY DEF Next
  <2>2. Scanning
    BY <2>1 DEF Step, Jump, Scanning
  <2>3. currentoffset \in Nat /\ filesize \in Nat /\ currentoffset < filesize
    BY <2>2, WindowFacts DEF Scanning
  <2>4. PICK d \in 1 .. BlockSize :
          \/ currentoffset + d >= filesize /\ currentoffset' = filesize
          \/ currentoffset + d < filesize /\ currentoffset' = currentoffset + d
    <3>1. CASE Step
      BY <3>1 DEF Step, ReachEnd
    <3>2. ASSUME NEW asked \in Distance, Jump(asked)
          PROVE  \E d \in 1 .. BlockSize :
                   \/ currentoffset + d >= filesize /\ currentoffset' = filesize
                   \/ currentoffset + d < filesize /\ currentoffset' = currentoffset + d
      <4>1. JumpDistance(asked) \in 1 .. BlockSize
        BY DEF JumpDistance, Least
      <4>2. \/ currentoffset + JumpDistance(asked) >= filesize /\ currentoffset' = filesize
            \/ /\ currentoffset + JumpDistance(asked) < filesize
               /\ currentoffset' = currentoffset + JumpDistance(asked)
        BY <3>2, Zenon DEF Jump, ReachEnd
      <4>3. QED
        BY <4>1, <4>2, Zenon
    <3>3. QED
      BY <2>1, <3>1, <3>2
  <2>5. QED
    BY <2>3, <2>4
<1>2. QED
  BY <1>1, Invariance, PTL DEF Spec, MovesAtMostOneBlock

=============================================================================
