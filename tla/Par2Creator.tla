----------------------------- MODULE Par2Creator -----------------------------
(***************************************************************************)
(* The creation of a set: CommandLine::Parse, then Par2Creator::Process of *)
(* src/src/par2creator.cpp, with its source files (par2creatorsourcefile)  *)
(* and packets (recoverypacket, criticalpacket).                           *)
(*                                                                         *)
(* A byte is an element of the field.  A hash is the bytes it is of, and   *)
(* an MD5 context those it was given so far.  A packet is on disk when its *)
(* header is: a kill leaves what is on disk in some state of a behaviour.  *)
(***************************************************************************)
EXTENDS Integers, SequencesExt, FiniteSetsExt, ReedSolomon, CommandLine

CONSTANTS
  Asks,        \* what the command line may ask for, and the source files
  ShortFile,   \* 16384: the bytes the first hash of a file is of
  MaxChunk,    \* MAX_CHUNK_SIZE
  MaxFaults,   \* bound: calls that fail
  MaxChanges   \* bound: how often another program changes a source file

(* Files of no bytes are skipped on the command line (ReadArgs), and       *)
(* without one that has bytes nothing is created.  A number of files makes *)
(* the scheme uniform.  An exponent has as many bits as an element.        *)
ASSUME CreatorAssumption ==
  /\ {ShortFile, MaxChunk, MaxFaults, MaxChanges} \subseteq Nat
  /\ MaxExponents <= Count
  /\ \A ask \in Asks :
       /\ IsFiniteSet(DOMAIN ask.files) /\ DOMAIN ask.files # {}
       /\ ask.files \in [DOMAIN ask.files -> Seq(Field) \ {<<>>}]
       /\ ask.blocksize \in (Nat \ {0}) \union {None}
       /\ {ask.blockcount, ask.recoveryblockcount} \subseteq Nat \union {None}
       /\ {ask.redundancy, ask.redundancysize, ask.recoveryfilecount, ask.firstblock,
           ask.memorylimit} \subseteq Nat
       /\ ask.scheme \in Schemes
       /\ ask.recoveryfilecount # 0 => ask.scheme = "Uniform"

ASSUME NoneAssumption == None \notin Nat \union Seq(Field) \union {"Success"}

VARIABLES
  ask, disk,          \* the source files: name -> bytes
  blocksize, recoveryblockcount, recoveryfilecount, chunksize, deferhashcomputation,
  sourcefiles,        \* the files that were opened, sorted by file id later
  descriptions,       \* file -> [hash16k, hashfull]
  verifications,      \* file -> the hash of each block
  contextfull,        \* file -> what the deferred hash was given
  recoveryfiles,      \* the name of each, and the packets it is to hold
  names,              \* the names of those that were created
  blockoffset, inputblock, sourcefile, sourceindex, outputblock,
  matrix,             \* the factors of each recovery block
  outputbuffer,       \* of each recovery block
  recoverydata,       \* the data of each on disk
  packetcontext,      \* what the hash of each was given
  headers,            \* the recovery packets whose header is on disk
  written,            \* the number of critical packets that are
  pc, result, faults, changes

input == <<ask, disk, changes>>
sizes == <<blocksize, recoveryblockcount, recoveryfilecount, chunksize, deferhashcomputation>>
hashes == <<descriptions, verifications, contextfull>>
files == <<recoveryfiles, names>>
cursor == <<blockoffset, inputblock, sourcefile, sourceindex, outputblock>>
packets == <<recoverydata, packetcontext, headers, written>>
vars == <<input, sizes, sourcefiles, hashes, files, cursor, matrix, outputbuffer, packets, pc, result, faults>>

FileSizes == [f \in DOMAIN disk |-> Len(disk[f])]
Largest == Ceil(Max({Len(disk[f]) : f \in DOMAIN disk}), blocksize)
BlockCount(f) == Ceil(Len(disk[f]), blocksize)

(* The source blocks, file after file.                                     *)
SourceBlocks == FlattenSeq([i \in DOMAIN sourcefiles |->
  [n \in 1 .. BlockCount(sourcefiles[i]) |-> <<sourcefiles[i], n>>]])

Zeros(length) == [p \in 1 .. length |-> 0]

(* DataBlock::ReadData: what the file does not have is zero.               *)
ReadData(block, position, length) ==
  LET content == disk[block[1]]
      offset == (block[2] - 1) * blocksize + position
  IN [p \in 1 .. length |-> IF offset + p <= Len(content) THEN content[offset + p] ELSE 0]

Init ==
  /\ ask \in Asks /\ disk = ask.files
  /\ blocksize = 0 /\ recoveryblockcount = 0 /\ recoveryfilecount = ask.recoveryfilecount
  /\ chunksize = 0 /\ deferhashcomputation = FALSE
  /\ sourcefiles = <<>> /\ descriptions = <<>> /\ verifications = <<>> /\ contextfull = <<>>
  /\ recoveryfiles = <<>> /\ names = {}
  /\ blockoffset = 0 /\ inputblock = 1 /\ sourcefile = 1 /\ sourceindex = 0 /\ outputblock = 1
  /\ matrix = <<>> /\ outputbuffer = <<>> /\ recoverydata = <<>> /\ packetcontext = <<>>
  /\ headers = {} /\ written = 0
  /\ pc = "Parse" /\ result = None /\ faults = 0 /\ changes = 0

Fault == faults < MaxFaults /\ faults' = faults + 1
Stop(why) == pc' = "Done" /\ result' = why
Goto(label) == pc' = label /\ UNCHANGED <<result, faults>>

-----------------------------------------------------------------------------
(* Before anything is written.                                             *)

(* CommandLine::Parse                                                      *)
Parse ==
  /\ pc = "Parse"
  /\ LET size == IF ask.blocksize # None THEN ask.blocksize
                 ELSE IF ask.blockcount # None THEN ComputeBlockSize(FileSizes, ask.blockcount)
                 ELSE DefaultBlockSize(FileSizes)
         largest == Ceil(Max({Len(disk[f]) : f \in DOMAIN disk}), size)
         number == ComputeRecoveryBlockCount(ask, SourceBlockCount(FileSizes, size), size, largest)
     IN IF size = None THEN Stop("InvalidCommandLineArguments") /\ UNCHANGED <<sizes, faults>>
        ELSE IF SourceBlockCount(FileSizes, size) > MaxBlocks \/ number = None
        THEN Stop("InvalidCommandLineArguments") /\ UNCHANGED <<sizes, faults>>
        ELSE /\ blocksize' = size /\ recoveryblockcount' = number
             /\ UNCHANGED <<recoveryfilecount, chunksize, deferhashcomputation>>
             /\ Goto("CheckBasepath")
  /\ UNCHANGED <<input, sourcefiles, hashes, files, cursor, matrix, outputbuffer, packets>>

(* A file is created beside the set and deleted.                           *)
CheckBasepath ==
  /\ pc = "CheckBasepath"
  /\ Goto("Compute") \/ (Fault /\ Stop("FileIOError"))
  /\ UNCHANGED <<input, sizes, sourcefiles, hashes, files, cursor, matrix, outputbuffer, packets>>

(* ComputeBlockCount, ComputeRecoveryFileCount, CalculateProcessBlockSize  *)
ComputeSizes ==
  /\ pc = "Compute"
  /\ LET filecount == ComputeRecoveryFileCount(ask.scheme, recoveryfilecount, recoveryblockcount, Largest)
         inmemory == blocksize * recoveryblockcount <= ask.memorylimit
         chunk == IF inmemory THEN blocksize
                  ELSE Align * (ask.memorylimit \div (recoveryblockcount * Align))
         cut == MaxChunk # 0 /\ chunk > MaxChunk
     IN IF \/ blocksize = 0 \/ blocksize % Align # 0 \/ filecount = None
           \/ SourceBlockCount(FileSizes, blocksize) > MaxBlocks
        THEN Stop("InvalidCommandLineArguments") /\ UNCHANGED <<sizes, faults>>
        ELSE /\ recoveryfilecount' = filecount
             /\ chunksize' = IF recoveryblockcount = 0 THEN 0 ELSE IF cut THEN MaxChunk ELSE chunk
             /\ deferhashcomputation' = (recoveryblockcount # 0 /\ inmemory /\ ~cut)
             /\ UNCHANGED <<blocksize, recoveryblockcount>>
             /\ Goto("OpenSourceFiles")
  /\ UNCHANGED <<input, sourcefiles, hashes, files, cursor, matrix, outputbuffer, packets>>

(* Par2CreatorSourceFile::Open, for the files in any order.  The hashes    *)
(* are of what the file has now, or all but the first are deferred.        *)
OpenSourceFile(f) ==
  /\ pc = "OpenSourceFiles" /\ f \in DOMAIN disk \ ToSet(sourcefiles)
  /\ LET With(table, value) == [g \in DOMAIN table \union {f} |-> IF g = f THEN value ELSE table[g]]
     IN \/ /\ sourcefiles' = Append(sourcefiles, f)
           /\ descriptions' = With(descriptions,
                [hash16k |-> SubSeq(disk[f], 1, Least(ShortFile, Len(disk[f]))),
                 hashfull |-> IF deferhashcomputation THEN None ELSE disk[f]])
           /\ verifications' = With(verifications, [n \in 1 .. BlockCount(f) |->
                IF deferhashcomputation THEN None ELSE ReadData(<<f, n>>, 0, blocksize)])
           /\ contextfull' = With(contextfull, <<>>)
           /\ UNCHANGED <<pc, result, faults>>
        \/ Fault /\ Stop("FileIOError") /\ UNCHANGED <<sourcefiles, hashes>>
  /\ UNCHANGED <<input, sizes, files, cursor, matrix, outputbuffer, packets>>

CriticalPackets(order) ==
  <<[type |-> "Main"]>>
  \o [i \in DOMAIN order |-> [type |-> "Description", of |-> order[i]]]
  \o [i \in DOMAIN order |-> [type |-> "Verification", of |-> order[i]]]

(* CreateMainPacket sorts the files by id, that is by a hash: any order.   *)
(* Then InitialiseOutputFiles decides what each file will hold.            *)
CreateMainPacket ==
  /\ pc = "OpenSourceFiles" /\ ToSet(sourcefiles) = DOMAIN disk
  /\ \E order \in SetToSeqs(DOMAIN disk),
        allocations \in {FileAllocations(ask.scheme, ask.firstblock, recoveryblockcount,
                                         recoveryfilecount, Largest)} :
       /\ sourcefiles' = order
       /\ recoveryfiles' = PacketsOfFiles(allocations, CriticalPackets(order), [type |-> "Creator"])
  /\ recoverydata' = [i \in 1 .. recoveryblockcount |-> Zeros(blocksize)]
  /\ packetcontext' = [i \in 1 .. recoveryblockcount |-> <<>>]
  /\ Goto("CreateFiles")
  /\ UNCHANGED <<input, sizes, hashes, names, cursor, matrix, outputbuffer, headers, written>>

(* The files are created one after the other, at their full size.  A file  *)
(* that exists is not replaced.                                            *)
CreateFile ==
  /\ pc = "CreateFiles" /\ Cardinality(names) < Len(recoveryfiles)
  /\ LET name == recoveryfiles[Cardinality(names) + 1].name
     IN \/ name \notin names /\ names' = names \union {name} /\ UNCHANGED <<pc, result, faults>>
        \/ name \in names /\ Stop("FileIOError") /\ UNCHANGED <<names, faults>>
        \/ Fault /\ Stop("FileIOError") /\ UNCHANGED names
  /\ UNCHANGED <<input, sizes, sourcefiles, hashes, recoveryfiles, cursor, matrix, outputbuffer, packets>>

Matrix == Compute(Len(SourceBlocks), {},
  [i \in 1 .. recoveryblockcount |-> [present |-> FALSE, exponent |-> ask.firstblock + i - 1]])

ComputeRSMatrix ==
  /\ pc = "CreateFiles" /\ Cardinality(names) = Len(recoveryfiles)
  /\ IF recoveryblockcount = 0 THEN Goto("WriteCriticalPackets") /\ UNCHANGED <<matrix, outputbuffer>>
     ELSE IF TooManyInputs(Len(SourceBlocks))
     THEN Stop("LogicError") /\ UNCHANGED <<matrix, outputbuffer, faults>>
     ELSE /\ matrix' = Matrix
          /\ outputbuffer' = [i \in 1 .. recoveryblockcount |-> Zeros(Least(chunksize, blocksize))]
          /\ Goto("ProcessData")
  /\ UNCHANGED <<input, sizes, sourcefiles, hashes, files, cursor, packets>>

-----------------------------------------------------------------------------
(* ProcessData: every pass reads a chunk of each source block and writes   *)
(* that chunk of each recovery block.                                      *)

ChunkLength == Least(chunksize, blocksize - blockoffset)

(* A slip: the zeros after the end of a file are hashed as well.           *)
PaddedHashes(data) ==
  LET f == sourcefiles[sourcefile]
  IN /\ verifications' = [verifications EXCEPT ![f][sourceindex + 1] = data]
     /\ contextfull' = [contextfull EXCEPT ![f] = @ \o data]

(* Par2CreatorSourceFile::UpdateHashes                                     *)
UpdateHashes(data) ==
  LET f == sourcefiles[sourcefile]
  IN /\ verifications' = [verifications EXCEPT ![f][sourceindex + 1] = data]
     /\ contextfull' = [contextfull EXCEPT ![f] =
          @ \o SubSeq(data, 1, Least(Len(data), Len(disk[f]) - sourceindex * blocksize))]

(* A slip: the file of the next block is known one block too late.         *)
LateNextSource ==
  IF sourceindex + 1 > BlockCount(sourcefiles[sourcefile])
  THEN sourcefile' = sourcefile + 1 /\ sourceindex' = 0
  ELSE sourceindex' = sourceindex + 1 /\ UNCHANGED sourcefile

NextSource ==
  IF sourceindex + 1 >= BlockCount(sourcefiles[sourcefile])
  THEN sourcefile' = sourcefile + 1 /\ sourceindex' = 0
  ELSE sourceindex' = sourceindex + 1 /\ UNCHANGED sourcefile

ReadBlock ==
  /\ pc = "ProcessData" /\ inputblock <= Len(SourceBlocks)
  /\ \/ \E data \in {ReadData(SourceBlocks[inputblock], blockoffset, ChunkLength)} :
           /\ IF deferhashcomputation THEN UpdateHashes(data) ELSE UNCHANGED <<verifications, contextfull>>
           /\ outputbuffer' = [i \in DOMAIN outputbuffer |->
                Process(matrix[<<i, inputblock>>], data, outputbuffer[i])]
           /\ NextSource
           /\ inputblock' = inputblock + 1
           /\ UNCHANGED <<pc, result, faults>>
     \/ /\ Fault /\ Stop("FileIOError")
        /\ UNCHANGED <<verifications, contextfull, outputbuffer, inputblock, sourcefile, sourceindex>>
  /\ UNCHANGED <<input, sizes, sourcefiles, descriptions, files, blockoffset, outputblock, matrix, packets>>

(* RecoveryPacket::WriteData                                               *)
WriteData ==
  /\ pc = "ProcessData" /\ inputblock > Len(SourceBlocks) /\ outputblock <= recoveryblockcount
  /\ \/ /\ packetcontext' = [packetcontext EXCEPT ![outputblock] = @ \o outputbuffer[outputblock]]
        /\ recoverydata' = [recoverydata EXCEPT ![outputblock] =
             SubSeq(@, 1, blockoffset) \o outputbuffer[outputblock]
             \o SubSeq(@, blockoffset + ChunkLength + 1, blocksize)]
        /\ outputblock' = outputblock + 1
        /\ UNCHANGED <<pc, result, faults>>
     \/ Fault /\ Stop("FileIOError") /\ UNCHANGED <<packetcontext, recoverydata, outputblock>>
  /\ UNCHANGED <<input, sizes, sourcefiles, hashes, files, matrix, outputbuffer, headers, written,
                 blockoffset, inputblock, sourcefile, sourceindex>>

(* A slip: the output buffer still has the last chunk.                     *)
UnclearedPass ==
  /\ inputblock' = 1 /\ sourcefile' = 1 /\ sourceindex' = 0 /\ outputblock' = 1
  /\ outputbuffer' = [i \in DOMAIN outputbuffer |->
       SubSeq(outputbuffer[i], 1, Least(chunksize, blocksize - blockoffset'))]

(* The next pass starts from the first block and a buffer of zeros.        *)
NextPass ==
  /\ inputblock' = 1 /\ sourcefile' = 1 /\ sourceindex' = 0 /\ outputblock' = 1
  /\ outputbuffer' = [i \in DOMAIN outputbuffer |-> Zeros(Least(chunksize, blocksize - blockoffset'))]

(* A slip: there is a pass at the end of the block.                        *)
OneMorePass == blockoffset + ChunkLength <= blocksize

MorePasses == blockoffset + ChunkLength < blocksize

EndPass ==
  /\ pc = "ProcessData" /\ inputblock > Len(SourceBlocks) /\ outputblock > recoveryblockcount
  /\ blockoffset' = blockoffset + ChunkLength
  /\ IF MorePasses
     THEN NextPass /\ UNCHANGED <<pc, result, faults>>
     ELSE Goto("WriteHeaders") /\ UNCHANGED <<outputbuffer, inputblock, sourcefile, sourceindex, outputblock>>
  /\ UNCHANGED <<input, sizes, sourcefiles, hashes, files, matrix, packets>>

-----------------------------------------------------------------------------
(* What makes the packets valid.                                           *)

(* WriteRecoveryPacketHeaders, in the order of the packets.                *)
WriteHeader ==
  /\ pc = "WriteHeaders" /\ Cardinality(headers) < recoveryblockcount
  /\ \/ headers' = headers \union {Cardinality(headers) + 1} /\ UNCHANGED <<pc, result, faults>>
     \/ Fault /\ Stop("FileIOError") /\ UNCHANGED headers
  /\ UNCHANGED <<input, sizes, sourcefiles, hashes, files, cursor, matrix, outputbuffer,
                 recoverydata, packetcontext, written>>

FinishFileHashComputation ==
  /\ pc = "WriteHeaders" /\ Cardinality(headers) = recoveryblockcount
  /\ descriptions' = IF deferhashcomputation
                     THEN [f \in DOMAIN descriptions |-> [descriptions[f] EXCEPT !.hashfull = contextfull[f]]]
                     ELSE descriptions
  /\ Goto("WriteCriticalPackets")
  /\ UNCHANGED <<input, sizes, sourcefiles, verifications, contextfull, files, cursor, matrix, outputbuffer, packets>>

(* criticalpacketentries, in the order of the files and their offsets      *)
CriticalPacketEntries ==
  SelectSeq(FlattenSeq([n \in DOMAIN recoveryfiles |-> recoveryfiles[n].packets]),
            LAMBDA p : p.type # "Recovery")

WriteCriticalPacket ==
  /\ pc = "WriteCriticalPackets" /\ written < Len(CriticalPacketEntries)
  /\ \/ written' = written + 1 /\ UNCHANGED <<pc, result, faults>>
     \/ Fault /\ Stop("FileIOError") /\ UNCHANGED written
  /\ UNCHANGED <<input, sizes, sourcefiles, hashes, files, cursor, matrix, outputbuffer,
                 recoverydata, packetcontext, headers>>

CloseFiles ==
  /\ pc = "WriteCriticalPackets" /\ written = Len(CriticalPacketEntries)
  /\ Stop("Success")
  /\ UNCHANGED <<input, sizes, sourcefiles, hashes, files, cursor, matrix, outputbuffer, packets, faults>>

(* Another program writes a byte of a source file, at any time.            *)
SourceChanges ==
  /\ pc # "Done" /\ ask.shared /\ changes < MaxChanges /\ changes' = changes + 1
  /\ \E f \in DOMAIN disk : \E p \in DOMAIN disk[f] :
       disk' = [disk EXCEPT ![f][p] = (@ + 1) % Count]
  /\ UNCHANGED <<ask, sizes, sourcefiles, hashes, files, cursor, matrix, outputbuffer, packets, pc, result, faults>>

Create ==
  \/ Parse \/ CheckBasepath \/ ComputeSizes \/ CreateMainPacket \/ CreateFile \/ ComputeRSMatrix
  \/ ReadBlock \/ WriteData \/ EndPass \/ WriteHeader \/ FinishFileHashComputation
  \/ WriteCriticalPacket \/ CloseFiles
  \/ \E f \in DOMAIN disk : OpenSourceFile(f)

Next == Create \/ SourceChanges

Spec == Init /\ [][Next]_vars
FairSpec == Spec /\ WF_vars(Create)

-----------------------------------------------------------------------------
(* Properties.                                                             *)

Results == {None, "Success", "InvalidCommandLineArguments", "FileIOError", "LogicError"}
MaybeHash == Seq(Field) \union {None}

(* Type invariant: cursors stay inside the blocks and files that the four  *)
(* loops of Process go over; None is a hash that is still to be computed.  *)
TypeOK ==
  /\ disk \in [DOMAIN ask.files -> Seq(Field)] /\ FileSizes = [f \in DOMAIN ask.files |-> Len(ask.files[f])]
  /\ {blocksize, recoveryblockcount, recoveryfilecount, chunksize} \subseteq Nat
  /\ deferhashcomputation \in BOOLEAN
  /\ \A f \in ToSet(sourcefiles) : descriptions[f].hashfull \in MaybeHash
                                /\ verifications[f] \in [1 .. BlockCount(f) -> MaybeHash]
                                /\ Len(contextfull[f]) <= Len(disk[f])
  /\ names \subseteq {recoveryfiles[n].name : n \in DOMAIN recoveryfiles}
  /\ blockoffset \in 0 .. blocksize
  /\ pc = "ProcessData" => /\ inputblock \in 1 .. Len(SourceBlocks) + 1
                           /\ outputblock \in 1 .. recoveryblockcount + 1
                           /\ inputblock <= Len(SourceBlocks) =>
                                SourceBlocks[inputblock] = <<sourcefiles[sourcefile], sourceindex + 1>>
                           /\ \A i \in DOMAIN outputbuffer : Len(outputbuffer[i]) = ChunkLength
  /\ \A i \in DOMAIN recoverydata : recoverydata[i] \in [1 .. blocksize -> Field]
  /\ headers \subseteq DOMAIN recoverydata
  /\ result \in Results /\ faults \in 0 .. MaxFaults /\ changes \in 0 .. MaxChanges

(* With a number of blocks asked for, the block size is the smallest one   *)
(* that gives no more blocks than that (ComputeBlockSize, whose bisection  *)
(* works with bounds that are only estimates).                             *)
BlockSizeFits ==
  (pc # "Parse" /\ blocksize # 0 /\ ask.blocksize = None /\ ask.blockcount # None) =>
    /\ SourceBlockCount(FileSizes, blocksize) <= ask.blockcount
    /\ blocksize > Align => SourceBlockCount(FileSizes, blocksize - Align) > ask.blockcount

RecoveryPacket(i) == [type |-> "Recovery", of |-> i, exponent |-> ask.firstblock + i - 1]
Volumes == 1 .. Len(recoveryfiles) - 1
Places(p) == UNION {{n} \X {k \in DOMAIN recoveryfiles[n].packets : recoveryfiles[n].packets[k] = p} :
                      n \in DOMAIN recoveryfiles}
Copies(n, p) == Cardinality({k \in DOMAIN recoveryfiles[n].packets : recoveryfiles[n].packets[k] = p})

(* What the name of a file says of its recovery packets, and their order.  *)
NamedRightly(n) ==
  LET name == recoveryfiles[n].name
      packetsof == recoveryfiles[n].packets
      recovery == {k \in DOMAIN packetsof : packetsof[k].type = "Recovery"}
  IN /\ \A k \in recovery : \E i \in 1 .. recoveryblockcount :
          packetsof[k] = RecoveryPacket(i) /\ packetsof[k].exponent \in name[1] .. name[1] + name[2] - 1
     /\ \A j, k \in recovery : j < k => packetsof[j].of < packetsof[k].of

(* InitialiseOutputFiles: every exponent that was asked for is in one      *)
(* volume, that with its name, once, under the row of the matrix that is   *)
(* computed for it; no two files have the same name, and the volumes are   *)
(* in the order of their exponents, none empty; every file has all         *)
(* critical packets, each as often as the others; and the volumes are as   *)
(* even, or as limited, as the scheme promises.                            *)
VolumesFit ==
  recoveryfiles # <<>> =>
    /\ \A i \in 1 .. recoveryblockcount : Cardinality(Places(RecoveryPacket(i))) = 1
    /\ \A n \in DOMAIN recoveryfiles : NamedRightly(n)
    /\ \A m, n \in DOMAIN recoveryfiles : recoveryfiles[m].name = recoveryfiles[n].name => m = n
    /\ \A n \in Volumes : recoveryfiles[n].name[2] > 0
    /\ \A m, n \in Volumes : m < n => recoveryfiles[m].name[1] < recoveryfiles[n].name[1]
    /\ \A n \in DOMAIN recoveryfiles :
         /\ \A p, q \in ToSet(CriticalPackets(sourcefiles)) : Copies(n, p) = Copies(n, q) /\ Copies(n, p) > 0
         /\ Copies(n, [type |-> "Creator"]) = 1
    /\ ask.scheme = "Uniform" =>
         \A m, n \in Volumes : recoveryfiles[m].name[2] <= recoveryfiles[n].name[2] + 1
    /\ ask.scheme = "Limited" => \A n \in Volumes : recoveryfiles[n].name[2] <= Largest

(* A kill or a failure at any time leaves no packet that is valid and      *)
(* wrong: a recovery packet with its header has the data of the source     *)
(* blocks that the hashes are of, and critical packets are written when    *)
(* every hash in them is computed (WriteRecoveryPacketHeaders and          *)
(* WriteCriticalPackets come last).  Only with the hashes computed first   *)
(* can a source file that changes in between come out differently.         *)
PacketsOnDiskTrue ==
  /\ \A i \in headers :
       /\ packetcontext[i] = recoverydata[i]
       /\ (deferhashcomputation \/ changes = 0) =>
            recoverydata[i] = Output(matrix, i, FlattenSeq(
              [n \in DOMAIN sourcefiles |-> verifications[sourcefiles[n]]]))
  /\ written > 0 => \A f \in DOMAIN disk :
       descriptions[f].hashfull # None /\ None \notin ToSet(verifications[f])

(* The hash of a file and those of its blocks are of the same bytes, in    *)
(* their order, though deferred ones are put together from blocks that are *)
(* read for the recovery data (UpdateHashes, FinishHashes).  The first     *)
(* hash is read before: it is of them if nobody changes the file.          *)
HashesAgree ==
  result = "Success" => \A f \in DOMAIN disk :
    /\ descriptions[f].hashfull = SubSeq(FlattenSeq(verifications[f]), 1, Len(disk[f]))
    /\ changes = 0 => IsPrefix(descriptions[f].hash16k, descriptions[f].hashfull)

(* Par2Repairer with this set: the source blocks in missing are computed   *)
(* from the others and from the recovery packets in used.                  *)
Described == FlattenSeq([n \in DOMAIN sourcefiles |-> verifications[sourcefiles[n]]])
Repairs == {repair \in (SUBSET DOMAIN Described) \X (SUBSET headers) :
              repair[1] # {} /\ Cardinality(repair[1]) = Cardinality(repair[2])}
Solved(missing, used) ==
  Compute(Len(Described), missing, [i \in 1 .. Cardinality(used) |->
    [present |-> TRUE, exponent |-> ask.firstblock + Indices(recoveryblockcount, used)[i] - 1]])
Repaired(solved, missing, used) ==
  LET present == Indices(Len(Described), DOMAIN Described \ missing)
      taken == Indices(recoveryblockcount, used)
      inputs == [i \in DOMAIN present |-> Described[present[i]]]
             \o [i \in DOMAIN taken |-> recoverydata[taken[i]]]
  IN [i \in DOMAIN taken |-> Output(solved, i, inputs)]

(* A set that was made repairs: whatever blocks are lost and whatever      *)
(* recovery packets are left, as many as those, if the matrix is solved    *)
(* the blocks that come out are those the verification packets describe.   *)
RecoveryRepairs ==
  (result = "Success" /\ (deferhashcomputation \/ changes = 0)) =>
    \A repair \in Repairs : \A solved \in {Solved(repair[1], repair[2])} \ {Unsolvable} :
      Repaired(solved, repair[1], repair[2]) =
        [i \in 1 .. Cardinality(repair[1]) |-> Described[Indices(Len(Described), repair[1])[i]]]

(* The recovery packets of one volume, and those of volumes that follow    *)
(* each other, are without a gap.  As many of them as blocks are lost are  *)
(* enough, whichever blocks those are: no pivot of GaussElim is zero.      *)
WithoutGaps(used) == \E first \in used : used = first .. first + Cardinality(used) - 1
SolvableWithoutGaps ==
  result = "Success" =>
    \A repair \in Repairs : WithoutGaps(repair[2]) => Solved(repair[1], repair[2]) # Unsolvable

(* "Because the matrices being operated on are Vandermonde matrices they   *)
(* are guaranteed not to be singular" (GaussElim): as many recovery        *)
(* packets as blocks are lost are always enough.                           *)
NeverSingular ==
  result = "Success" => \A repair \in Repairs : Solved(repair[1], repair[2]) # Unsolvable

(* Every creation ends: each pass over the blocks moves on (Process).      *)
CreateEnds == <>(pc = "Done")

=============================================================================
