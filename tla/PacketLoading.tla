--------------------------- MODULE PacketLoading ---------------------------
(***************************************************************************)
(* Par2Repairer::Process (src/src/par2repairer.cpp) before it verifies:    *)
(* it finds the PAR2 files, searches each for packets, keeps those of one  *)
(* set, drops what is inconsistent and lays out the blocks.                *)
(*                                                                         *)
(* A file is its size and a function from the offsets at which the magic   *)
(* stands to what follows there: the length the header claims, whether the *)
(* hash is that of the packet, its set, its type and what it is about.     *)
(* A name is a sequence of words, the text between its dots.               *)
(***************************************************************************)
EXTENDS Integers, SequencesExt, FiniteSetsExt

CONSTANTS
  Disks,           \* what may be on disk: name -> [size, packets]
  ParFilenames,    \* the PAR2 files one of which is named first on the command line
  ExtraFiles,      \* the other files named there
  Par2Words,       \* the last words of a PAR2 file's name, in any case
  VolumeWords,     \* the words like vol12+3
  HeaderSize,      \* sizeof(PACKET_HEADER)
  FieldsSize,      \* the fixed fields a packet has after its header
  EntrySize,       \* of a file id, and of a verification entry
  MaxEntries,      \* 32768: the most of either in a packet
  MaxText,         \* 100000: the longest file name, or creator's description
  ShortFile,       \* 16384: a file that short has one hash
  BufferSize,      \* how much is read at once
  MaxU32,          \* the largest 32-bit number
  OpenFails,       \* whether opening a file that is there may fail
  MaxFaults,       \* bound: calls that fail
  None

ASSUME LoadingAssumption ==
  /\ HeaderSize \in Nat \ {0} /\ EntrySize \in Nat \ {0} /\ FieldsSize \in Nat
  /\ BufferSize \in Nat /\ BufferSize >= HeaderSize
  /\ {MaxEntries, MaxText, ShortFile, MaxU32, MaxFaults} \subseteq Nat /\ None \notin Nat
  /\ ParFilenames \union ExtraFiles \subseteq Seq(STRING) \ {<<>>}
  /\ \A d \in Disks : \A name \in DOMAIN d :
       /\ name \in Seq(STRING) /\ name # None /\ d[name].size \in Nat
       /\ \A o \in DOMAIN d[name].packets :
            /\ o \in Nat /\ d[name].packets[o].length \in Nat
            /\ d[name].packets[o].set # None

VARIABLES
  disk, parfilename,
  worklist,           \* the names still to load, a sequence of sets
  par2list,
  file, offset, at, packets,        \* the file that is read, where, and how far
  diskFileMap,                      \* the names of the files that are kept
  setid, mainpacket, creatorpacket,
  recoverypacketmap,  \* exponent -> [file, offset, size]
  sourcefilemap,      \* file id -> [description, verification, blockcount]
  sourcefiles,        \* file ids in the order of the main packet, None for a gap
  sourceblockcount,
  blocks,             \* file id -> the number of its first block
  entries,            \* <<file id, n, block>>: the verification hash table
  pc, result, faults

input == <<disk, parfilename>>
names == <<worklist, par2list>>
reading == <<file, offset, at, packets>>
loaded == <<setid, mainpacket, creatorpacket, recoverypacketmap, sourcefilemap>>
layout == <<sourcefiles, sourceblockcount, blocks, entries>>
vars == <<input, names, reading, diskFileMap, loaded, layout, pc, result, faults>>

With(f, key, value) == [k \in DOMAIN f \union {key} |-> IF k = key THEN value ELSE f[k]]

Fault == faults < MaxFaults /\ faults' = faults + 1

-----------------------------------------------------------------------------
(* Which files are loaded.                                                 *)

IsPar2Filename(name) == Len(name) > 1 /\ Last(name) \in Par2Words

(* A slip: the volume part of the name stays on.                           *)
StemWithVolume(name) ==
  LET ends == {i \in 2 .. Len(name) : name[i] \in Par2Words}
  IN SubSeq(name, 1, IF ends = {} THEN 1 ELSE Max(ends) - 1)

Stem(name) ==
  LET ends == {i \in 2 .. Len(name) : name[i] \in Par2Words}
      front == SubSeq(name, 1, IF ends = {} THEN 1 ELSE Max(ends) - 1)
  IN IF Len(front) > 1 /\ Last(front) \in VolumeWords THEN Front(front) ELSE front

(* The regular files called stem.*.word                                    *)
FindFiles(stem, word) ==
  {name \in DOMAIN disk : Len(name) > Len(stem) + 1 /\ IsPrefix(stem, name) /\ Last(name) = word}

Init ==
  /\ disk \in Disks /\ parfilename \in ParFilenames
  /\ worklist = <<{parfilename}>> /\ par2list = {parfilename}
  /\ file = None /\ offset = 0 /\ at = "Header" /\ packets = 0
  /\ diskFileMap = {}
  /\ setid = None /\ mainpacket = None /\ creatorpacket = FALSE
  /\ recoverypacketmap = <<>> /\ sourcefilemap = <<>>
  /\ sourcefiles = <<>> /\ sourceblockcount = 0 /\ blocks = <<>> /\ entries = {}
  /\ pc = "ParFile" /\ result = None /\ faults = 0

(* The list starts with the PAR2 file itself, which is so tried twice.     *)
LoadPacketsFromOtherFiles ==
  /\ pc = "ParFile" /\ worklist = <<>>
  /\ \E stem \in {Stem(parfilename)} :
       /\ par2list' = par2list \union FindFiles(stem, "par2") \union FindFiles(stem, "PAR2")
       /\ worklist' = <<{parfilename}, FindFiles(stem, "par2"), FindFiles(stem, "PAR2"),
                        {name \in ExtraFiles : IsPar2Filename(name)}>>
  /\ pc' = "OtherFiles"
  /\ UNCHANGED <<input, reading, diskFileMap, loaded, layout, result, faults>>

Between == file = None /\ pc \in {"ParFile", "OtherFiles"}

NextName ==
  /\ Between /\ worklist # <<>> /\ Head(worklist) = {}
  /\ worklist' = Tail(worklist)
  /\ UNCHANGED <<input, par2list, reading, diskFileMap, loaded, layout, pc, result, faults>>

(* A file that is kept already, or cannot be opened, is passed over.       *)
OpenFile(name) ==
  /\ Between /\ worklist # <<>> /\ name \in Head(worklist)
  /\ worklist' = [worklist EXCEPT ![1] = @ \ {name}]
  /\ \/ /\ name \in diskFileMap \/ name \notin DOMAIN disk
        /\ UNCHANGED <<reading, faults>>
     \/ /\ name \in DOMAIN disk \ diskFileMap
        /\ \/ OpenFails /\ Fault /\ UNCHANGED reading
           \/ /\ file' = name /\ offset' = 0 /\ at' = "Header" /\ packets' = 0
              /\ UNCHANGED faults
  /\ UNCHANGED <<input, par2list, diskFileMap, loaded, layout, pc, result>>

-----------------------------------------------------------------------------
(* LoadPacketsFromFile: the search for packets.                            *)

size == disk[file].size
header == disk[file].packets[offset]
Magic(o) == o \in DOMAIN disk[file].packets

MoveTo(o, next) == offset' = o /\ at' = next /\ UNCHANGED <<file, packets>>

ReadHeader ==
  /\ file # None /\ at = "Header" /\ offset + HeaderSize <= size
  /\ \/ Fault /\ MoveTo(offset, "End")
     \/ UNCHANGED faults
        /\ IF Magic(offset) THEN MoveTo(offset, "Packet") ELSE MoveTo(offset + 1, "Search")
  /\ UNCHANGED <<input, names, diskFileMap, loaded, layout, pc, result>>

(* A slip: the last place of a buffer a header fits in is not looked at,   *)
(* and the next buffer starts behind it.                                   *)
SearchShort(want) ==
  LET found == {o \in offset .. offset + want - HeaderSize : Magic(o) /\ o + HeaderSize < offset + want}
  IN IF found # {} THEN MoveTo(Min(found), "Packet")
     ELSE MoveTo(offset + want - HeaderSize + 1, "Search")

SearchBuffer(want) ==
  LET found == {o \in offset .. offset + want - HeaderSize : Magic(o)}
  IN IF found # {} THEN MoveTo(Min(found), "Packet")
     ELSE MoveTo(offset + want - HeaderSize + 1, "Search")

Search ==
  /\ file # None /\ at = "Search" /\ offset + HeaderSize <= size
  /\ \/ Fault /\ MoveTo(offset, "End")
     \/ SearchBuffer(Min({BufferSize, size - offset})) /\ UNCHANGED faults
  /\ UNCHANGED <<input, names, diskFileMap, loaded, layout, pc, result>>

LengthValid ==
  header.length >= HeaderSize /\ header.length % 4 = 0 /\ offset + header.length <= size

(* A slip: after what is no packet the search goes on at its end.          *)
PastPacket == offset + header.length
(* A slip: the search goes on where it was.                                *)
PastNothing == offset
PastFirstByte == offset + 1

(* What looks like a packet and is none, or cannot be read, is searched    *)
(* for packets from its second byte on.                                    *)
NoPacket ==
  /\ file # None /\ at = "Packet"
  /\ \/ ~(LengthValid /\ header.intact) /\ UNCHANGED faults
     \/ LengthValid /\ header.length > HeaderSize /\ Fault
  /\ MoveTo(PastFirstByte, "Header")
  /\ UNCHANGED <<input, names, diskFileMap, loaded, layout, pc, result>>

-----------------------------------------------------------------------------
(* What is kept after the loader of each type has seen the packet.         *)

Body(p) == p.length - HeaderSize - FieldsSize
WholeEntries(p) == Body(p) % EntrySize = 0 /\ Body(p) <= MaxEntries * EntrySize

(* What a loader asks of a packet of its type.                             *)
Sound(p) ==
  CASE p.type = "recovery" -> Body(p) > 0
    [] p.type = "verification" -> Body(p) > 0 /\ WholeEntries(p)
    [] p.type = "description" -> /\ Body(p) > 0 /\ Body(p) <= MaxText
                                 /\ p.about.filesize > ShortFile \/ p.about.hashesagree
    [] p.type = "main" -> /\ Body(p) >= 0 /\ WholeEntries(p)
                          /\ p.about.recoverablefilecount <= Body(p) \div EntrySize
                          /\ p.about.blocksize > 0 /\ p.about.blocksize % 4 = 0
    [] p.type = "creator" -> Body(p) > 0 /\ Body(p) <= MaxText
    [] OTHER -> FALSE

(* What a packet is about is what its body holds: a main packet the files  *)
(* of the set, as many as there is room for, the recoverable ones first.   *)
ASSUME PacketsAssumption ==
  \A d \in Disks : \A name \in DOMAIN d : \A o \in DOMAIN d[name].packets :
    LET p == d[name].packets[o]
    IN p.intact /\ Sound(p) =>
         /\ p.type = "main" =>
              /\ p.about # None /\ DOMAIN p.about.files = 1 .. Body(p) \div EntrySize
              /\ \A n \in DOMAIN p.about.files : p.about.files[n] # None
              /\ {p.about.recoverablefilecount, p.about.blocksize} \subseteq Nat
         /\ p.type = "description" => p.about.filesize \in Nat

Loads(type) == header.type = type /\ Sound(header)

Described == {id \in DOMAIN sourcefilemap : sourcefilemap[id].description # None}
Verified == {id \in DOMAIN sourcefilemap : sourcefilemap[id].verification # None}
SourceFile(id) ==
  IF id \in DOMAIN sourcefilemap THEN sourcefilemap[id]
  ELSE [description |-> None, verification |-> None, blockcount |-> 0]

LoadRecoveryPacket ==
  IF Loads("recovery") /\ header.about \notin DOMAIN recoverypacketmap
  THEN With(recoverypacketmap, header.about,
            [file |-> file, offset |-> offset, size |-> Body(header)])
  ELSE recoverypacketmap

LoadVerificationPacket ==
  IF Loads("verification") /\ header.about \notin Verified
  THEN With(sourcefilemap, header.about,
            [SourceFile(header.about) EXCEPT !.verification = Body(header) \div EntrySize])
  ELSE sourcefilemap

LoadDescriptionPacket ==
  IF Loads("description") /\ header.about.file \notin Described
  THEN With(sourcefilemap, header.about.file,
            [SourceFile(header.about.file) EXCEPT !.description = header.about.filesize])
  ELSE sourcefilemap

LoadMainPacket == IF Loads("main") /\ mainpacket = None THEN header.about ELSE mainpacket

LoadCreatorPacket == creatorpacket \/ Loads("creator")

(* The first packet fixes the set.  A packet of the set may prove to be    *)
(* unreadable when its loader reads the rest of it.                        *)
TakePacket ==
  /\ file # None /\ at = "Packet" /\ LengthValid /\ header.intact
  /\ setid' = IF setid = None THEN header.set ELSE setid
  /\ \/ /\ header.set = setid'
        /\ mainpacket' = LoadMainPacket /\ creatorpacket' = LoadCreatorPacket
        /\ recoverypacketmap' = LoadRecoveryPacket
        /\ sourcefilemap' = IF header.type = "verification" THEN LoadVerificationPacket
                            ELSE LoadDescriptionPacket
        /\ UNCHANGED faults
     \/ /\ header.set = setid' => Fault
        /\ header.set # setid' => UNCHANGED faults
        /\ UNCHANGED <<mainpacket, creatorpacket, recoverypacketmap, sourcefilemap>>
  /\ packets' = packets + (IF UNCHANGED <<mainpacket, creatorpacket, recoverypacketmap,
                                          sourcefilemap>> THEN 0 ELSE 1)
  /\ offset' = offset + header.length /\ at' = "Header" /\ UNCHANGED file
  /\ UNCHANGED <<input, names, diskFileMap, layout, pc, result>>

(* A slip: a file with one packet is not worth keeping.                    *)
WorthKeeping == packets > 1
Interesting == packets > 0

(* A file that had nothing new is forgotten, and may be read again.        *)
CloseFile ==
  /\ file # None /\ (at = "End" \/ offset + HeaderSize > size) /\ at # "Packet"
  /\ diskFileMap' = IF Interesting THEN diskFileMap \union {file} ELSE diskFileMap
  /\ file' = None /\ offset' = 0 /\ at' = "Header" /\ packets' = 0
  /\ UNCHANGED <<input, names, loaded, layout, pc, result, faults>>
-----------------------------------------------------------------------------
(* What is kept of the packets, and how the blocks are laid out.           *)

AllLoaded ==
  /\ pc = "OtherFiles" /\ file = None /\ worklist = <<>>
  /\ pc' = "CheckPacketConsistency"
  /\ UNCHANGED <<input, names, reading, diskFileMap, loaded, layout, result, faults>>

(* SetBlockCount                                                           *)
BlockCount(filesize) == (filesize + mainpacket.blocksize - 1) \div mainpacket.blocksize

(* A slip: the verification packet is not held against the file's size.    *)
ConsistentFilesUncounted ==
  {id \in Described : BlockCount(sourcefilemap[id].description) <= MaxU32}

ConsistentFiles ==
  {id \in Described :
     LET count == BlockCount(sourcefilemap[id].description)
     IN count <= MaxU32 /\ sourcefilemap[id].verification \in {None, count}}

CheckPacketConsistency ==
  /\ pc = "CheckPacketConsistency"
  /\ IF mainpacket = None
     THEN pc' = "Finished" /\ result' = "InsufficientCriticalData" /\ UNCHANGED loaded
     ELSE /\ pc' = "CreateSourceFileList" /\ UNCHANGED <<result, setid, mainpacket, creatorpacket>>
          /\ recoverypacketmap' = Restrict(recoverypacketmap,
               {e \in DOMAIN recoverypacketmap : recoverypacketmap[e].size = mainpacket.blocksize})
          /\ sourcefilemap' = [id \in ConsistentFiles |->
               [sourcefilemap[id] EXCEPT !.blockcount = BlockCount(sourcefilemap[id].description)]]
  /\ UNCHANGED <<input, names, reading, diskFileMap, layout, faults>>

CreateSourceFileList ==
  /\ pc = "CreateSourceFileList"
  /\ sourcefiles' = [n \in DOMAIN mainpacket.files |->
       IF mainpacket.files[n] \in DOMAIN sourcefilemap THEN mainpacket.files[n] ELSE None]
  /\ pc' = "AllocateSourceBlocks"
  /\ UNCHANGED <<input, names, reading, diskFileMap, loaded,
                 sourceblockcount,
                 blocks, entries, result, faults>>

Recoverable ==
  {n \in DOMAIN sourcefiles : n <= mainpacket.recoverablefilecount /\ sourcefiles[n] # None}
BlocksOf(numbers) == UNION {{n} \X (1 .. sourcefilemap[sourcefiles[n]].blockcount) : n \in numbers}
BlocksIn(numbers) == Cardinality(BlocksOf(numbers))

FirstBlocks ==
  [id \in {sourcefiles[n] : n \in Recoverable} |->
     LET n == CHOOSE n \in Recoverable : sourcefiles[n] = id
     IN BlocksIn({m \in Recoverable : m < n})]

AllocateSourceBlocks ==
  /\ pc = "AllocateSourceBlocks"
  /\ IF BlocksIn(Recoverable) > MaxU32
     THEN /\ pc' = "Finished" /\ result' = "LogicError"
          /\ UNCHANGED <<sourceblockcount, blocks>>
     ELSE /\ pc' = "PrepareVerificationHashTable"
          /\ sourceblockcount' = BlocksIn(Recoverable)
          /\ blocks' = IF BlocksIn(Recoverable) > 0 THEN FirstBlocks ELSE blocks
          /\ UNCHANGED result
  /\ UNCHANGED <<input, names, reading, diskFileMap, loaded, sourcefiles,
                 entries, faults>>

(* A file with blocks of its own has an entry for each if there is a       *)
(* verification packet for it.  Other files have no blocks.                *)
PrepareVerificationHashTable ==
  /\ pc = "PrepareVerificationHashTable"
  /\ entries' = UNION {
       {<<id, n, IF id \in DOMAIN blocks THEN blocks[id] + n ELSE None>> :
          n \in 0 .. sourcefilemap[id].verification - 1} :
       id \in Verified \intersect ToSet(sourcefiles)}
  /\ pc' = "VerifySourceFiles"
  /\ UNCHANGED <<input, names, reading, diskFileMap, loaded, sourcefiles,
                 sourceblockcount, blocks, result, faults>>

(* It finds out that a recoverable file is unknown before it opens any.    *)
VerifySourceFiles ==
  /\ pc = "VerifySourceFiles"
  /\ pc' = "Finished"
  /\ result' = IF Cardinality(Recoverable) < mainpacket.recoverablefilecount
               THEN "FileIOError" ELSE "Verify"
  /\ UNCHANGED <<input, names, reading, diskFileMap, loaded, layout, faults>>

Process ==
  \/ LoadPacketsFromOtherFiles \/ NextName \/ (\E name \in par2list \union ExtraFiles : OpenFile(name))
  \/ ReadHeader \/ Search \/ NoPacket \/ TakePacket \/ CloseFile
  \/ AllLoaded \/ CheckPacketConsistency \/ CreateSourceFileList
  \/ AllocateSourceBlocks \/ PrepareVerificationHashTable \/ VerifySourceFiles

Terminated == pc = "Finished" /\ UNCHANGED vars
Next == Process \/ Terminated

Spec == Init /\ [][Next]_vars
FairSpec == Spec /\ WF_vars(Process)

-----------------------------------------------------------------------------
(* Correctness.                                                            *)

Stages == {"ParFile", "OtherFiles", "CheckPacketConsistency", "CreateSourceFileList",
           "AllocateSourceBlocks", "PrepareVerificationHashTable", "VerifySourceFiles", "Finished"}

(* The variables have their types; a file is read within its bounds.       *)
TypeOK ==
  /\ pc \in Stages /\ at \in {"Header", "Search", "Packet", "End"}
  /\ file = None \/ (file \in DOMAIN disk /\ offset \in 0 .. size)
  /\ packets \in Nat /\ faults \in 0 .. MaxFaults
  /\ diskFileMap \subseteq DOMAIN disk
  /\ \A e \in DOMAIN recoverypacketmap : recoverypacketmap[e].size > 0
  /\ \A id \in DOMAIN sourcefilemap : sourcefilemap[id].blockcount \in 0 .. MaxU32
  /\ sourceblockcount \in 0 .. MaxU32

(* The packets that survive in a file, as anyone who knows where they were *)
(* written would find them.                                                *)
Intact(name) ==
  {o \in DOMAIN disk[name].packets :
     LET p == disk[name].packets[o]
     IN p.intact /\ p.length >= HeaderSize /\ p.length % 4 = 0 /\ o + p.length <= disk[name].size}

(* The files of the set, whichever of them is named, and those given.  The *)
(* index file has no word between the name of the set and "par2": it is    *)
(* not searched for, and counts only when it is named itself.              *)
Given ==
  {name \in DOMAIN disk :
     /\ IsPar2Filename(name)
     /\ \/ name = parfilename \/ name \in ExtraFiles
        \/ name[1] = parfilename[1] /\ Len(name) > 2}

TheSet ==
  IF parfilename \in DOMAIN disk /\ Intact(parfilename) # {}
  THEN disk[parfilename].packets[Min(Intact(parfilename))].set ELSE setid

Offered(type) ==
  {p \in UNION {{disk[name].packets[o] : o \in Intact(name)} : name \in Given} :
     p.type = type /\ p.set = TheSet /\ Sound(p)}

(* Every packet of the set that survives in any of its files is loaded,    *)
(* whatever is damaged around it, in whatever order the files are read,    *)
(* and nothing else is: LoadPacketsFromFile skips nothing.                 *)
LoadedIsUnion ==
  pc = "CheckPacketConsistency" /\ faults = 0 =>
    /\ DOMAIN recoverypacketmap = {p.about : p \in Offered("recovery")}
    /\ Verified = {p.about : p \in Offered("verification")}
    /\ Described = {p.about.file : p \in Offered("description")}
    /\ mainpacket = None <=> Offered("main") = {}

(* A recovery packet that will be read in the repair is where it is said   *)
(* to be, in a file whose DiskFile is kept, and it is of the set.          *)
RecoveryPacketsKept ==
  \A e \in DOMAIN recoverypacketmap :
    LET r == recoverypacketmap[e]
    IN /\ r.file \in diskFileMap \union {file}
       /\ r.offset \in Intact(r.file)
       /\ LET p == disk[r.file].packets[r.offset]
          IN p.type = "recovery" /\ p.set = setid /\ p.about = e /\ Body(p) = r.size

(* The blocks of the recoverable files that are known follow one another   *)
(* without gap or overlap, although files are dropped, and every entry of  *)
(* the verification hash table is for a block of its own file.             *)
EntriesOwnTheirBlocks ==
  pc = "VerifySourceFiles" =>
    /\ UNION {{blocks[id] + n : n \in 0 .. sourcefilemap[id].blockcount - 1} : id \in DOMAIN blocks}
         = 0 .. sourceblockcount - 1
    /\ \A e \in entries : e[2] < sourcefilemap[e[1]].blockcount
    /\ \A e1, e2 \in entries : e1[3] = e2[3] /\ e1[3] # None => e1 = e2

(* When every critical packet of the set survives somewhere, verification  *)
(* starts, and it is offered every recovery block that survives.           *)
CriticalPacketsSuffice ==
  pc = "Finished" /\ faults = 0 /\ result # "LogicError" =>
    \A p \in Offered("main") :
      (\A n \in 1 .. p.about.recoverablefilecount :
         \E d \in Offered("description") :
           /\ d.about.file = p.about.files[n]
           /\ BlockCount(d.about.filesize) <= MaxU32
           /\ \A v \in Offered("verification") : v.about = d.about.file =>
                Body(v) \div EntrySize = BlockCount(d.about.filesize))
      => /\ result = "Verify"
         /\ {r.about : r \in {r \in Offered("recovery") : Body(r) = p.about.blocksize}}
              = DOMAIN recoverypacketmap

(* What holds of PAR2 files as they are made, whatever happened to them.   *)

(* The name of a set has no dot in it, and only the part of a volume comes *)
(* between it and the last word, which is in one case.                     *)
PlainNames ==
  /\ {"par2", "PAR2"} \subseteq Par2Words /\ Par2Words \intersect VolumeWords = {}
  /\ \A name \in ParFilenames :
       IsPar2Filename(name) /\ (Len(name) = 2 \/ (Len(name) = 3 /\ name[2] \in VolumeWords))
  /\ \A d \in Disks : \A name \in DOMAIN d :
       IsPar2Filename(name) => Last(name) \in {"par2", "PAR2"}

(* Packets that survived do not overlap.                                   *)
PacketsApart ==
  \A d \in Disks : \A name \in DOMAIN d : \A o1, o2 \in DOMAIN d[name].packets :
    /\ d[name].packets[o1].intact /\ d[name].packets[o2].intact /\ o1 < o2
    => o1 + d[name].packets[o1].length <= o2

(* Packets of a set that are about the same thing are copies.              *)
Subject(p) == CASE p.type = "main" -> None [] p.type = "description" -> p.about.file [] OTHER -> p.about

CopiesAgree(d) ==
  \A name1, name2 \in DOMAIN d :
    \A o1 \in DOMAIN d[name1].packets, o2 \in DOMAIN d[name2].packets :
      LET p == d[name1].packets[o1]
          q == d[name2].packets[o2]
      IN p.intact /\ q.intact /\ p.type = q.type /\ p.set = q.set /\ Subject(p) = Subject(q)
         => p = q

(* A main packet lists a file once.                                        *)
FilesListedOnce ==
  \A d \in Disks : \A name \in DOMAIN d : \A o \in DOMAIN d[name].packets :
    d[name].packets[o].type = "main" => IsInjective(d[name].packets[o].about.files)

(* The search of every file comes to an end.                               *)
LoadingEnds == <>(pc = "Finished")
=============================================================================
