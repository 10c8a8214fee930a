------------------------- MODULE PacketLoadingProofs -------------------------
(***************************************************************************)
(* What is loaded is what survives, for any number of files with any       *)
(* damage in them, searched in any order: each recovery packet is where    *)
(* the repair will read it (IInv), every variable keeps its type and shape *)
(* and every loaded packet came from a file (TInv), with no failed call no *)
(* intact packet is passed over (NInv), and no file with all its packets   *)
(* is dropped (CInv).                                                      *)
(***************************************************************************)
EXTENDS PacketLoading, FiniteSetTheorems, SequenceTheorems, WellFoundedInduction, TLAPS

(* The packet the header of which was read is there, if there is any.      *)
ReadingAt ==
  /\ offset \in Nat
  /\ at = "Packet" => offset \in DOMAIN disk[file].packets
  /\ file # None => file \in DOMAIN disk
  /\ file = None => packets = 0 /\ at = "Header"

(* A file that is not kept yet will be, as a packet of it was taken.       *)
WillBeKept(name) == name \in diskFileMap \/ (name = file /\ packets > 0)

IsRecoveryPacket(r, e) ==
  /\ r.offset \in Intact(r.file)
  /\ LET p == disk[r.file].packets[r.offset]
     IN p.type = "recovery" /\ p.set = setid /\ p.about = e /\ Body(p) = r.size

IInv ==
  /\ disk \in Disks /\ packets \in Nat
  /\ ReadingAt
  /\ setid = None => DOMAIN recoverypacketmap = {}
  /\ \A e \in DOMAIN recoverypacketmap :
       WillBeKept(recoverypacketmap[e].file) /\ IsRecoveryPacket(recoverypacketmap[e], e)

-----------------------------------------------------------------------------

LEMMA MinIsLeast ==
  ASSUME NEW S \in SUBSET Nat, S # {}
  PROVE  Min(S) \in S /\ \A n \in S : Min(S) <= n
<1>1. IsWellFoundedOn(OpToRel(<, Nat), Nat)
  BY NatLessThanWellFounded
<1>2. \E m \in S : \A n \in S : ~ (<<n, m>> \in OpToRel(<, Nat))
  BY <1>1, WFMin
<1>3. PICK m \in S : \A n \in S : ~ (<<n, m>> \in OpToRel(<, Nat))
  BY <1>2
<1>4. \A n \in S : n \in Nat /\ m \in Nat /\ ~ (n < m)
  BY <1>3 DEF OpToRel
<1>5. \A n \in S : m <= n
  BY <1>4
<1> QED BY <1>5 DEF Min

LEMMA ImageIsFinite ==
  ASSUME NEW g, IsFiniteSet(DOMAIN g)
  PROVE  IsFiniteSet({g[x] : x \in DOMAIN g})
<1> DEFINE T == {g[x] : x \in DOMAIN g}
           h == [x \in DOMAIN g |-> g[x]]
<1>1. h \in Surjection(DOMAIN g, T)
  BY DEF Surjection
<1> HIDE DEF h, T
<1>2. IsFiniteSet(T)
  BY <1>1, FS_Surjection
<1> QED BY <1>2 DEF T

(* What was found of a file stays true, as no file changes.                *)
LEMMA PacketStays ==
  ASSUME disk' = disk, setid' = setid, NEW r, NEW e, IsRecoveryPacket(r, e)
  PROVE  IsRecoveryPacket(r, e)'
<1>1. Intact(r.file)' = Intact(r.file)
  BY DEF Intact
<1> QED BY <1>1 DEF IsRecoveryPacket

LEMMA InitEstablishes == Init => IInv
BY DEF Init, IInv, ReadingAt

(* What is loaded does not change, and the file that is read goes on to    *)
(* another place.                                                          *)
LEMMA MovesOn ==
  ASSUME IInv, UNCHANGED <<disk, diskFileMap, setid, recoverypacketmap>>,
         UNCHANGED <<file, packets>>, ReadingAt'
  PROVE  IInv'
BY DEF IInv, WillBeKept, IsRecoveryPacket, Intact

LEMMA NamesKeep ==
  ASSUME IInv, LoadPacketsFromOtherFiles \/ NextName \/ AllLoaded \/ CreateSourceFileList
               \/ AllocateSourceBlocks \/ PrepareVerificationHashTable \/ VerifySourceFiles
               \/ UNCHANGED vars
  PROVE  IInv'
<1>1. UNCHANGED <<disk, diskFileMap, setid, recoverypacketmap, file, packets, offset, at>>
  BY DEF LoadPacketsFromOtherFiles, NextName, AllLoaded, CreateSourceFileList, AllocateSourceBlocks,
         PrepareVerificationHashTable, VerifySourceFiles, vars, input, reading, loaded
<1>2. ReadingAt'
  BY <1>1 DEF IInv, ReadingAt
<1> QED BY <1>1, <1>2, MovesOn

LEMMA OpenFileKeeps == ASSUME IInv, NEW name, OpenFile(name) PROVE IInv'
<1>1. UNCHANGED <<disk, diskFileMap, setid, recoverypacketmap>> /\ file = None
  BY DEF OpenFile, Between, input, loaded
<1>2. \/ UNCHANGED reading
      \/ file' = name /\ offset' = 0 /\ at' = "Header" /\ packets' = 0 /\ name \in DOMAIN disk
  BY DEF OpenFile
<1>3. ReadingAt' /\ packets' \in Nat
  BY <1>1, <1>2 DEF IInv, ReadingAt, reading
<1>4. \A e \in DOMAIN recoverypacketmap : recoverypacketmap[e].file \in diskFileMap
  BY <1>1 DEF IInv, WillBeKept, ReadingAt
<1> QED BY <1>1, <1>3, <1>4 DEF IInv, WillBeKept, IsRecoveryPacket, Intact

LEMMA ReadingKeeps == ASSUME IInv, ReadHeader \/ Search \/ NoPacket PROVE IInv'
<1>1. /\ UNCHANGED <<disk, diskFileMap, setid, recoverypacketmap, file, packets>>
      /\ file # None /\ offset \in Nat /\ disk \in Disks /\ file \in DOMAIN disk
  BY DEF ReadHeader, Search, NoPacket, input, loaded, MoveTo, SearchBuffer, IInv, ReadingAt
<1>2. CASE ReadHeader
  BY <1>1, <1>2, MovesOn DEF ReadHeader, MoveTo, Magic, ReadingAt
<1>3. CASE NoPacket
  BY <1>1, <1>3, MovesOn DEF NoPacket, MoveTo, PastFirstByte, ReadingAt
<1>4. CASE Search
  <2>1. size \in Nat /\ offset + HeaderSize <= size
    BY <1>1, <1>4, LoadingAssumption DEF Search, size
  <2> DEFINE want == Min({BufferSize, size - offset})
             found == {o \in offset .. offset + want - HeaderSize : Magic(o)}
  <2>2. want \in Nat /\ want >= HeaderSize
    <3>1. {BufferSize, size - offset} \in SUBSET Nat
      BY <1>1, <2>1, LoadingAssumption
    <3> HIDE DEF size
    <3>2. want \in {BufferSize, size - offset}
      BY <3>1, MinIsLeast
    <3> QED BY <1>1, <2>1, <3>2, LoadingAssumption
  <2>3. found \in SUBSET Nat
    BY <1>1, <2>2, LoadingAssumption
  <2>4. CASE MoveTo(offset, "End")
    BY <1>1, <2>4, MovesOn DEF MoveTo, ReadingAt
  <2>5. CASE found # {} /\ MoveTo(Min(found), "Packet")
    <3>1. Min(found) \in found
      BY <2>3, <2>5, MinIsLeast
    <3>2. offset' \in Nat /\ Magic(offset')
      BY <2>3, <2>5, <3>1 DEF MoveTo
    <3> QED BY <1>1, <2>5, <3>2, MovesOn DEF MoveTo, ReadingAt, Magic
  <2>6. CASE MoveTo(offset + want - HeaderSize + 1, "Search")
    BY <1>1, <2>2, <2>6, LoadingAssumption, MovesOn DEF MoveTo, ReadingAt
  <2> QED BY <1>4, <2>4, <2>5, <2>6 DEF Search, SearchBuffer
<1> QED BY <1>2, <1>3, <1>4

LEMMA TakePacketKeeps == ASSUME IInv, TakePacket PROVE IInv'
<1>1. /\ UNCHANGED <<disk, diskFileMap, file>> /\ at = "Packet" /\ at' = "Header"
      /\ file # None /\ file \in DOMAIN disk /\ offset \in Nat /\ offset' = offset + header.length
      /\ offset \in DOMAIN disk[file].packets /\ LengthValid /\ header.intact
      /\ disk \in Disks /\ packets \in Nat
  BY DEF TakePacket, input, IInv, ReadingAt
<1>2. header.length \in Nat /\ header.set # None
  BY <1>1, LoadingAssumption DEF header
<1>3. ReadingAt'
  BY <1>1, <1>2 DEF ReadingAt
<1>4. /\ packets' \in Nat /\ packets' >= packets
      /\ recoverypacketmap' # recoverypacketmap => packets' > 0
  BY <1>1 DEF TakePacket
<1>5. setid' # None /\ (setid # None => setid' = setid)
  BY <1>2 DEF TakePacket
<1>6. \A e \in DOMAIN recoverypacketmap : \A r : r = recoverypacketmap[e] =>
        WillBeKept(r.file)' /\ IsRecoveryPacket(r, e)'
  <2> SUFFICES ASSUME NEW e \in DOMAIN recoverypacketmap, NEW r, r = recoverypacketmap[e]
               PROVE  WillBeKept(r.file)' /\ IsRecoveryPacket(r, e)'
    OBVIOUS
  <2>1. WillBeKept(r.file) /\ IsRecoveryPacket(r, e)
    BY DEF IInv
  <2>2. setid' = setid
    BY <1>5 DEF IInv
  <2>3. WillBeKept(r.file)'
    BY <1>1, <1>4, <2>1 DEF WillBeKept
  <2> QED BY <1>1, <2>1, <2>2, <2>3, PacketStays
<1>7. \/ recoverypacketmap' = recoverypacketmap
      \/ /\ header.type = "recovery" /\ header.set = setid'
         /\ recoverypacketmap' = With(recoverypacketmap, header.about,
               [file |-> file, offset |-> offset, size |-> Body(header)])
         /\ header.about \notin DOMAIN recoverypacketmap
  BY DEF TakePacket, LoadRecoveryPacket, Loads
<1>8. CASE recoverypacketmap' = recoverypacketmap
  BY <1>1, <1>3, <1>4, <1>5, <1>6, <1>8 DEF IInv
<1>9. CASE /\ header.type = "recovery" /\ header.set = setid'
           /\ recoverypacketmap' = With(recoverypacketmap, header.about,
                 [file |-> file, offset |-> offset, size |-> Body(header)])
           /\ header.about \notin DOMAIN recoverypacketmap
  <2>1. PICK new, exponent : new = [file |-> file, offset |-> offset, size |-> Body(header)]
                             /\ exponent = header.about
    OBVIOUS
  <2>2. /\ DOMAIN recoverypacketmap' = DOMAIN recoverypacketmap \union {exponent}
        /\ recoverypacketmap'[exponent] = new
        /\ \A e \in DOMAIN recoverypacketmap : recoverypacketmap'[e] = recoverypacketmap[e]
    BY <1>9, <2>1 DEF With
  <2>3. packets' > 0
    BY <1>4, <1>9, <2>1, <2>2
  <2>4. new.file = file /\ new.offset = offset /\ new.size = Body(header)
    BY <2>1
  <2>5. WillBeKept(new.file)'
    BY <1>1, <2>3, <2>4 DEF WillBeKept
  <2>6. offset \in Intact(file)
    BY <1>1 DEF Intact, LengthValid, header, size
  <2>7. Intact(file)' = Intact(file)
    BY <1>1 DEF Intact
  <2>8. disk'[new.file].packets[new.offset] = header
    BY <1>1, <2>4 DEF header
  <2>9. Intact(new.file)' = Intact(file)
    BY <1>1, <2>4, <2>7
  <2>10. IsRecoveryPacket(new, exponent)'
    BY <1>9, <2>1, <2>4, <2>6, <2>8, <2>9 DEF IsRecoveryPacket
  <2> QED BY <1>1, <1>3, <1>4, <1>5, <1>6, <2>2, <2>5, <2>10 DEF IInv
<1> QED BY <1>7, <1>8, <1>9

LEMMA CloseFileKeeps == ASSUME IInv, CloseFile PROVE IInv'
<1>1. UNCHANGED <<disk, setid, recoverypacketmap>> /\ file' = None /\ packets' = 0 /\ offset' = 0 /\ at' = "Header"
  BY DEF CloseFile, input, loaded
<1>2. \A e \in DOMAIN recoverypacketmap : recoverypacketmap[e].file \in diskFileMap'
  BY DEF CloseFile, Interesting, WillBeKept, IInv
<1> QED BY <1>1, <1>2 DEF IInv, ReadingAt, WillBeKept, IsRecoveryPacket, Intact

LEMMA CheckPacketConsistencyKeeps == ASSUME IInv, CheckPacketConsistency PROVE IInv'
<1>1. /\ UNCHANGED <<disk, diskFileMap, setid, file, packets, offset, at>>
      /\ DOMAIN recoverypacketmap' \subseteq DOMAIN recoverypacketmap
      /\ \A e \in DOMAIN recoverypacketmap' : recoverypacketmap'[e] = recoverypacketmap[e]
  BY DEF CheckPacketConsistency, input, loaded, reading, Restrict
<1>2. ReadingAt'
  BY <1>1 DEF IInv, ReadingAt
<1>3. \A e \in DOMAIN recoverypacketmap : \A r : r = recoverypacketmap[e] =>
        WillBeKept(r.file)' /\ IsRecoveryPacket(r, e)'
  BY <1>1, PacketStays DEF IInv, WillBeKept
<1>4. \A e \in DOMAIN recoverypacketmap' : \A r : r = recoverypacketmap'[e] =>
        WillBeKept(r.file)' /\ IsRecoveryPacket(r, e)'
  BY <1>1, <1>3
<1> QED BY <1>1, <1>2, <1>4 DEF IInv

THEOREM Invariance == Spec => []IInv
<1>1. IInv /\ [Next]_vars => IInv'
  BY NamesKeep, OpenFileKeeps, ReadingKeeps, TakePacketKeeps, CloseFileKeeps,
     CheckPacketConsistencyKeeps DEF Next, Process, Terminated
<1> QED BY <1>1, InitEstablishes, PTL DEF Spec

(* The packets of the recovery map are found again by the repair: their    *)
(* files are kept, whatever files are read after them, and at the place    *)
(* is an intact packet of the set with that exponent (LoadRecoveryPacket,  *)
(* LoadPacketsFromFile).                                                   *)
THEOREM LoadedPacketsAreKept == Spec => []RecoveryPacketsKept
<1>1. IInv => RecoveryPacketsKept
  BY DEF IInv, RecoveryPacketsKept, WillBeKept, IsRecoveryPacket
<1> QED BY <1>1, Invariance, PTL

-----------------------------------------------------------------------------
(* What the maps hold comes from packets of the set that are in the files  *)
(* that are searched: when the names are plain, those that are given.      *)

Searched == IF PlainNames THEN Given ELSE DOMAIN disk

OfSet(type) ==
  {p \in UNION {{disk[name].packets[o] : o \in Intact(name)} : name \in Searched} :
     p.type = type /\ p.set = setid /\ Sound(p)}

Searching ==
  /\ parfilename \in ParFilenames
  /\ worklist \in Seq(SUBSET Seq(STRING))
  /\ (UNION ToSet(worklist)) \intersect DOMAIN disk \subseteq Searched
  /\ file # None => file \in Searched /\ worklist # <<>>

ComeFrom ==
  /\ setid = None => DOMAIN recoverypacketmap = {} /\ DOMAIN sourcefilemap = {} /\ mainpacket = None
  /\ \A e \in DOMAIN recoverypacketmap :
       \E p \in OfSet("recovery") : p.about = e /\ recoverypacketmap[e].size = Body(p)
  /\ \A id \in Verified : \E p \in OfSet("verification") :
       p.about = id /\ sourcefilemap[id].verification = Body(p) \div EntrySize
  /\ \A id \in Described : \E p \in OfSet("description") :
       p.about.file = id /\ sourcefilemap[id].description = p.about.filesize
  /\ mainpacket # None => \E p \in OfSet("main") : p.about = mainpacket

Shaped(map) ==
  \A id \in DOMAIN map :
    /\ map[id] = [description |-> map[id].description, verification |-> map[id].verification,
                  blockcount |-> map[id].blockcount]
    /\ map[id].blockcount \in 0 .. MaxU32

(* Where the search is.                                                    *)
Reading ==
  /\ pc \in Stages /\ at \in {"Header", "Search", "Packet", "End"} /\ faults \in 0 .. MaxFaults
  /\ file # None => offset <= size /\ (at = "Packet" => offset + HeaderSize <= size)
  /\ file # None => pc \in {"ParFile", "OtherFiles"}
  /\ diskFileMap \subseteq DOMAIN disk

(* Once it is checked, a verification packet has the blocks of its file.   *)
Checked ==
  /\ mainpacket # None
  /\ \A id \in DOMAIN sourcefilemap :
       /\ sourcefilemap[id].description # None
       /\ sourcefilemap[id].verification \in {None, sourcefilemap[id].blockcount}

Listed ==
  /\ DOMAIN sourcefiles = DOMAIN mainpacket.files
  /\ \A n \in DOMAIN sourcefiles :
       sourcefiles[n] = IF mainpacket.files[n] \in DOMAIN sourcefilemap
                        THEN mainpacket.files[n] ELSE None

Allocated ==
  /\ sourceblockcount = BlocksIn(Recoverable)
  /\ blocks = IF BlocksIn(Recoverable) > 0 THEN FirstBlocks ELSE <<>>

Entered ==
  entries = UNION {
    {<<id, n, IF id \in DOMAIN blocks THEN blocks[id] + n ELSE None>> :
       n \in 0 .. sourcefilemap[id].verification - 1} :
    id \in Verified \intersect ToSet(sourcefiles)}

Layout ==
  /\ pc \in {"CreateSourceFileList", "AllocateSourceBlocks", "PrepareVerificationHashTable",
             "VerifySourceFiles"} => Checked
  /\ pc \in {"AllocateSourceBlocks", "PrepareVerificationHashTable", "VerifySourceFiles"} => Listed
  /\ pc \in {"PrepareVerificationHashTable", "VerifySourceFiles"} => Allocated
  /\ pc \notin {"PrepareVerificationHashTable", "VerifySourceFiles", "Finished"} => blocks = <<>>
  /\ pc = "VerifySourceFiles" => Entered
  /\ sourceblockcount \in 0 .. MaxU32

TInv == IInv /\ Searching /\ Reading /\ Shaped(sourcefilemap) /\ ComeFrom /\ Layout
-----------------------------------------------------------------------------

LEMMA KeepsIInv == IInv /\ [Next]_vars => IInv'
BY NamesKeep, OpenFileKeeps, ReadingKeeps, TakePacketKeeps, CloseFileKeeps,
   CheckPacketConsistencyKeeps DEF Next, Process, Terminated

LEMMA TypesInit == Init => TInv
<1> SUFFICES ASSUME Init PROVE TInv
  OBVIOUS
<1>1. IInv
  BY InitEstablishes
<1>2. Searching
  <2>1. worklist = <<{parfilename}>> /\ file = None /\ parfilename \in ParFilenames /\ disk \in Disks
    BY DEF Init
  <2>2. {parfilename} \in SUBSET Seq(STRING)
    BY <2>1, LoadingAssumption
  <2>3. UNION ToSet(worklist) = {parfilename}
    BY <2>1 DEF ToSet
  <2>4. parfilename \in DOMAIN disk => parfilename \in Searched
    BY <2>1 DEF Searched, Given, PlainNames
  <2>5. \A T : \A x \in T : <<x>> \in Seq(T)
    OBVIOUS
  <2>6. worklist \in Seq(SUBSET Seq(STRING)) /\ worklist # <<>>
    BY <2>1, <2>2, <2>5
  <2>7. (UNION ToSet(worklist)) \intersect DOMAIN disk \subseteq Searched
    BY <2>3, <2>4
  <2>8. file = None /\ parfilename \in ParFilenames
    BY <2>1
  <2> QED BY <2>6, <2>7, <2>8 DEF Searching
<1>3. Reading
  BY LoadingAssumption DEF Init, Reading, Stages
<1>4. Shaped(sourcefilemap) /\ ComeFrom
  BY DEF Init, Shaped, ComeFrom, Verified, Described
<1>5. Layout
  BY LoadingAssumption DEF Init, Layout
<1> QED BY <1>1, <1>2, <1>3, <1>4, <1>5 DEF TInv

LEMMA InputStays == [Next]_vars => UNCHANGED <<disk, parfilename>>
BY DEF Next, Process, Terminated, vars, input, LoadPacketsFromOtherFiles, NextName, OpenFile,
       ReadHeader, Search, NoPacket, TakePacket, CloseFile, AllLoaded, CheckPacketConsistency,
       CreateSourceFileList, AllocateSourceBlocks, PrepareVerificationHashTable, VerifySourceFiles

LEMMA SearchedStays == UNCHANGED <<disk, parfilename>> => Searched' = Searched /\ Given' = Given
BY DEF Searched, Given

LEMMA OfSetStays ==
  ASSUME UNCHANGED <<disk, parfilename, setid>>, NEW type
  PROVE  OfSet(type)' = OfSet(type)
<1>1. \A name : Intact(name)' = Intact(name)
  BY DEF Intact
<1> QED BY <1>1, SearchedStays DEF OfSet

(* Nothing is loaded.                                                      *)
LEMMA NothingLoaded ==
  ASSUME TInv, UNCHANGED <<input, loaded>>
  PROVE  Shaped(sourcefilemap') /\ ComeFrom'
<1>1. \A type : OfSet(type)' = OfSet(type)
  BY OfSetStays DEF input, loaded
<1>2. Verified' = Verified /\ Described' = Described
  BY DEF loaded, Verified, Described
<1> QED BY <1>1, <1>2 DEF TInv, loaded, ComeFrom

SearchStep ==
  \/ LoadPacketsFromOtherFiles \/ NextName \/ (\E name \in par2list \union ExtraFiles : OpenFile(name))
  \/ ReadHeader \/ Search \/ NoPacket \/ CloseFile \/ AllLoaded

(* The stages before the layout.                                           *)
LEMMA LayoutKept ==
  ASSUME TInv, UNCHANGED <<sourceblockcount, blocks>>,
         pc \in {"ParFile", "OtherFiles"},
         pc' \in {"ParFile", "OtherFiles", "CheckPacketConsistency"}
  PROVE  Layout'
BY DEF TInv, Layout

LEMMA NamesAreSearched == ASSUME TInv PROVE Searched \subseteq DOMAIN disk
BY DEF Searched, Given

LEMMA WorklistGoesOn ==
  ASSUME TInv, [Next]_vars, worklist # <<>>, UNCHANGED <<disk, parfilename>>,
         NEW S, S \subseteq Head(worklist),
         worklist' = Tail(worklist) \/ worklist' = [worklist EXCEPT ![1] = S]
  PROVE  /\ worklist' \in Seq(SUBSET Seq(STRING))
         /\ (UNION ToSet(worklist))' \subseteq (UNION ToSet(worklist))
<1>1. worklist \in Seq(SUBSET Seq(STRING)) /\ 1 \in DOMAIN worklist /\ Head(worklist) = worklist[1]
  BY DEF TInv, Searching
<1>2. worklist' \in Seq(SUBSET Seq(STRING))
  BY <1>1
<1>3. \A i \in DOMAIN worklist' : \E j \in DOMAIN worklist : worklist'[i] \subseteq worklist[j]
  <2>1. CASE worklist' = Tail(worklist)
    BY <1>1, <2>1
  <2>2. CASE worklist' = [worklist EXCEPT ![1] = S]
    BY <1>1, <2>2
  <2> QED BY <2>1, <2>2
<1>4. (UNION ToSet(worklist))' \subseteq (UNION ToSet(worklist))
  BY <1>3 DEF ToSet
<1> QED BY <1>2, <1>4

LEMMA FirstWord == ASSUME NEW s \in Seq(STRING), Len(s) >= 1 PROVE SubSeq(s, 1, 1) = <<s[1]>>
<1> DEFINE front == SubSeq(s, 1, 1)
<1>1. front \in Seq(STRING) /\ Len(front) = 1 /\ front[1] = s[1]
  OBVIOUS
<1>2. <<s[1]>> \in Seq(STRING) /\ Len(<<s[1]>>) = 1 /\ <<s[1]>>[1] = s[1]
  OBVIOUS
<1> HIDE DEF front
<1>3. \A i \in 1 .. Len(front) : front[i] = <<s[1]>>[i]
  BY <1>1, <1>2
<1> QED BY <1>1, <1>2, <1>3, SeqEqual DEF front

LEMMA PlainStem == ASSUME PlainNames, NEW name \in ParFilenames PROVE Stem(name) = <<name[1]>>
<1> DEFINE ends == {i \in 2 .. Len(name) : name[i] \in Par2Words}
           front == SubSeq(name, 1, IF ends = {} THEN 1 ELSE Max(ends) - 1)
<1>1. name \in Seq(STRING) /\ name[Len(name)] \in Par2Words
  BY LoadingAssumption DEF PlainNames, IsPar2Filename, Last
<1>2. Stem(name) = IF Len(front) > 1 /\ Last(front) \in VolumeWords THEN Front(front) ELSE front
  BY DEF Stem
<1>3. \A k : Max({k}) = k \/ ~(k <= k)
  BY DEF Max
<1>4. CASE Len(name) = 2
  <2>1. ends = {2}
    BY <1>1, <1>4
  <2>2. Max(ends) = 2
    BY <1>3, <2>1
  <2> HIDE DEF ends
  <2>3. front = SubSeq(name, 1, 1)
    BY <2>1, <2>2
  <2> HIDE DEF front
  <2>4. Len(front) = 1 /\ front[1] = name[1]
    BY <1>1, <1>4, <2>3
  <2>5. front = <<name[1]>>
    BY <1>1, <1>4, <2>3, FirstWord
  <2> QED BY <1>2, <2>4, <2>5
<1>5. CASE Len(name) = 3 /\ name[2] \in VolumeWords
  <2>1. ends = {3}
    BY <1>1, <1>5 DEF PlainNames
  <2>2. Max(ends) = 3
    <3>1. Max({3}) = 3
      BY <1>3
    <3> QED BY <2>1, <3>1
  <2> HIDE DEF ends
  <2>3. front = SubSeq(name, 1, 2)
    BY <2>1, <2>2
  <2> HIDE DEF front
  <2>4. /\ front \in Seq(STRING) /\ Len(front) = 2
        /\ front[1] = name[1] /\ front[2] = name[2]
    BY <1>1, <1>5, <2>3
  <2>5. Front(front) = <<name[1]>>
    <3>1. Front(front) = SubSeq(front, 1, 1)
      BY <2>4 DEF Front
    <3> QED BY <2>4, <3>1, FirstWord
  <2> QED BY <1>2, <1>5, <2>4, <2>5 DEF Last
<1> QED BY <1>4, <1>5 DEF PlainNames

LEMMA FoundByName ==
  ASSUME PlainNames, NEW stem, stem = Stem(parfilename), parfilename \in ParFilenames, disk \in Disks,
         NEW word \in {"par2", "PAR2"}
  PROVE  FindFiles(stem, word) \subseteq Given
<1> SUFFICES ASSUME NEW name \in FindFiles(stem, word) PROVE name \in Given
  OBVIOUS
<1>1. /\ name \in DOMAIN disk /\ Len(name) > Len(stem) + 1 /\ IsPrefix(stem, name) /\ Last(name) = word
      /\ name \in Seq(STRING) /\ parfilename \in Seq(STRING)
  BY LoadingAssumption DEF FindFiles
<1>2. stem = <<parfilename[1]>> /\ word \in Par2Words
  BY PlainStem DEF PlainNames
<1>3. Len(stem) = 1 /\ stem[1] = parfilename[1]
  BY <1>2
<1>4. Len(name) > 2 /\ IsPar2Filename(name)
  BY <1>1, <1>2, <1>3 DEF IsPar2Filename
<1>5. name[1] = parfilename[1]
  <2>1. SubSeq(stem, 1, 1) = SubSeq(name, 1, 1)
    BY <1>1, <1>3 DEF IsPrefix
  <2>2. SubSeq(name, 1, 1)[1] = name[1]
    BY <1>1, <1>4
  <2>3. SubSeq(stem, 1, 1)[1] = stem[1]
    BY <1>2
  <2> QED BY <1>3, <2>1, <2>2, <2>3
<1> QED BY <1>1, <1>4, <1>5 DEF Given

LEMMA OtherFilesFound ==
  ASSUME TInv, LoadPacketsFromOtherFiles
  PROVE  /\ worklist' \in Seq(SUBSET Seq(STRING)) /\ worklist' # <<>>
         /\ (UNION ToSet(worklist)') \intersect DOMAIN disk \subseteq Searched
         /\ PlainNames => Given \subseteq UNION ToSet(worklist)'
<1>1. /\ disk \in Disks /\ parfilename \in ParFilenames /\ parfilename \in Seq(STRING)
      /\ ExtraFiles \subseteq Seq(STRING) /\ DOMAIN disk \subseteq Seq(STRING)
  BY LoadingAssumption DEF TInv, IInv, Searching
<1>2. PICK stem, A, B, C, D :
        /\ stem = Stem(parfilename)
        /\ A = {parfilename} /\ B = FindFiles(stem, "par2") /\ C = FindFiles(stem, "PAR2")
        /\ D = {name \in ExtraFiles : IsPar2Filename(name)} /\ worklist' = <<A, B, C, D>>
  BY DEF LoadPacketsFromOtherFiles
<1>3. {A, B, C, D} \subseteq SUBSET Seq(STRING)
  BY <1>1, <1>2 DEF FindFiles
<1>4. worklist' \in Seq(SUBSET Seq(STRING)) /\ worklist' # <<>>
  <2>1. \A T : \A a, b, c, d \in T : <<a, b, c, d>> \in Seq(T)
    OBVIOUS
  <2> QED BY <1>2, <1>3, <2>1
<1>5. UNION ToSet(worklist)' = A \union B \union C \union D
  <2>1. ToSet(worklist)' = {A, B, C, D}
    BY <1>2 DEF ToSet
  <2> QED BY <2>1
<1>6. (A \union B \union C \union D) \intersect DOMAIN disk \subseteq Searched
  <2>1. CASE PlainNames
    <3>1. B \subseteq Given /\ C \subseteq Given
      BY <1>1, <1>2, <2>1, FoundByName
    <3>2. A \intersect DOMAIN disk \subseteq Given /\ D \intersect DOMAIN disk \subseteq Given
      BY <1>1, <1>2, <2>1 DEF Given, PlainNames
    <3> QED BY <2>1, <3>1, <3>2 DEF Searched
  <2> QED BY <2>1 DEF Searched
<1>7. ASSUME PlainNames PROVE Given \subseteq A \union B \union C \union D
  <2> SUFFICES ASSUME NEW name \in Given, name[1] = parfilename[1], Len(name) > 2
               PROVE  name \in B \union C
    BY <1>2 DEF Given
  <2>1. /\ name \in DOMAIN disk /\ name \in Seq(STRING) /\ Last(name) \in {"par2", "PAR2"}
        /\ stem = <<parfilename[1]>>
    BY <1>1, <1>2, <1>7, PlainStem, LoadingAssumption DEF Given, PlainNames
  <2>2. SubSeq(stem, 1, 1) = SubSeq(name, 1, 1)
    BY <2>1
  <2>3. Len(stem) = 1 /\ IsPrefix(stem, name)
    BY <2>1, <2>2 DEF IsPrefix
  <2> QED BY <1>2, <2>1, <2>3 DEF FindFiles
<1> QED BY <1>4, <1>5, <1>6, <1>7

LEMMA OtherFilesTypes == ASSUME TInv, [Next]_vars, LoadPacketsFromOtherFiles PROVE TInv'
<1>1. /\ UNCHANGED <<input, reading, diskFileMap, loaded, layout, faults>> /\ pc = "ParFile"
      /\ pc' = "OtherFiles"
  BY DEF LoadPacketsFromOtherFiles
<1>2. file = None
  BY DEF LoadPacketsFromOtherFiles, TInv, Searching
<1>3. Searching'
  BY <1>1, <1>2, OtherFilesFound, SearchedStays DEF Searching, input, reading, TInv
<1>4. Reading'
  BY <1>1, <1>2 DEF TInv, Reading, input, reading, Stages
<1>5. Layout'
  BY <1>1, LayoutKept DEF layout
<1> QED BY <1>1, <1>3, <1>4, <1>5, KeepsIInv, NothingLoaded DEF TInv

LEMMA NamesTypes ==
  ASSUME TInv, [Next]_vars, NextName \/ (\E name \in par2list \union ExtraFiles : OpenFile(name))
  PROVE  TInv'
<1>1. /\ UNCHANGED <<input, diskFileMap, loaded, layout, pc>> /\ Between /\ worklist # <<>>
      /\ faults' \in 0 .. MaxFaults
  BY LoadingAssumption DEF NextName, OpenFile, TInv, Reading, Fault, Between
<1>2. \E S : S \subseteq Head(worklist) /\ worklist' \in {Tail(worklist), [worklist EXCEPT ![1] = S]}
  <2>1. CASE NextName
    BY <2>1 DEF NextName
  <2>2. CASE \E name \in par2list \union ExtraFiles : OpenFile(name)
    <3>1. PICK name : OpenFile(name)
      BY <2>2
    <3>2. Head(worklist) = worklist[1] /\ worklist' = [worklist EXCEPT ![1] = worklist[1] \ {name}]
      BY <3>1, <1>1 DEF OpenFile, TInv, Searching
    <3> QED BY <3>2
  <2> QED BY <2>1, <2>2
<1>3. /\ worklist' \in Seq(SUBSET Seq(STRING))
      /\ (UNION ToSet(worklist))' \subseteq UNION ToSet(worklist)
  BY <1>1, <1>2, WorklistGoesOn DEF input
<1>4. \/ UNCHANGED reading
      \/ /\ \E name \in DOMAIN disk : file' = name /\ name \in UNION ToSet(worklist)
         /\ offset' = 0 /\ at' = "Header" /\ worklist' # <<>>
  <2>1. CASE NextName
    BY <2>1 DEF NextName
  <2>2. CASE \E name \in par2list \union ExtraFiles : OpenFile(name)
    <3>1. PICK name : OpenFile(name)
      BY <2>2
    <3>2. Head(worklist) = worklist[1] /\ 1 \in DOMAIN worklist /\ worklist' # <<>>
      BY <3>1, <1>1 DEF OpenFile, TInv, Searching
    <3> QED BY <3>1, <3>2 DEF OpenFile, ToSet
  <2> QED BY <2>1, <2>2
<1>5. Searched' = Searched
  BY <1>1, SearchedStays DEF input
<1>6. Searching'
  BY <1>1, <1>3, <1>4, <1>5 DEF Searching, TInv, input, Between, reading
<1>7. Reading'
  <2>1. \A name \in DOMAIN disk : disk[name].size >= 0
    BY LoadingAssumption DEF TInv, IInv
  <2> QED BY <1>1, <1>4, <2>1 DEF TInv, Reading, input, reading, Between, Stages, size
<1>8. Layout'
  BY <1>1, LayoutKept DEF layout, Between
<1> QED BY <1>1, <1>6, <1>7, <1>8, KeepsIInv, NothingLoaded DEF TInv

(* Where a search of a buffer may end.                                     *)
LEMMA SearchEnds ==
  ASSUME TInv, Search
  PROVE  \/ MoveTo(offset, "End") /\ Fault
         \/ \E o \in Nat : /\ MoveTo(o, "Packet") /\ Magic(o) /\ o >= offset /\ o + HeaderSize <= size
                           /\ \A n \in offset .. o - 1 : ~Magic(n)
                           /\ UNCHANGED faults
         \/ \E o \in Nat : /\ MoveTo(o, "Search") /\ o > offset /\ o <= size
                           /\ \A n \in offset .. o - 1 : ~Magic(n)
                           /\ UNCHANGED faults
<1>1. /\ offset \in Nat /\ size \in Nat /\ offset + HeaderSize <= size
      /\ HeaderSize \in Nat \ {0} /\ BufferSize \in Nat /\ BufferSize >= HeaderSize
  BY LoadingAssumption DEF Search, TInv, IInv, ReadingAt, size
<1> DEFINE want == Min({BufferSize, size - offset})
           found == {o \in offset .. offset + want - HeaderSize : Magic(o)}
<1>2. want \in Nat /\ want >= HeaderSize /\ want <= size - offset
  <2>1. {BufferSize, size - offset} \in SUBSET Nat
    BY <1>1
  <2> HIDE DEF size
  <2>2. want \in {BufferSize, size - offset} /\ \A n \in {BufferSize, size - offset} : want <= n
    BY <2>1, MinIsLeast
  <2> QED BY <1>1, <2>2
<1>3. found \in SUBSET Nat
  BY <1>1, <1>2
<1>4. CASE found # {} /\ MoveTo(Min(found), "Packet") /\ UNCHANGED faults
  <2>1. Min(found) \in found /\ \A n \in found : Min(found) <= n
    BY <1>3, <1>4, MinIsLeast
  <2>2. PICK o \in Nat : o = Min(found)
    BY <1>3, <2>1
  <2>3. o >= offset /\ o + HeaderSize <= size /\ Magic(o)
    BY <1>1, <1>2, <2>1, <2>2
  <2>4. ASSUME NEW n \in offset .. o - 1, Magic(n) PROVE FALSE
    <3>1. n \notin found /\ o <= offset + want - HeaderSize
      BY <1>1, <1>2, <2>1, <2>2, <2>4
    <3> HIDE DEF want, found
    <3>2. n \in offset .. offset + want - HeaderSize
      BY <1>1, <1>2, <2>4, <3>1
    <3> QED BY <2>4, <3>1, <3>2 DEF found
  <2> QED BY <1>4, <2>2, <2>3, <2>4
<1>5. CASE found = {} /\ MoveTo(offset + want - HeaderSize + 1, "Search") /\ UNCHANGED faults
  <2>1. PICK o \in Nat : o = offset + want - HeaderSize + 1
    BY <1>1, <1>2
  <2>2. o > offset /\ o <= size
    BY <1>1, <1>2, <2>1
  <2>3. \A n \in offset .. o - 1 : ~Magic(n)
    BY <1>1, <1>2, <1>5, <2>1
  <2> QED BY <1>5, <2>1, <2>2, <2>3
<1> QED BY <1>4, <1>5 DEF Search, SearchBuffer

LEMMA ReadingTypes ==
  ASSUME TInv, [Next]_vars, ReadHeader \/ Search \/ NoPacket
  PROVE  TInv'
<1>1. /\ UNCHANGED <<input, names, diskFileMap, loaded, layout, pc>> /\ file # None
      /\ faults' \in 0 .. MaxFaults /\ UNCHANGED file
  BY LoadingAssumption DEF ReadHeader, Search, NoPacket, SearchBuffer, MoveTo, TInv, Reading, Fault
<1>2. /\ offset \in Nat /\ size \in Nat /\ HeaderSize \in Nat \ {0} /\ offset <= size
      /\ at = "Packet" => offset + HeaderSize <= size
      /\ pc \in {"ParFile", "OtherFiles"}
  BY <1>1, LoadingAssumption DEF TInv, IInv, ReadingAt, Reading, size
<1>3. Searched' = Searched
  BY <1>1, SearchedStays DEF input
<1>4. Searching'
  BY <1>1, <1>3 DEF Searching, TInv, input, names
<1>5. /\ at' \in {"Header", "Search", "Packet", "End"}
      /\ offset' <= size /\ (at' = "Packet" => offset' + HeaderSize <= size)
  <2>1. CASE ReadHeader
    BY <1>2, <2>1 DEF ReadHeader, MoveTo
  <2>2. CASE NoPacket
    BY <1>2, <2>2 DEF NoPacket, MoveTo, PastFirstByte
  <2>3. CASE Search
    BY <1>2, <2>3, SearchEnds DEF MoveTo
  <2> QED BY <2>1, <2>2, <2>3
<1>6. size' = size
  BY <1>1 DEF size, input
<1>7. Reading'
  BY <1>1, <1>2, <1>5, <1>6 DEF TInv, Reading, input
<1>8. Layout'
  BY <1>1, <1>2, LayoutKept DEF layout
<1> QED BY <1>1, <1>4, <1>7, <1>8, KeepsIInv, NothingLoaded DEF TInv

LEMMA CloseTypes == ASSUME TInv, [Next]_vars, CloseFile \/ AllLoaded PROVE TInv'
<1>1. /\ UNCHANGED <<input, names, loaded, layout, faults>> /\ file' = None /\ at' = "Header"
      /\ pc \in {"ParFile", "OtherFiles"}
      /\ pc' \in {"ParFile", "OtherFiles", "CheckPacketConsistency"}
      /\ diskFileMap' \subseteq DOMAIN disk
  BY DEF CloseFile, AllLoaded, TInv, IInv, Reading, ReadingAt, reading
<1>2. Searched' = Searched
  BY <1>1, SearchedStays DEF input
<1>3. Searching'
  BY <1>1, <1>2 DEF Searching, TInv, input, names
<1>4. Reading'
  BY <1>1 DEF TInv, Reading, Stages, input
<1>5. Layout'
  BY <1>1, LayoutKept DEF layout
<1> QED BY <1>1, <1>3, <1>4, <1>5, KeepsIInv, NothingLoaded DEF TInv

LEMMA PacketOfSet ==
  ASSUME disk \in Disks, NEW type, NEW p \in OfSet(type)
  PROVE  /\ p.type = type /\ p.set = setid /\ Sound(p) /\ p.length \in Nat
         /\ \E name \in Searched : \E o \in Intact(name) : p = disk[name].packets[o]
         /\ type = "main" =>
              /\ p.about # None /\ DOMAIN p.about.files = 1 .. Body(p) \div EntrySize
              /\ \A n \in DOMAIN p.about.files : p.about.files[n] # None
              /\ p.about.recoverablefilecount \in Nat /\ p.about.blocksize \in Nat
         /\ type = "description" => p.about.filesize \in Nat
<1>1. PICK name \in Searched : \E o \in Intact(name) : p = disk[name].packets[o]
  BY DEF OfSet
<1>2. name \in DOMAIN disk
  BY DEF Searched, Given
<1>3. PICK o \in Intact(name) : p = disk[name].packets[o]
  BY <1>1
<1>4. o \in DOMAIN disk[name].packets /\ p.intact
  BY <1>3 DEF Intact
<1>5. p.length \in Nat
  BY <1>2, <1>3, <1>4, LoadingAssumption
<1>6. p.type = type /\ p.set = setid /\ Sound(p)
  BY DEF OfSet
<1> QED BY <1>1, <1>2, <1>3, <1>4, <1>5, <1>6, PacketsAssumption

(* How the source files are added to.                                      *)
Grown(map, p) ==
  /\ \A id \in Described : id \in DOMAIN map /\ map[id].description = sourcefilemap[id].description
  /\ \A id \in Verified : id \in DOMAIN map /\ map[id].verification = sourcefilemap[id].verification
  /\ \A id \in DOMAIN map : map[id].description # None /\ id \notin Described =>
       /\ p.type = "description" /\ Sound(p) /\ p.about.file = id
       /\ map[id].description = p.about.filesize
  /\ \A id \in DOMAIN map : map[id].verification # None /\ id \notin Verified =>
       /\ p.type = "verification" /\ Sound(p) /\ p.about = id
       /\ map[id].verification = Body(p) \div EntrySize
  /\ p.type = "description" /\ Sound(p) =>
       p.about.file \in DOMAIN map /\ map[p.about.file].description # None
  /\ p.type = "verification" /\ Sound(p) =>
       p.about \in DOMAIN map /\ map[p.about].verification # None

LEMMA SourceFilesGrow ==
  ASSUME Shaped(sourcefilemap), NEW p, p = header, p.length \in Nat,
         p.type = "description" /\ Sound(p) => p.about.filesize \in Nat,
         NEW map, map = IF p.type = "verification" THEN LoadVerificationPacket
                        ELSE LoadDescriptionPacket
  PROVE  Shaped(map) /\ Grown(map, p)
<1>1. ASSUME NEW id PROVE
        /\ SourceFile(id) = [description |-> SourceFile(id).description,
                             verification |-> SourceFile(id).verification,
                             blockcount |-> SourceFile(id).blockcount]
        /\ SourceFile(id).blockcount \in 0 .. MaxU32
        /\ id \notin Described => SourceFile(id).description = None
        /\ id \notin Verified => SourceFile(id).verification = None
        /\ id \in DOMAIN sourcefilemap => SourceFile(id) = sourcefilemap[id]
  BY LoadingAssumption DEF SourceFile, Shaped, Described, Verified
<1>2. CASE map = sourcefilemap
           /\ (p.type = "description" /\ Sound(p) => p.about.file \in Described)
           /\ (p.type = "verification" /\ Sound(p) => p.about \in Verified)
  BY <1>2 DEF Grown, Described, Verified
<1>3. CASE p.type = "verification" /\ Sound(p) /\ p.about \notin Verified
  <2>1. PICK id, n : id = p.about /\ n = Body(p) \div EntrySize
    OBVIOUS
  <2>2. n # None
    <3>1. Body(p) \in Nat
      BY <1>3, LoadingAssumption DEF Sound, Body
    <3>2. Body(p) \div EntrySize \in Nat
      BY <3>1, LoadingAssumption
    <3> QED BY <2>1, <3>2, LoadingAssumption
  <2>3. PICK new : new = [SourceFile(id) EXCEPT !.verification = n]
    OBVIOUS
  <2>4. /\ new = [description |-> new.description, verification |-> new.verification,
                  blockcount |-> new.blockcount]
        /\ new.blockcount = SourceFile(id).blockcount /\ new.verification = n
        /\ new.description = SourceFile(id).description
    BY <1>1, <2>3
  <2>5. map = With(sourcefilemap, id, new)
    BY <1>3, <2>1, <2>3 DEF LoadVerificationPacket, Loads
  <2>6. /\ DOMAIN map = DOMAIN sourcefilemap \union {id} /\ map[id] = new
        /\ \A k \in DOMAIN sourcefilemap : k # id => map[k] = sourcefilemap[k]
    BY <2>5 DEF With
  <2>7. Shaped(map)
    BY <1>1, <2>4, <2>6 DEF Shaped
  <2> QED BY <1>1, <1>3, <2>1, <2>2, <2>4, <2>6, <2>7 DEF Grown, Described, Verified
<1>4. CASE p.type = "description" /\ Sound(p) /\ p.about.file \notin Described
  <2>1. PICK id, n : id = p.about.file /\ n = p.about.filesize
    OBVIOUS
  <2>2. n # None
    BY <1>4, <2>1, LoadingAssumption
  <2>3. PICK new : new = [SourceFile(id) EXCEPT !.description = n]
    OBVIOUS
  <2>4. /\ new = [description |-> new.description, verification |-> new.verification,
                  blockcount |-> new.blockcount]
        /\ new.blockcount = SourceFile(id).blockcount /\ new.description = n
        /\ new.verification = SourceFile(id).verification
    BY <1>1, <2>3
  <2>5. map = With(sourcefilemap, id, new)
    BY <1>4, <2>1, <2>3 DEF LoadDescriptionPacket, Loads
  <2>6. /\ DOMAIN map = DOMAIN sourcefilemap \union {id} /\ map[id] = new
        /\ \A k \in DOMAIN sourcefilemap : k # id => map[k] = sourcefilemap[k]
    BY <2>5 DEF With
  <2>7. Shaped(map)
    BY <1>1, <2>4, <2>6 DEF Shaped
  <2> QED BY <1>1, <1>4, <2>1, <2>2, <2>4, <2>6, <2>7 DEF Grown, Described, Verified
<1> QED BY <1>2, <1>3, <1>4 DEF LoadVerificationPacket, LoadDescriptionPacket, Loads

(* What a packet that is taken does to what is loaded.                     *)
LEMMA PacketIsTaken ==
  ASSUME TInv, TakePacket, NEW p, p = header
  PROVE  /\ p \in UNION {{disk[name].packets[o] : o \in Intact(name)} : name \in Searched}
         /\ offset \in Intact(file) /\ p.length \in Nat /\ p.set # None /\ setid' # None
         /\ setid # None => setid' = setid
         /\ setid = None => setid' = p.set
         /\ \/ UNCHANGED <<mainpacket, recoverypacketmap, sourcefilemap>>
               /\ (p.set = setid' => faults' # 0)
            \/ /\ p.set = setid' /\ faults' = faults
               /\ mainpacket' = LoadMainPacket /\ recoverypacketmap' = LoadRecoveryPacket
               /\ Shaped(sourcefilemap') /\ Grown(sourcefilemap', p)
<1>1. /\ file \in DOMAIN disk /\ disk \in Disks /\ offset \in DOMAIN disk[file].packets
      /\ LengthValid /\ p.intact /\ file # None
  BY DEF TakePacket, TInv, IInv, ReadingAt
<1>2. p = disk[file].packets[offset]
  BY DEF header
<1>3. p.length \in Nat /\ p.set # None
  BY <1>1, <1>2, LoadingAssumption
<1>4. offset \in Intact(file)
  BY <1>1, <1>2 DEF Intact, LengthValid, size
<1>5. file \in Searched
  BY <1>1 DEF TInv, Searching
<1>6. p.type = "description" /\ Sound(p) => p.about.filesize \in Nat
  BY <1>1, <1>2, PacketsAssumption
<1>7. PICK map : map = IF p.type = "verification" THEN LoadVerificationPacket
                       ELSE LoadDescriptionPacket
  OBVIOUS
<1>8. Shaped(map) /\ Grown(map, p)
  BY <1>3, <1>6, <1>7, SourceFilesGrow DEF TInv
<1>9. setid' = IF setid = None THEN p.set ELSE setid
  BY DEF TakePacket
<1>10. CASE p.set = setid' /\ UNCHANGED faults /\ mainpacket' = LoadMainPacket
            /\ recoverypacketmap' = LoadRecoveryPacket /\ sourcefilemap' = map
  BY <1>2, <1>3, <1>4, <1>5, <1>8, <1>9, <1>10
<1>11. CASE /\ p.set = setid' => Fault
            /\ UNCHANGED <<mainpacket, recoverypacketmap, sourcefilemap>>
  <2>1. faults \in Nat
    BY DEF TInv, Reading
  <2> QED BY <1>2, <1>3, <1>4, <1>5, <1>9, <1>11, <2>1 DEF Fault
<1> QED BY <1>7, <1>10, <1>11 DEF TakePacket

LEMMA RecoveryMapGrows ==
  ASSUME NEW p, p = header, recoverypacketmap' = LoadRecoveryPacket
  PROVE  /\ \A e \in DOMAIN recoverypacketmap :
              e \in DOMAIN recoverypacketmap' /\ recoverypacketmap'[e] = recoverypacketmap[e]
         /\ \A e \in DOMAIN recoverypacketmap' : e \notin DOMAIN recoverypacketmap =>
              /\ p.type = "recovery" /\ Sound(p) /\ p.about = e
              /\ recoverypacketmap'[e].size = Body(p)
         /\ p.type = "recovery" /\ Sound(p) => p.about \in DOMAIN recoverypacketmap'
<1>1. CASE p.type = "recovery" /\ Sound(p) /\ p.about \notin DOMAIN recoverypacketmap
  <2>1. PICK new : new = [file |-> file, offset |-> offset, size |-> Body(p)]
    OBVIOUS
  <2>2. recoverypacketmap' = With(recoverypacketmap, p.about, new)
    BY <1>1, <2>1 DEF LoadRecoveryPacket, Loads
  <2>3. new.size = Body(p)
    BY <2>1
  <2> QED BY <1>1, <2>2, <2>3 DEF With
<1>2. CASE recoverypacketmap' = recoverypacketmap
           /\ (p.type = "recovery" /\ Sound(p) => p.about \in DOMAIN recoverypacketmap)
  BY <1>2
<1> QED BY <1>1, <1>2 DEF LoadRecoveryPacket, Loads

LEMMA TakenComesFrom ==
  ASSUME TInv, TakePacket
  PROVE  ComeFrom'
<1>1. PICK p : p = header
  OBVIOUS
<1>2. /\ p \in UNION {{disk[name].packets[o] : o \in Intact(name)} : name \in Searched}
      /\ setid' # None /\ (setid # None => setid' = setid)
      /\ \/ UNCHANGED <<mainpacket, recoverypacketmap, sourcefilemap>>
         \/ /\ p.set = setid'
            /\ mainpacket' = LoadMainPacket /\ recoverypacketmap' = LoadRecoveryPacket
            /\ Grown(sourcefilemap', p)
  BY <1>1, PacketIsTaken
<1>3. UNCHANGED <<disk, parfilename>>
  BY DEF TakePacket, input
<1>4. \A name : Intact(name)' = Intact(name)
  BY <1>3 DEF Intact
<1>5. Searched' = Searched
  BY <1>3, SearchedStays
<1>6. \A type : setid # None => OfSet(type) \subseteq OfSet(type)'
  BY <1>2, <1>3, <1>4, <1>5 DEF OfSet
<1>7. \A type : p.set = setid' /\ p.type = type /\ Sound(p) => p \in OfSet(type)'
  BY <1>2, <1>3, <1>4, <1>5 DEF OfSet
<1>8. ComeFrom
  BY DEF TInv
<1>9. CASE UNCHANGED <<mainpacket, recoverypacketmap, sourcefilemap>>
  <2>1. Verified' = Verified /\ Described' = Described
    BY <1>9 DEF Verified, Described
  <2>2. CASE setid = None
    BY <1>2, <1>8, <1>9, <2>1, <2>2 DEF ComeFrom, Verified, Described
  <2>3. CASE setid # None
    BY <1>2, <1>6, <1>8, <1>9, <2>1, <2>3 DEF ComeFrom
  <2> QED BY <2>2, <2>3
<1>10. CASE /\ p.set = setid'
            /\ mainpacket' = LoadMainPacket /\ recoverypacketmap' = LoadRecoveryPacket
            /\ Grown(sourcefilemap', p)
  <2>1. setid = None => DOMAIN recoverypacketmap = {} /\ Verified = {} /\ Described = {}
                        /\ mainpacket = None
    BY <1>8 DEF ComeFrom, Verified, Described
  <2>2. \A e \in DOMAIN recoverypacketmap' :
          \E q \in OfSet("recovery")' : q.about = e /\ recoverypacketmap'[e].size = Body(q)
    <3> TAKE e \in DOMAIN recoverypacketmap'
    <3>1. CASE e \in DOMAIN recoverypacketmap
      BY <1>1, <1>6, <1>8, <1>10, <2>1, <3>1, RecoveryMapGrows DEF ComeFrom
    <3>2. CASE e \notin DOMAIN recoverypacketmap
      BY <1>1, <1>7, <1>10, <3>2, RecoveryMapGrows
    <3> QED BY <3>1, <3>2
  <2>3. \A id \in Verified' : \E q \in OfSet("verification")' :
          q.about = id /\ sourcefilemap'[id].verification = Body(q) \div EntrySize
    <3> TAKE id \in Verified'
    <3>1. CASE id \in Verified
      BY <1>6, <1>8, <1>10, <2>1, <3>1 DEF ComeFrom, Grown
    <3>2. CASE id \notin Verified
      BY <1>7, <1>10, <3>2 DEF Grown, Verified
    <3> QED BY <3>1, <3>2
  <2>4. \A id \in Described' : \E q \in OfSet("description")' :
          q.about.file = id /\ sourcefilemap'[id].description = q.about.filesize
    <3> TAKE id \in Described'
    <3>1. CASE id \in Described
      BY <1>6, <1>8, <1>10, <2>1, <3>1 DEF ComeFrom, Grown
    <3>2. CASE id \notin Described
      BY <1>7, <1>10, <3>2 DEF Grown, Described
    <3> QED BY <3>1, <3>2
  <2>5. mainpacket' # None => \E q \in OfSet("main")' : q.about = mainpacket'
    <3>1. CASE p.type = "main" /\ Sound(p) /\ mainpacket = None
      BY <1>1, <1>7, <1>10, <3>1 DEF LoadMainPacket, Loads
    <3>2. CASE mainpacket' = mainpacket
      BY <1>6, <1>8, <2>1, <3>2 DEF ComeFrom
    <3> QED BY <1>1, <1>10, <3>1, <3>2 DEF LoadMainPacket, Loads
  <2> QED BY <1>2, <2>2, <2>3, <2>4, <2>5 DEF ComeFrom
<1> QED BY <1>2, <1>9, <1>10

LEMMA TakeTypes == ASSUME TInv, [Next]_vars, TakePacket PROVE TInv'
<1>1. /\ UNCHANGED <<input, names, diskFileMap, layout, pc>> /\ file # None
      /\ faults' \in 0 .. MaxFaults /\ UNCHANGED file /\ at' = "Header"
      /\ offset' = offset + header.length /\ LengthValid
  BY LoadingAssumption DEF TakePacket, TInv, Reading, Fault
<1>2. pc \in {"ParFile", "OtherFiles"} /\ size' = size
  BY <1>1 DEF TInv, Reading, size, input
<1>3. Searched' = Searched
  BY <1>1, SearchedStays DEF input
<1>4. Searching'
  BY <1>1, <1>3 DEF Searching, TInv, input, names
<1>5. Reading'
  BY <1>1, <1>2 DEF TInv, Reading, input, LengthValid
<1>6. Shaped(sourcefilemap')
  <2>1. PICK p : p = header
    OBVIOUS
  <2> QED BY <2>1, PacketIsTaken DEF TInv
<1>7. Layout'
  BY <1>1, <1>2, LayoutKept DEF layout
<1> QED BY <1>4, <1>5, <1>6, <1>7, KeepsIInv, TakenComesFrom DEF TInv

(* What is loaded has its type.                                            *)
LEMMA WhatIsLoaded ==
  ASSUME TInv
  PROVE  /\ \A e \in DOMAIN recoverypacketmap : recoverypacketmap[e].size \in Nat \ {0}
         /\ \A id \in Verified : sourcefilemap[id].verification \in Nat \ {0}
         /\ \A id \in Described : sourcefilemap[id].description \in Nat
         /\ mainpacket # None =>
              /\ mainpacket.blocksize \in Nat \ {0} /\ mainpacket.recoverablefilecount \in Nat
              /\ \E n \in Nat : DOMAIN mainpacket.files = 1 .. n
                                /\ mainpacket.recoverablefilecount <= n
              /\ \A n \in DOMAIN mainpacket.files : mainpacket.files[n] # None
<1>1. disk \in Disks /\ ComeFrom
  BY DEF TInv, IInv
<1>2. \A e \in DOMAIN recoverypacketmap : recoverypacketmap[e].size \in Nat \ {0}
  <2> TAKE e \in DOMAIN recoverypacketmap
  <2>1. PICK p \in OfSet("recovery") : recoverypacketmap[e].size = Body(p)
    BY <1>1 DEF ComeFrom
  <2>2. Body(p) \in Int /\ Body(p) > 0
    BY <1>1, PacketOfSet, LoadingAssumption DEF Sound, Body
  <2> QED BY <2>1, <2>2
<1>3. \A id \in Verified : sourcefilemap[id].verification \in Nat \ {0}
  <2> TAKE id \in Verified
  <2>1. PICK p \in OfSet("verification") : sourcefilemap[id].verification = Body(p) \div EntrySize
    BY <1>1 DEF ComeFrom
  <2>2. Body(p) \in Nat /\ Body(p) > 0 /\ Body(p) % EntrySize = 0
    <3>1. p.length \in Nat /\ p.type = "verification" /\ Sound(p)
      BY <1>1, PacketOfSet
    <3>2. Body(p) \in Int
      BY <3>1, LoadingAssumption DEF Body
    <3>3. Body(p) > 0 /\ WholeEntries(p)
      BY <3>1 DEF Sound
    <3> QED BY <3>2, <3>3 DEF WholeEntries
  <2>3. Body(p) \div EntrySize \in Nat \ {0}
    BY <2>2, LoadingAssumption
  <2> QED BY <2>1, <2>3
<1>4. \A id \in Described : sourcefilemap[id].description \in Nat
  BY <1>1, PacketOfSet DEF ComeFrom
<1>5. ASSUME mainpacket # None
      PROVE  /\ mainpacket.blocksize \in Nat \ {0} /\ mainpacket.recoverablefilecount \in Nat
             /\ \E n \in Nat : DOMAIN mainpacket.files = 1 .. n
                               /\ mainpacket.recoverablefilecount <= n
             /\ \A n \in DOMAIN mainpacket.files : mainpacket.files[n] # None
  <2>1. PICK p \in OfSet("main") : p.about = mainpacket
    BY <1>1, <1>5 DEF ComeFrom
  <2>2. /\ Body(p) \in Nat /\ p.about.blocksize > 0
        /\ p.about.recoverablefilecount <= Body(p) \div EntrySize
    <3>1. p.length \in Nat /\ p.type = "main" /\ Sound(p)
      BY <1>1, PacketOfSet
    <3>2. Body(p) \in Int
      BY <3>1, LoadingAssumption DEF Body
    <3>3. Body(p) >= 0 /\ p.about.recoverablefilecount <= Body(p) \div EntrySize /\ p.about.blocksize > 0
      BY <3>1 DEF Sound
    <3> QED BY <3>2, <3>3
  <2>3. Body(p) \div EntrySize \in Nat
    BY <2>2, LoadingAssumption
  <2> QED BY <1>1, <2>1, <2>2, <2>3, PacketOfSet
<1> QED BY <1>2, <1>3, <1>4, <1>5

LEMMA BlockCountIsNat ==
  ASSUME TInv, mainpacket # None, NEW id \in Described
  PROVE  BlockCount(sourcefilemap[id].description) \in Nat
<1>1. sourcefilemap[id].description \in Nat /\ mainpacket.blocksize \in Nat \ {0}
  BY WhatIsLoaded
<1> QED BY <1>1 DEF BlockCount

(* The state in which no file is read any more.                            *)
LEMMA ReadingIsOver ==
  ASSUME TInv, pc \notin {"ParFile", "OtherFiles"}, UNCHANGED <<input, names, reading, diskFileMap, faults>>,
         pc' \in Stages
  PROVE  Searching' /\ Reading'
<1>1. Searched' = Searched
  BY SearchedStays DEF input
<1>2. file = None
  BY DEF TInv, Reading
<1> QED BY <1>1, <1>2 DEF TInv, Searching, Reading, input, names, reading

LEMMA ConsistencyTypes == ASSUME TInv, [Next]_vars, CheckPacketConsistency PROVE TInv'
<1>1. /\ UNCHANGED <<input, names, reading, diskFileMap, layout, faults>>
      /\ pc = "CheckPacketConsistency" /\ pc' \in {"CreateSourceFileList", "Finished"}
      /\ UNCHANGED <<setid, mainpacket>>
  BY DEF CheckPacketConsistency, loaded
<1>2. Searching' /\ Reading'
  BY <1>1, ReadingIsOver DEF Stages
<1>3. CASE mainpacket = None
  <2>1. UNCHANGED loaded /\ pc' = "Finished"
    BY <1>3 DEF CheckPacketConsistency
  <2>2. Layout'
    BY <1>1, <2>1 DEF TInv, Layout, layout
  <2> QED BY <1>1, <1>2, <2>1, <2>2, KeepsIInv, NothingLoaded DEF TInv
<1>4. CASE mainpacket # None
  <2>1. /\ pc' = "CreateSourceFileList"
        /\ DOMAIN recoverypacketmap' \subseteq DOMAIN recoverypacketmap
        /\ \A e \in DOMAIN recoverypacketmap' : recoverypacketmap'[e] = recoverypacketmap[e]
        /\ sourcefilemap' = [id \in ConsistentFiles |->
             [sourcefilemap[id] EXCEPT !.blockcount = BlockCount(sourcefilemap[id].description)]]
    BY <1>4 DEF CheckPacketConsistency, Restrict
  <2>2. ConsistentFiles \subseteq Described /\ Described \subseteq DOMAIN sourcefilemap
    BY DEF ConsistentFiles, Described
  <2>3. \A id \in ConsistentFiles :
          /\ sourcefilemap'[id] = [description |-> sourcefilemap'[id].description,
                                   verification |-> sourcefilemap'[id].verification,
                                   blockcount |-> sourcefilemap'[id].blockcount]
          /\ sourcefilemap'[id].blockcount = BlockCount(sourcefilemap[id].description)
          /\ sourcefilemap'[id].verification = sourcefilemap[id].verification
          /\ sourcefilemap'[id].description = sourcefilemap[id].description
    <3> TAKE id \in ConsistentFiles
    <3>1. sourcefilemap'[id] =
            [sourcefilemap[id] EXCEPT !.blockcount = BlockCount(sourcefilemap[id].description)]
      BY <2>1
    <3>2. sourcefilemap[id] = [description |-> sourcefilemap[id].description,
                               verification |-> sourcefilemap[id].verification,
                               blockcount |-> sourcefilemap[id].blockcount]
      BY <2>2 DEF TInv, Shaped
    <3> QED BY <3>1, <3>2
  <2>4. Shaped(sourcefilemap')
    <3>1. \A id \in ConsistentFiles : BlockCount(sourcefilemap[id].description) \in 0 .. MaxU32
      <4> TAKE id \in ConsistentFiles
      <4>1. BlockCount(sourcefilemap[id].description) \in Nat
        BY <1>4, <2>2, BlockCountIsNat
      <4>2. BlockCount(sourcefilemap[id].description) <= MaxU32
        BY DEF ConsistentFiles
      <4> QED BY <4>1, <4>2, LoadingAssumption
    <3>2. DOMAIN sourcefilemap' = ConsistentFiles
      BY <2>1
    <3> QED BY <2>3, <3>1, <3>2 DEF Shaped
  <2>5. \A type : OfSet(type)' = OfSet(type)
    BY <1>1, OfSetStays DEF input
  <2>6. Verified' \subseteq Verified /\ Described' \subseteq Described
    BY <2>1, <2>2, <2>3 DEF Verified, Described
  <2>7. ComeFrom'
    <3>1. ComeFrom /\ DOMAIN sourcefilemap' \subseteq DOMAIN sourcefilemap
      BY <2>1, <2>2 DEF TInv
    <3>2. \A id \in DOMAIN sourcefilemap' :
            /\ sourcefilemap'[id].verification = sourcefilemap[id].verification
            /\ sourcefilemap'[id].description = sourcefilemap[id].description
      BY <2>1, <2>3
    <3>3. Verified' \subseteq DOMAIN sourcefilemap' /\ Described' \subseteq DOMAIN sourcefilemap'
      BY DEF Verified, Described
    <3>4. setid' = None => DOMAIN recoverypacketmap' = {} /\ DOMAIN sourcefilemap' = {} /\ mainpacket' = None
      BY <1>1, <2>1, <3>1 DEF ComeFrom
    <3>5. \A e \in DOMAIN recoverypacketmap' : \E p \in OfSet("recovery")' :
            p.about = e /\ recoverypacketmap'[e].size = Body(p)
      BY <2>1, <2>5, <3>1 DEF ComeFrom
    <3>6. \A id \in Verified' : \E p \in OfSet("verification")' :
            p.about = id /\ sourcefilemap'[id].verification = Body(p) \div EntrySize
      BY <2>5, <2>6, <3>1, <3>2, <3>3 DEF ComeFrom
    <3>7. \A id \in Described' : \E p \in OfSet("description")' :
            p.about.file = id /\ sourcefilemap'[id].description = p.about.filesize
      BY <2>5, <2>6, <3>1, <3>2, <3>3 DEF ComeFrom
    <3>8. mainpacket' # None => \E p \in OfSet("main")' : p.about = mainpacket'
      BY <1>1, <2>5, <3>1 DEF ComeFrom
    <3> QED BY <3>4, <3>5, <3>6, <3>7, <3>8 DEF ComeFrom
  <2>8. Checked'
    <3>1. \A id \in ConsistentFiles :
            /\ sourcefilemap[id].description # None
            /\ sourcefilemap[id].verification \in {None, BlockCount(sourcefilemap[id].description)}
      BY <2>2 DEF ConsistentFiles, Described
    <3> QED BY <1>1, <1>4, <2>1, <2>3, <3>1 DEF Checked
  <2>9. Layout'
    BY <1>1, <2>1, <2>8 DEF TInv, Layout, layout
  <2> QED BY <1>2, <2>4, <2>7, <2>9, KeepsIInv DEF TInv
<1> QED BY <1>3, <1>4

LEMMA BlocksAreFinite ==
  ASSUME TInv, Checked, Listed, NEW S \in SUBSET DOMAIN sourcefiles,
         \A n \in S : sourcefiles[n] # None
  PROVE  IsFiniteSet(BlocksOf(S)) /\ BlocksIn(S) \in Nat
<1>1. IsFiniteSet(DOMAIN sourcefiles)
  BY WhatIsLoaded, FS_Interval DEF Checked, Listed
<1>2. IsFiniteSet(S)
  BY <1>1, FS_Subset
<1> DEFINE g == [n \in S |-> {n} \X (1 .. sourcefilemap[sourcefiles[n]].blockcount)]
<1>3. \A n \in S : IsFiniteSet(g[n])
  <2> TAKE n \in S
  <2>1. sourcefilemap[sourcefiles[n]].blockcount \in Nat
    BY LoadingAssumption DEF TInv, Shaped, Listed
  <2>2. IsFiniteSet(1 .. sourcefilemap[sourcefiles[n]].blockcount)
    BY <2>1, FS_Interval
  <2>3. IsFiniteSet({n})
    BY FS_Singleton
  <2> QED BY <2>2, <2>3, FS_Product
<1>4. IsFiniteSet({g[n] : n \in DOMAIN g})
  BY <1>2, ImageIsFinite
<1>5. BlocksOf(S) = UNION {g[n] : n \in DOMAIN g}
  BY DEF BlocksOf
<1>6. DOMAIN g = S
  OBVIOUS
<1> HIDE DEF g
<1>7. IsFiniteSet(BlocksOf(S))
  BY <1>3, <1>4, <1>5, <1>6, FS_UNION
<1> QED BY <1>7, FS_CardinalityType DEF BlocksIn

LEMMA LayoutTypes ==
  ASSUME TInv, [Next]_vars,
         CreateSourceFileList \/ AllocateSourceBlocks \/ PrepareVerificationHashTable
         \/ VerifySourceFiles \/ UNCHANGED vars
  PROVE  TInv'
<1>1. UNCHANGED <<input, names, reading, diskFileMap, loaded, faults>>
  BY DEF CreateSourceFileList, AllocateSourceBlocks, PrepareVerificationHashTable, VerifySourceFiles, vars
<1>2. CASE UNCHANGED vars
  <2>1. Searching' /\ Reading' 
    <3>1. Searched' = Searched
      BY <1>1, SearchedStays DEF input
    <3> QED BY <1>2, <3>1 DEF vars, TInv, Searching, Reading, input, names, reading, size
  <2>2. Layout'
    <3>1. UNCHANGED <<pc, mainpacket, sourcefilemap, sourcefiles, sourceblockcount, blocks, entries>>
      BY <1>2 DEF vars, loaded, layout
    <3>2. Checked' = Checked /\ Listed' = Listed /\ Verified' = Verified /\ Recoverable' = Recoverable
      BY <3>1 DEF Checked, Listed, Verified, Recoverable
    <3>3. BlocksIn(Recoverable)' = BlocksIn(Recoverable) /\ FirstBlocks' = FirstBlocks
      BY <3>1, <3>2 DEF BlocksIn, BlocksOf, FirstBlocks
    <3>4. Allocated' = Allocated /\ Entered' = Entered
      BY <3>1, <3>2, <3>3 DEF Allocated, Entered
    <3> QED BY <3>1, <3>2, <3>4 DEF TInv, Layout
  <2> QED BY <1>1, <2>1, <2>2, KeepsIInv, NothingLoaded DEF TInv
<1>3. CASE ~UNCHANGED vars
  <2>1. /\ pc \in {"CreateSourceFileList", "AllocateSourceBlocks", "PrepareVerificationHashTable",
                   "VerifySourceFiles"}
        /\ pc' \in Stages
    BY <1>3 DEF CreateSourceFileList, AllocateSourceBlocks, PrepareVerificationHashTable,
                VerifySourceFiles, Stages
  <2>2. Searching' /\ Reading'
    BY <1>1, <2>1, ReadingIsOver
  <2>3. Checked /\ Checked'
    BY <1>1, <2>1 DEF TInv, Layout, Checked, loaded
  <2>4. Verified' = Verified
    BY <1>1 DEF loaded, Verified
  <2>5. CASE CreateSourceFileList
    <3>1. Listed'
      BY <1>1, <2>5 DEF CreateSourceFileList, Listed, loaded
    <3> QED BY <1>1, <2>2, <2>3, <2>5, <3>1, KeepsIInv, NothingLoaded
            DEF CreateSourceFileList, TInv, Layout
  <2>6. CASE AllocateSourceBlocks
    <3>1. Listed /\ blocks = <<>> /\ UNCHANGED sourcefiles
      BY <2>6 DEF AllocateSourceBlocks, TInv, Layout
    <3>2. Listed' /\ Recoverable' = Recoverable
      BY <1>1, <3>1 DEF Listed, Recoverable, loaded
    <3>3. BlocksIn(Recoverable)' = BlocksIn(Recoverable) /\ FirstBlocks' = FirstBlocks
      BY <1>1, <3>1, <3>2 DEF BlocksIn, BlocksOf, FirstBlocks, loaded
    <3>4. BlocksIn(Recoverable) \in Nat
      BY <2>3, <3>1, BlocksAreFinite DEF Recoverable
    <3>5. CASE BlocksIn(Recoverable) > MaxU32
      BY <1>1, <2>2, <2>6, <3>5, KeepsIInv, NothingLoaded DEF AllocateSourceBlocks, TInv, Layout
    <3>6. CASE ~(BlocksIn(Recoverable) > MaxU32)
      <4>1. sourceblockcount' \in 0 .. MaxU32 /\ Allocated' /\ pc' = "PrepareVerificationHashTable"
        BY <2>6, <3>1, <3>3, <3>4, <3>6, LoadingAssumption DEF AllocateSourceBlocks, Allocated
      <4>2. Layout'
        BY <2>3, <3>2, <4>1 DEF Layout
      <4> QED BY <1>1, <2>2, <4>2, KeepsIInv, NothingLoaded DEF TInv
    <3> QED BY <3>5, <3>6
  <2>7. CASE PrepareVerificationHashTable
    <3>1. Listed /\ Allocated /\ UNCHANGED <<sourcefiles, sourceblockcount, blocks>>
          /\ pc' = "VerifySourceFiles" /\ sourceblockcount \in 0 .. MaxU32
      BY <2>7 DEF PrepareVerificationHashTable, TInv, Layout
    <3>2. Listed' /\ Recoverable' = Recoverable
      BY <1>1, <3>1 DEF Listed, Recoverable, loaded
    <3>3. BlocksIn(Recoverable)' = BlocksIn(Recoverable) /\ FirstBlocks' = FirstBlocks
      BY <1>1, <3>1, <3>2 DEF BlocksIn, BlocksOf, FirstBlocks, loaded
    <3>4. Allocated'
      BY <3>1, <3>3 DEF Allocated
    <3>5. Entered'
      BY <1>1, <2>4, <2>7, <3>1 DEF PrepareVerificationHashTable, Entered, loaded
    <3>6. Layout'
      BY <2>3, <3>1, <3>2, <3>4, <3>5 DEF Layout
    <3> QED BY <1>1, <2>2, <3>6, KeepsIInv, NothingLoaded DEF TInv
  <2>8. CASE VerifySourceFiles
    BY <1>1, <2>2, <2>8, KeepsIInv, NothingLoaded DEF VerifySourceFiles, TInv, Layout, layout
  <2> QED BY <1>3, <2>5, <2>6, <2>7, <2>8
<1> QED BY <1>2, <1>3

THEOREM TypesInvariance == Spec => []TInv
<1>1. TInv /\ [Next]_vars => TInv'
  BY OtherFilesTypes, NamesTypes, ReadingTypes, CloseTypes, TakeTypes, ConsistencyTypes, LayoutTypes
     DEF Next, Process, Terminated
<1> QED BY <1>1, TypesInit, PTL DEF Spec

(* The variables have their types, a file is read within its bounds and    *)
(* what is loaded is sound (TypeOK), for any PAR2 files: nothing that      *)
(* their packets claim takes the search out of a file.                     *)
THEOREM TypeCorrect == Spec => []TypeOK
<1>1. TInv => TypeOK
  BY WhatIsLoaded DEF TInv, IInv, ReadingAt, Reading, Layout, Shaped, TypeOK, size
<1> QED BY <1>1, TypesInvariance, PTL

-----------------------------------------------------------------------------
(* Nothing is skipped.                                                     *)

IsLoaded(p) ==
  /\ p.type = "recovery" => p.about \in DOMAIN recoverypacketmap
  /\ p.type = "verification" => p.about \in Verified
  /\ p.type = "description" => p.about.file \in Described
  /\ p.type = "main" => mainpacket # None

IsAbsorbed(p) == setid # None /\ (p.set = setid /\ Sound(p) => IsLoaded(p))

(* What survives of a file before a place is loaded, if it is of the set.  *)
AbsorbedTo(name, place) ==
  \A o \in Intact(name) : o < place => IsAbsorbed(disk[name].packets[o])

Absorbed(name) == name \in DOMAIN disk => \A o \in Intact(name) : IsAbsorbed(disk[name].packets[o])

Pending == {file} \union (UNION ToSet(worklist))

SetIs(id) ==
  parfilename \in DOMAIN disk /\ Intact(parfilename) # {}
  => id = disk[parfilename].packets[Min(Intact(parfilename))].set

NothingSkipped ==
  /\ file # None => AbsorbedTo(file, offset)
  /\ at # "End"
  /\ \A name \in diskFileMap : Absorbed(name)
  /\ setid # None => SetIs(setid)
  /\ pc = "ParFile" => /\ Pending \subseteq {parfilename, None}
                       /\ Absorbed(parfilename) \/ parfilename \in Pending
  /\ pc # "ParFile" => Absorbed(parfilename)
  /\ pc = "OtherFiles" => \A name \in Given : Absorbed(name) \/ name \in Pending
  /\ pc = "CheckPacketConsistency" => \A name \in Given : Absorbed(name)

NInv ==
  faults = 0 /\ pc \in {"ParFile", "OtherFiles", "CheckPacketConsistency"} => NothingSkipped
-----------------------------------------------------------------------------

(* What is loaded stays loaded.                                            *)
StaysAbsorbed == \A p : IsAbsorbed(p) => IsAbsorbed(p)'

LEMMA AbsorbedStays ==
  ASSUME UNCHANGED disk, StaysAbsorbed
  PROVE  /\ \A name : Absorbed(name) => Absorbed(name)'
         /\ \A name : \A place : AbsorbedTo(name, place) =>
              \A o \in Intact(name)' : o < place => IsAbsorbed(disk[name].packets[o])'
<1>1. \A name : Intact(name)' = Intact(name)
  BY DEF Intact
<1> QED BY <1>1 DEF Absorbed, AbsorbedTo, StaysAbsorbed

LEMMA UnloadedStays == UNCHANGED loaded => StaysAbsorbed
BY DEF loaded, StaysAbsorbed, IsAbsorbed, IsLoaded, Verified, Described

LEMMA SetStays == ASSUME UNCHANGED <<disk, parfilename>>, NEW id, SetIs(id) PROVE SetIs(id)'
<1>1. \A name : Intact(name)' = Intact(name)
  BY DEF Intact
<1> QED BY <1>1 DEF SetIs

LEMMA IntactInNat ==
  ASSUME disk \in Disks, NEW name \in DOMAIN disk, NEW o \in Intact(name)
  PROVE  /\ o \in Nat /\ disk[name].packets[o].length \in Nat
         /\ disk[name].packets[o].length >= HeaderSize
         /\ o + disk[name].packets[o].length <= disk[name].size /\ disk[name].size \in Nat
         /\ o \in DOMAIN disk[name].packets /\ disk[name].packets[o].intact
BY LoadingAssumption DEF Intact

(* The search goes on in a file, behind a place where no packet survives.  *)
LEMMA SearchSkipsNothing ==
  ASSUME TInv, NothingSkipped, file # None, faults' = 0,
         ReadHeader \/ Search \/ NoPacket
  PROVE  NothingSkipped'
<1>1. /\ UNCHANGED <<input, names, diskFileMap, loaded, pc, file>> /\ faults \in Nat
      /\ pc \in {"ParFile", "OtherFiles"}
  BY DEF ReadHeader, Search, SearchBuffer, NoPacket, MoveTo, TInv, Reading
<1>2. UNCHANGED <<disk, parfilename, worklist, setid>>
  BY <1>1 DEF input, names, loaded
<1>3. StaysAbsorbed
  BY <1>1, UnloadedStays
<1>4. Pending' = Pending /\ Given' = Given
  BY <1>1, <1>2, SearchedStays DEF Pending
<1>5. /\ ~Fault /\ at' # "End"
      /\ \A o \in Intact(file) : o < offset' => o < offset
  <2>1. ~Fault
    BY <1>1 DEF Fault
  <2>2. offset \in Nat /\ disk \in Disks /\ file \in DOMAIN disk
    BY DEF TInv, IInv, ReadingAt
  <2>3. \A o \in Intact(file) : o \in Nat /\ Magic(o)
    BY <2>2, IntactInNat DEF Magic
  <2>4. CASE ReadHeader
    BY <2>1, <2>2, <2>3, <2>4 DEF ReadHeader, MoveTo
  <2>5. CASE NoPacket
    <3>1. ~(LengthValid /\ header.intact)
      BY <2>1, <2>5 DEF NoPacket
    <3>2. offset \notin Intact(file)
      BY <2>2, <3>1 DEF Intact, LengthValid, header, size
    <3>3. offset' = offset + 1 /\ at' = "Header"
      BY <2>5 DEF NoPacket, MoveTo, PastFirstByte
    <3>4. \A o \in Intact(file) : o < offset' => o < offset
      BY <2>2, <2>3, <3>2, <3>3
    <3> QED BY <2>1, <3>3, <3>4
  <2>6. CASE Search
    <3>1. PICK o \in Nat : /\ offset' = o /\ at' # "End" /\ o >= offset
                           /\ \A n \in offset .. o - 1 : ~Magic(n)
      BY <2>1, <2>2, <2>6, SearchEnds DEF MoveTo
    <3>2. \A n \in Intact(file) : n < o => n < offset
      BY <2>2, <2>3, <3>1
    <3> QED BY <2>1, <3>1, <3>2
  <2> QED BY <2>1, <2>4, <2>5, <2>6
<1>6. AbsorbedTo(file, offset)'
  <2>1. AbsorbedTo(file, offset) /\ \A name : Intact(name)' = Intact(name)
    BY <1>2 DEF NothingSkipped, Intact
  <2> QED BY <1>1, <1>2, <1>3, <1>5, <2>1 DEF AbsorbedTo, StaysAbsorbed
<1>7. \A name : Absorbed(name) => Absorbed(name)'
  BY <1>2, <1>3, AbsorbedStays
<1>8. setid' # None => SetIs(setid')
  BY <1>2 DEF NothingSkipped
<1>9. setid' # None => SetIs(setid)'
  BY <1>2, <1>8, SetStays DEF NothingSkipped
<1> QED BY <1>1, <1>2, <1>4, <1>5, <1>6, <1>7, <1>9 DEF NothingSkipped

(* The other steps that load nothing: a file is taken up, or left.         *)
LEMMA NamesSkipNothing ==
  ASSUME TInv, NothingSkipped, [Next]_vars, faults' = 0, PlainNames,
         LoadPacketsFromOtherFiles \/ NextName \/ (\E name \in par2list \union ExtraFiles : OpenFile(name))
  PROVE  NothingSkipped'
<1>1. /\ UNCHANGED <<input, diskFileMap, loaded>> /\ file = None /\ at = "Header"
      /\ faults \in Nat
  BY DEF LoadPacketsFromOtherFiles, NextName, OpenFile, Between, TInv, IInv, ReadingAt, Reading, Searching
<1>2. UNCHANGED <<disk, parfilename, setid, diskFileMap>> /\ disk \in Disks
  BY <1>1 DEF input, loaded, TInv, IInv
<1>3. StaysAbsorbed
  BY <1>1, UnloadedStays
<1>4. \A name : Absorbed(name) => Absorbed(name)'
  BY <1>2, <1>3, AbsorbedStays
<1>5. setid' # None => SetIs(setid)'
  BY <1>2, SetStays DEF NothingSkipped
<1>6. Given' = Given /\ \A name \in DOMAIN disk : name # None
  BY <1>2, SearchedStays, LoadingAssumption
<1>7. CASE LoadPacketsFromOtherFiles
  <2>1. /\ file' = None /\ at' = "Header" /\ pc = "ParFile" /\ pc' = "OtherFiles" /\ worklist = <<>>
    BY <1>1, <1>7 DEF LoadPacketsFromOtherFiles, reading
  <2>2. Pending = {None}
    BY <1>1, <2>1 DEF Pending, ToSet
  <2>3. Absorbed(parfilename)
    BY <1>6, <2>1, <2>2 DEF NothingSkipped, Absorbed
  <2>4. Given \subseteq Pending'
    BY <1>7, OtherFilesFound DEF Pending
  <2> QED BY <1>2, <1>4, <1>5, <1>6, <2>1, <2>3, <2>4 DEF NothingSkipped
<1>8. CASE NextName
  <2>1. /\ UNCHANGED <<reading, pc>> /\ worklist # <<>> /\ Head(worklist) = {}
        /\ worklist' = Tail(worklist) /\ worklist \in Seq(SUBSET Seq(STRING))
    BY <1>8 DEF NextName, TInv, Searching
  <2>2. \A i \in DOMAIN worklist : worklist[i] # {} => \E j \in DOMAIN worklist' : worklist[i] = worklist'[j]
    <3> TAKE i \in DOMAIN worklist
    <3>1. i # 1 => i - 1 \in DOMAIN worklist' /\ worklist[i] = worklist'[i - 1]
      BY <2>1
    <3> QED BY <2>1, <3>1
  <2>3. UNION ToSet(worklist) \subseteq UNION ToSet(worklist)'
    BY <2>2 DEF ToSet
  <2>4. (UNION ToSet(worklist))' \subseteq UNION ToSet(worklist)
    BY <1>2, <2>1, WorklistGoesOn
  <2>5. Pending' = Pending
    BY <2>1, <2>3, <2>4 DEF Pending, reading
  <2> QED BY <1>1, <1>2, <1>4, <1>5, <1>6, <2>1, <2>5 DEF NothingSkipped, reading
<1>9. CASE \E name \in par2list \union ExtraFiles : OpenFile(name)
  <2>1. PICK name : OpenFile(name)
    BY <1>9
  <2>2. /\ UNCHANGED pc /\ pc \in {"ParFile", "OtherFiles"} /\ worklist # <<>>
        /\ name \in Head(worklist) /\ worklist \in Seq(SUBSET Seq(STRING))
        /\ ~Fault
    BY <1>1, <2>1 DEF OpenFile, Between, TInv, Searching, Fault
  <2>3. /\ Head(worklist) = worklist[1] /\ 1 \in DOMAIN worklist
        /\ worklist' = [worklist EXCEPT ![1] = worklist[1] \ {name}]
    BY <2>1, <2>2 DEF OpenFile
  <2>4. /\ UNION ToSet(worklist) \subseteq (UNION ToSet(worklist)') \union {name}
        /\ (UNION ToSet(worklist))' \subseteq UNION ToSet(worklist)
        /\ name \in UNION ToSet(worklist)
    BY <2>2, <2>3 DEF ToSet
  <2>5. \/ UNCHANGED reading /\ (name \in diskFileMap \/ name \notin DOMAIN disk)
        \/ file' = name /\ offset' = 0 /\ at' = "Header" /\ name \in DOMAIN disk
    BY <2>1, <2>2 DEF OpenFile
  <2>6. name \in diskFileMap \/ name \notin DOMAIN disk => Absorbed(name)
    BY DEF NothingSkipped, Absorbed
  <2>7. \A other \in Pending : other # None => other \in Pending' \/ Absorbed(other)
    <3>1. name \in Pending' \/ Absorbed(name)
      BY <2>5, <2>6 DEF Pending
    <3> QED BY <1>1, <2>4, <3>1 DEF Pending
  <2>8. pc = "ParFile" => Pending' \subseteq {parfilename, None}
    BY <1>1, <2>4, <2>5 DEF Pending, NothingSkipped, reading
  <2>9. /\ file' # None => AbsorbedTo(file, offset)'
        /\ at' # "End"
    <3>1. CASE UNCHANGED reading
      BY <1>1, <3>1 DEF reading
    <3>2. CASE file' = name /\ offset' = 0 /\ at' = "Header" /\ name \in DOMAIN disk
      <4>1. \A o \in Intact(name) : ~(o < 0)
        BY <1>2, <3>2, IntactInNat
      <4>2. Intact(name)' = Intact(name)
        BY <1>2 DEF Intact
      <4> QED BY <3>2, <4>1, <4>2 DEF AbsorbedTo
    <3> QED BY <2>5, <3>1, <3>2
  <2>10. \A other \in Given \union {parfilename} :
           Absorbed(other) \/ other \in Pending => Absorbed(other)' \/ other \in Pending'
    BY <1>4, <1>6, <2>7 DEF Absorbed
  <2>11. pc' = "ParFile" => Absorbed(parfilename)' \/ parfilename' \in Pending'
    BY <1>2, <2>2, <2>10 DEF NothingSkipped
  <2>12. pc' # "ParFile" => Absorbed(parfilename)'
    BY <1>2, <1>4, <2>2 DEF NothingSkipped
  <2>13. pc' = "OtherFiles" => \A other \in Given' : Absorbed(other)' \/ other \in Pending'
    BY <1>6, <2>2, <2>10 DEF NothingSkipped
  <2>14. \A other \in diskFileMap' : Absorbed(other)'
    BY <1>2, <1>4 DEF NothingSkipped
  <2> QED BY <1>2, <1>5, <2>2, <2>8, <2>9, <2>11, <2>12, <2>13, <2>14 DEF NothingSkipped
<1> QED BY <1>7, <1>8, <1>9

LEMMA CloseSkipsNothing ==
  ASSUME TInv, NothingSkipped, faults' = 0, CloseFile \/ AllLoaded
  PROVE  NothingSkipped'
<1>1. /\ UNCHANGED <<input, names, loaded>> /\ file' = None /\ at' = "Header"
      /\ pc \in {"ParFile", "OtherFiles"}
  BY DEF CloseFile, AllLoaded, TInv, IInv, ReadingAt, Reading, reading
<1>2. UNCHANGED <<disk, parfilename, worklist, setid>> /\ disk \in Disks
  BY <1>1 DEF input, names, loaded, TInv, IInv
<1>3. StaysAbsorbed
  BY <1>1, UnloadedStays
<1>4. \A name : Absorbed(name) => Absorbed(name)'
  BY <1>2, <1>3, AbsorbedStays
<1>5. setid' # None => SetIs(setid)'
  BY <1>2, SetStays DEF NothingSkipped
<1>6. Given' = Given /\ \A name \in DOMAIN disk : name # None
  BY <1>2, SearchedStays, LoadingAssumption
<1>7. CASE CloseFile
  <2>1. /\ file # None /\ offset + HeaderSize > size /\ UNCHANGED pc
        /\ diskFileMap' \in {diskFileMap, diskFileMap \union {file}}
    BY <1>7 DEF CloseFile, NothingSkipped
  <2>2. file \in DOMAIN disk /\ offset \in Nat
    BY <2>1 DEF TInv, IInv, ReadingAt
  <2>3. Absorbed(file)
    <3>1. \A o \in Intact(file) : o < offset
      <4> TAKE o \in Intact(file)
      <4>1. PICK length : length = disk[file].packets[o].length
        OBVIOUS
      <4>2. /\ o \in Nat /\ length \in Nat /\ length >= HeaderSize /\ o + length <= size
            /\ size \in Nat
        BY <1>2, <2>2, <4>1, IntactInNat DEF size
      <4> HIDE DEF size
      <4> QED BY <2>1, <2>2, <4>2, LoadingAssumption
    <3> QED BY <2>1, <3>1 DEF NothingSkipped, AbsorbedTo, Absorbed
  <2>4. Pending' \subseteq (Pending \ {file}) \union {None, file}
        /\ \A name \in Pending : name \in Pending' \/ Absorbed(name)
    BY <1>1, <1>2, <2>3 DEF Pending
  <2>5. pc' = "ParFile" => /\ Pending' \subseteq {parfilename', None}
                           /\ Absorbed(parfilename)' \/ parfilename' \in Pending'
    <3>1. file \in Pending
      BY DEF Pending
    <3> QED BY <1>2, <1>4, <2>1, <2>4, <3>1 DEF NothingSkipped
  <2>6. pc' # "ParFile" => Absorbed(parfilename)'
    BY <1>2, <1>4, <2>1 DEF NothingSkipped
  <2>7. pc' = "OtherFiles" => \A name \in Given' : Absorbed(name)' \/ name \in Pending'
    BY <1>4, <1>6, <2>1, <2>4 DEF NothingSkipped
  <2>8. \A name \in diskFileMap' : Absorbed(name)'
    BY <1>4, <2>1, <2>3 DEF NothingSkipped
  <2>9. pc' # "CheckPacketConsistency"
    BY <1>1, <2>1
  <2> QED BY <1>1, <1>5, <2>5, <2>6, <2>7, <2>8, <2>9 DEF NothingSkipped
<1>8. CASE AllLoaded
  <2>1. /\ pc = "OtherFiles" /\ pc' = "CheckPacketConsistency" /\ file = None /\ worklist = <<>>
        /\ UNCHANGED diskFileMap
    BY <1>8 DEF AllLoaded
  <2>2. Pending = {None}
    BY <2>1 DEF Pending, ToSet
  <2>3. \A name \in Given : Absorbed(name)
    BY <1>6, <2>1, <2>2 DEF NothingSkipped, Given
  <2> QED BY <1>1, <1>2, <1>4, <1>5, <1>6, <2>1, <2>3 DEF NothingSkipped
<1> QED BY <1>7, <1>8

LEMMA TakeSkipsNothing ==
  ASSUME TInv, NothingSkipped, faults' = 0, TakePacket, PacketsApart
  PROVE  NothingSkipped'
<1>1. /\ UNCHANGED <<input, names, diskFileMap, pc>> /\ UNCHANGED file /\ file # None
      /\ at' = "Header" /\ offset' = offset + header.length
      /\ pc \in {"ParFile", "OtherFiles"}
  BY DEF TakePacket, TInv, Reading
<1>2. /\ UNCHANGED <<disk, parfilename, worklist>> /\ disk \in Disks /\ file \in DOMAIN disk
      /\ offset \in Nat
  BY <1>1 DEF input, names, TInv, IInv, ReadingAt
<1>3. PICK p : p = header
  OBVIOUS
<1>4. p = disk[file].packets[offset]
  BY <1>3 DEF header
<1>5. /\ offset \in Intact(file) /\ p.length \in Nat /\ setid' # None
      /\ setid # None => setid' = setid
      /\ setid = None => setid' = p.set
      /\ \/ UNCHANGED <<mainpacket, recoverypacketmap, sourcefilemap>> /\ p.set # setid'
         \/ /\ mainpacket' = LoadMainPacket /\ recoverypacketmap' = LoadRecoveryPacket
            /\ Grown(sourcefilemap', p)
  BY <1>3, PacketIsTaken
<1>6. StaysAbsorbed /\ IsAbsorbed(p)'
  <2>1. CASE UNCHANGED <<mainpacket, recoverypacketmap, sourcefilemap>> /\ p.set # setid'
    BY <1>5, <2>1 DEF StaysAbsorbed, IsAbsorbed, IsLoaded, Verified, Described
  <2>2. CASE /\ mainpacket' = LoadMainPacket /\ recoverypacketmap' = LoadRecoveryPacket
             /\ Grown(sourcefilemap', p)
    <3>1. /\ DOMAIN recoverypacketmap \subseteq DOMAIN recoverypacketmap'
          /\ p.type = "recovery" /\ Sound(p) => p.about \in DOMAIN recoverypacketmap'
      BY <1>3, <2>2, RecoveryMapGrows
    <3>2. /\ Verified \subseteq Verified' /\ Described \subseteq Described'
          /\ p.type = "verification" /\ Sound(p) => p.about \in Verified'
          /\ p.type = "description" /\ Sound(p) => p.about.file \in Described'
      BY <2>2 DEF Grown, Verified, Described
    <3>3. /\ mainpacket # None => mainpacket' # None
          /\ p.type = "main" /\ Sound(p) => mainpacket' # None
      <4>1. p.type = "main" /\ Sound(p) => p.about # None
        BY <1>2, <1>4, <1>5, IntactInNat, PacketsAssumption
      <4> QED BY <1>3, <2>2, <4>1 DEF LoadMainPacket, Loads
    <3> QED BY <1>5, <3>1, <3>2, <3>3 DEF StaysAbsorbed, IsAbsorbed, IsLoaded
  <2> QED BY <1>5, <2>1, <2>2
<1>7. \A name : Absorbed(name) => Absorbed(name)'
  BY <1>2, <1>6, AbsorbedStays
<1>8. Pending' = Pending /\ Given' = Given
  BY <1>1, <1>2, SearchedStays DEF Pending
<1>9. \A name : Intact(name)' = Intact(name)
  BY <1>2 DEF Intact
<1>10. AbsorbedTo(file, offset)'
  <2>1. \A o \in Intact(file) : o < offset' => o <= offset
    <3> SUFFICES ASSUME NEW o \in Intact(file), offset < o PROVE ~(o < offset')
      <4>1. \A o \in Intact(file) : o \in Nat
        BY <1>2, IntactInNat
      <4> QED BY <1>2, <4>1
    <3>1. offset + p.length <= o
      BY <1>2, <1>4, <1>5, IntactInNat DEF PacketsApart
    <3>2. o \in Nat
      BY <1>2, IntactInNat
    <3> QED BY <1>1, <1>2, <1>3, <1>5, <3>1, <3>2
  <2>2. \A o \in Intact(file) : o < offset \/ o = offset \/ ~(o <= offset)
    BY <1>2, IntactInNat
  <2>3. \A o \in Intact(file) : o < offset => IsAbsorbed(disk[file].packets[o])'
    BY <1>1, <1>2, <1>6 DEF NothingSkipped, AbsorbedTo, StaysAbsorbed
  <2> QED BY <1>1, <1>2, <1>4, <1>6, <1>9, <2>1, <2>2, <2>3 DEF AbsorbedTo
<1>11. SetIs(setid)'
  <2>1. CASE setid # None
    BY <1>2, <1>5, <2>1, SetStays DEF NothingSkipped
  <2>2. CASE setid = None
    <3>1. \A name : Absorbed(name) /\ name \in DOMAIN disk => Intact(name) = {}
      BY <2>2 DEF Absorbed, IsAbsorbed
    <3>2. CASE pc = "ParFile"
      <4>1. file = parfilename
        BY <1>1, <3>2 DEF NothingSkipped, Pending
      <4>2. \A o \in Intact(file) : ~(o < offset)
        BY <1>1, <2>2 DEF NothingSkipped, AbsorbedTo, IsAbsorbed
      <4>3. Intact(file) \in SUBSET Nat
        BY <1>2, IntactInNat
      <4>4. Min(Intact(file)) \in Nat /\ Min(Intact(file)) \in Intact(file)
            /\ Min(Intact(file)) <= offset
        BY <1>5, <4>3, MinIsLeast
      <4>5. Min(Intact(file)) = offset
        BY <1>2, <4>2, <4>4
      <4>6. setid' = disk[parfilename].packets[Min(Intact(parfilename))].set
        BY <1>4, <1>5, <2>2, <4>1, <4>5
      <4> QED BY <1>2, <1>9, <4>6 DEF SetIs
    <3>3. CASE pc # "ParFile"
      BY <1>2, <1>9, <3>1, <3>3 DEF NothingSkipped, SetIs
    <3> QED BY <3>2, <3>3
  <2> QED BY <2>1, <2>2
<1>12. pc' # "CheckPacketConsistency"
  BY <1>1
<1> QED BY <1>1, <1>2, <1>7, <1>8, <1>10, <1>11, <1>12 DEF NothingSkipped

LEMMA NothingSkippedStep == PlainNames /\ PacketsApart /\ TInv /\ NInv /\ [Next]_vars => NInv'
<1> SUFFICES ASSUME PlainNames, PacketsApart, TInv, NInv, [Next]_vars, faults' = 0,
                    pc' \in {"ParFile", "OtherFiles", "CheckPacketConsistency"}
             PROVE  NothingSkipped'
  BY DEF NInv
<1>1. CASE UNCHANGED vars
  <2>1. UNCHANGED <<disk, parfilename, worklist, file, offset, at, diskFileMap, setid, pc, faults, loaded>>
    BY <1>1 DEF vars, input, names, reading, loaded
  <2>2. StaysAbsorbed /\ NothingSkipped
    BY <2>1, UnloadedStays DEF NInv
  <2>3. /\ \A name : Absorbed(name) => Absorbed(name)'
        /\ \A name : Intact(name)' = Intact(name)
    BY <2>1, <2>2, AbsorbedStays DEF Intact
  <2>4. Given' = Given /\ Pending' = Pending /\ (setid' # None => SetIs(setid)')
    BY <2>1, <2>2, SearchedStays, SetStays DEF Pending, NothingSkipped
  <2>5. file' # None => AbsorbedTo(file, offset)'
    BY <2>1, <2>2, <2>3 DEF NothingSkipped, AbsorbedTo, StaysAbsorbed
  <2> QED BY <2>1, <2>2, <2>3, <2>4, <2>5 DEF NothingSkipped
<1>2. CASE ~UNCHANGED vars
  <2>1. pc \in {"ParFile", "OtherFiles"}
    BY <1>2 DEF Next, Process, Terminated, LoadPacketsFromOtherFiles, NextName, OpenFile, Between,
           ReadHeader, Search, SearchBuffer, NoPacket, TakePacket, CloseFile, AllLoaded, TInv, Reading,
           CheckPacketConsistency, CreateSourceFileList, AllocateSourceBlocks,
           PrepareVerificationHashTable, VerifySourceFiles
  <2>2. faults = 0
    BY DEF Next, Process, Terminated, LoadPacketsFromOtherFiles, NextName, OpenFile, Fault,
           ReadHeader, Search, NoPacket, TakePacket, CloseFile, AllLoaded, TInv, Reading,
           CheckPacketConsistency, CreateSourceFileList, AllocateSourceBlocks,
           PrepareVerificationHashTable, VerifySourceFiles, vars
  <2>3. NothingSkipped
    BY <2>1, <2>2 DEF NInv
  <2>4. CASE LoadPacketsFromOtherFiles \/ NextName \/ (\E name \in par2list \union ExtraFiles : OpenFile(name))
    BY <2>3, <2>4, NamesSkipNothing
  <2>5. CASE ReadHeader \/ Search \/ NoPacket
    <3>1. file # None
      BY <2>5 DEF ReadHeader, Search, NoPacket
    <3> QED BY <2>3, <2>5, <3>1, SearchSkipsNothing
  <2>6. CASE TakePacket
    BY <2>3, <2>6, TakeSkipsNothing
  <2>7. CASE CloseFile \/ AllLoaded
    BY <2>3, <2>7, CloseSkipsNothing
  <2>8. ~(CheckPacketConsistency \/ CreateSourceFileList \/ AllocateSourceBlocks
          \/ PrepareVerificationHashTable \/ VerifySourceFiles)
    BY <2>1 DEF CheckPacketConsistency, CreateSourceFileList, AllocateSourceBlocks,
                PrepareVerificationHashTable, VerifySourceFiles
  <2> QED BY <1>2, <2>4, <2>5, <2>6, <2>7, <2>8 DEF Next, Process, Terminated
<1> QED BY <1>1, <1>2

LEMMA NothingSkippedInit == Init => NInv
<1> SUFFICES ASSUME Init PROVE NothingSkipped
  BY DEF NInv
<1>1. Pending = {None, parfilename}
  <2>1. worklist = <<{parfilename}>> /\ file = None
    BY DEF Init
  <2>2. ToSet(worklist) = {{parfilename}}
    BY <2>1 DEF ToSet
  <2> QED BY <2>1, <2>2 DEF Pending
<1> QED BY <1>1 DEF Init, NothingSkipped

THEOREM NothingSkippedInvariance == ASSUME PlainNames, PacketsApart PROVE Spec => [](TInv /\ NInv)
<1>1. Init => TInv /\ NInv
  BY TypesInit, NothingSkippedInit
<1>2. TInv /\ NInv /\ [Next]_vars => (TInv /\ NInv)'
  <2>1. TInv /\ [Next]_vars => TInv'
    BY OtherFilesTypes, NamesTypes, ReadingTypes, CloseTypes, TakeTypes, ConsistencyTypes, LayoutTypes
       DEF Next, Process, Terminated
  <2> QED BY <2>1, NothingSkippedStep
<1> QED BY <1>1, <1>2, PTL DEF Spec

(* What is loaded when all is read is what was offered.                    *)
LEMMA LoadedIsOffered ==
  ASSUME PlainNames, TInv, NothingSkipped, pc = "CheckPacketConsistency"
  PROVE  /\ \A type : Offered(type) = OfSet(type)
         /\ \A type : \A p \in OfSet(type) : IsLoaded(p)
<1>1. Absorbed(parfilename) /\ \A name \in Given : Absorbed(name)
  BY DEF NothingSkipped
<1>2. TheSet = setid
  <2>1. CASE setid = None
    BY <1>1, <2>1 DEF Absorbed, IsAbsorbed, TheSet
  <2>2. CASE setid # None
    BY <2>2 DEF NothingSkipped, SetIs, TheSet
  <2> QED BY <2>1, <2>2
<1>3. Searched = Given /\ Given \subseteq DOMAIN disk
  BY DEF Searched, Given
<1>4. \A type : Offered(type) = OfSet(type)
  BY <1>2, <1>3 DEF Offered, OfSet
<1>5. \A type : \A p \in OfSet(type) : IsLoaded(p)
  BY <1>1, <1>3 DEF OfSet, Absorbed, IsAbsorbed
<1> QED BY <1>4, <1>5

(* Nothing that survives is missed, and nothing else is taken for a packet *)
(* of the set (LoadedIsUnion): the search by names and in the files finds  *)
(* every packet, whatever the damage around it, in any number of files, in *)
(* any order.  It is assumed that the names are like those the program     *)
(* gives, and that packets that survived do not overlap.                   *)
THEOREM NothingIsMissed == ASSUME PlainNames, PacketsApart PROVE Spec => []LoadedIsUnion
<1>1. TInv /\ NInv => LoadedIsUnion
  <2> SUFFICES ASSUME TInv, NInv, pc = "CheckPacketConsistency", faults = 0
               PROVE  /\ DOMAIN recoverypacketmap = {p.about : p \in Offered("recovery")}
                      /\ Verified = {p.about : p \in Offered("verification")}
                      /\ Described = {p.about.file : p \in Offered("description")}
                      /\ mainpacket = None <=> Offered("main") = {}
    BY DEF LoadedIsUnion
  <2>1. NothingSkipped /\ ComeFrom /\ disk \in Disks
    BY DEF NInv, TInv, IInv
  <2>2. \A type : Offered(type) = OfSet(type)
    BY <2>1, LoadedIsOffered
  <2>3. /\ \A p \in OfSet("recovery") : p.about \in DOMAIN recoverypacketmap
        /\ \A p \in OfSet("verification") : p.about \in Verified
        /\ \A p \in OfSet("description") : p.about.file \in Described
        /\ \A p \in OfSet("main") : mainpacket # None
    <3>1. \A type : \A p \in OfSet(type) : p.type = type
      BY DEF OfSet
    <3> QED BY <2>1, <3>1, LoadedIsOffered DEF IsLoaded
  <2>4. DOMAIN recoverypacketmap = {p.about : p \in OfSet("recovery")}
    <3>1. \A e \in DOMAIN recoverypacketmap : \E p \in OfSet("recovery") : e = p.about
      BY <2>1 DEF ComeFrom
    <3> HIDE DEF ComeFrom
    <3> QED BY <2>3, <3>1
  <2>5. Verified = {p.about : p \in OfSet("verification")}
    BY <2>1, <2>3 DEF ComeFrom
  <2>6. Described = {p.about.file : p \in OfSet("description")}
    BY <2>1, <2>3 DEF ComeFrom
  <2>7. mainpacket = None <=> OfSet("main") = {}
    BY <2>1, <2>3 DEF ComeFrom
  <2> QED BY <2>2, <2>4, <2>5, <2>6, <2>7
<1> QED BY <1>1, NothingSkippedInvariance, PTL

-----------------------------------------------------------------------------
(* The layout of the blocks.                                               *)

Before(n) == {m \in Recoverable : m < n}
CountOf(n) == sourcefilemap[sourcefiles[n]].blockcount

(* What is known of the files when their blocks are counted.               *)
Counting == TInv /\ Checked /\ Listed

LEMMA RecoverableFiles ==
  ASSUME Counting
  PROVE  /\ Recoverable \subseteq DOMAIN sourcefiles
         /\ \E N \in Nat : DOMAIN sourcefiles = 1 .. N
         /\ \A n \in Recoverable : n \in Nat \ {0} /\ CountOf(n) \in Nat /\ sourcefiles[n] # None
                                   /\ sourcefiles[n] = mainpacket.files[n]
<1>1. \E N \in Nat : DOMAIN sourcefiles = 1 .. N
  BY WhatIsLoaded DEF Counting, Checked, Listed
<1>2. PICK N \in Nat : DOMAIN sourcefiles = 1 .. N
  BY <1>1
<1>3. \A n \in Recoverable : n \in 1 .. N /\ sourcefiles[n] # None
  BY <1>2 DEF Recoverable
<1>4. \A n \in Recoverable : sourcefiles[n] \in DOMAIN sourcefilemap /\ sourcefiles[n] = mainpacket.files[n]
  BY <1>2, <1>3 DEF Counting, Listed
<1>5. \A n \in Recoverable : CountOf(n) \in Nat
  BY <1>4, LoadingAssumption DEF Counting, TInv, Shaped, CountOf
<1> QED BY <1>1, <1>2, <1>3, <1>4, <1>5 DEF Recoverable

LEMMA BeforeIsFinite ==
  ASSUME Counting, NEW S \in SUBSET Recoverable
  PROVE  IsFiniteSet(BlocksOf(S)) /\ BlocksIn(S) \in Nat
<1>1. S \in SUBSET DOMAIN sourcefiles /\ \A n \in S : sourcefiles[n] # None
  BY RecoverableFiles
<1> QED BY <1>1, BlocksAreFinite DEF Counting

LEMMA NextFile ==
  ASSUME Counting, NEW n \in Nat
  PROVE  BlocksIn(Before(n + 1)) = BlocksIn(Before(n)) + (IF n \in Recoverable THEN CountOf(n) ELSE 0)
<1>1. \A m \in Recoverable : m \in Nat
  BY RecoverableFiles
<1>2. CASE n \notin Recoverable
  <2>1. Before(n + 1) = Before(n)
    BY <1>1, <1>2 DEF Before
  <2>2. BlocksIn(Before(n)) \in Nat
    BY BeforeIsFinite DEF Before
  <2> QED BY <1>2, <2>1, <2>2
<1>3. CASE n \in Recoverable
  <2> DEFINE own == {n} \X (1 .. CountOf(n))
             old == BlocksOf(Before(n))
  <2>1. Before(n + 1) = Before(n) \union {n}
    <3>1. \A m \in Recoverable : m < n + 1 <=> m < n \/ m = n
      BY <1>1
    <3> QED BY <1>3, <3>1 DEF Before
  <2>2. BlocksOf(Before(n + 1)) = old \union own
    BY <2>1 DEF BlocksOf, CountOf
  <2>3. old \intersect own = {}
    <3>1. \A b \in old : b[1] \in Before(n)
      BY DEF BlocksOf
    <3>2. n \notin Before(n)
      BY DEF Before
    <3>3. \A b \in own : b[1] = n
      OBVIOUS
    <3> HIDE DEF own, old
    <3> QED BY <3>1, <3>2, <3>3
  <2>4. IsFiniteSet(old) /\ Cardinality(old) = BlocksIn(Before(n)) /\ BlocksIn(Before(n)) \in Nat
    BY BeforeIsFinite DEF Before, BlocksIn
  <2>5. IsFiniteSet(own) /\ Cardinality(own) = CountOf(n) /\ CountOf(n) \in Nat
    <3>1. CountOf(n) \in Nat
      BY <1>3, RecoverableFiles
    <3>2. IsFiniteSet(1 .. CountOf(n)) /\ Cardinality(1 .. CountOf(n)) = CountOf(n)
      BY <3>1, FS_Interval
    <3>3. IsFiniteSet({n}) /\ Cardinality({n}) = 1
      BY FS_Singleton
    <3> QED BY <3>1, <3>2, <3>3, FS_Product
  <2> HIDE DEF own, old
  <2>6. Cardinality(old \union own) = Cardinality(old) + Cardinality(own) - Cardinality(old \intersect own)
    BY <2>4, <2>5, FS_Union
  <2>7. Cardinality(old \intersect own) = 0
    BY <2>3, FS_EmptySet
  <2>8. Cardinality(old \union own) = BlocksIn(Before(n)) + CountOf(n)
    BY <2>4, <2>5, <2>6, <2>7
  <2>9. BlocksIn(Before(n + 1)) = Cardinality(old \union own)
    BY <2>2 DEF BlocksIn
  <2> QED BY <1>3, <2>8, <2>9
<1> QED BY <1>2, <1>3

LEMMA BlocksGrow ==
  ASSUME Counting, NEW S \in SUBSET Recoverable, NEW T \in SUBSET S
  PROVE  BlocksIn(T) <= BlocksIn(S)
<1>1. BlocksOf(T) \in SUBSET BlocksOf(S)
  BY DEF BlocksOf
<1> QED BY <1>1, BeforeIsFinite, FS_Subset DEF BlocksIn

(* The blocks before a file, a number of the blocks at each.               *)
LEMMA Places ==
  ASSUME Counting, NEW n \in Nat, NEW m \in Nat
  PROVE  /\ BlocksIn(Before(n)) \in Nat /\ BlocksIn(Recoverable) \in Nat
         /\ BlocksIn(Before(0)) = 0
         /\ n <= m => BlocksIn(Before(n)) <= BlocksIn(Before(m))
         /\ BlocksIn(Before(n)) <= BlocksIn(Recoverable)
         /\ \E N \in Nat : BlocksIn(Before(N)) = BlocksIn(Recoverable)
<1>1. \A k \in Recoverable : k \in Nat \ {0}
  BY RecoverableFiles
<1>2. Before(n) \in SUBSET Recoverable /\ Before(m) \in SUBSET Recoverable
  BY DEF Before
<1>3. BlocksIn(Before(0)) = 0
  <2>1. Before(0) = {}
    BY <1>1 DEF Before
  <2>2. BlocksOf(Before(0)) = {}
    BY <2>1 DEF BlocksOf
  <2> QED BY <2>2, FS_EmptySet DEF BlocksIn
<1>4. n <= m => Before(n) \in SUBSET Before(m)
  BY <1>1 DEF Before
<1>5. \E N \in Nat : BlocksIn(Before(N)) = BlocksIn(Recoverable)
  <2>1. PICK N \in Nat : DOMAIN sourcefiles = 1 .. N
    BY RecoverableFiles
  <2>2. Before(N + 1) = Recoverable
    BY <2>1, RecoverableFiles DEF Before
  <2> QED BY <2>1, <2>2
<1> QED BY <1>2, <1>3, <1>4, <1>5, BeforeIsFinite, BlocksGrow

(* Each recoverable file that is known has its place.                      *)
LEMMA FilesHavePlaces ==
  ASSUME Counting, FilesListedOnce
  PROVE  /\ \A n, m \in Recoverable : sourcefiles[n] = sourcefiles[m] => n = m
         /\ DOMAIN FirstBlocks = {sourcefiles[n] : n \in Recoverable}
         /\ \A n \in Recoverable : FirstBlocks[sourcefiles[n]] = BlocksIn(Before(n))
<1>1. \A n, m \in Recoverable : sourcefiles[n] = sourcefiles[m] => n = m
  <2>1. PICK p \in OfSet("main") : p.about = mainpacket
    BY DEF Counting, TInv, ComeFrom, Checked
  <2>2. disk \in Disks
    BY DEF Counting, TInv, IInv
  <2>3. p.type = "main" /\ \E name \in Searched : \E o \in Intact(name) : p = disk[name].packets[o]
    BY <2>2, PacketOfSet
  <2>4. IsInjective(p.about.files)
    BY <2>2, <2>3 DEF FilesListedOnce, Intact, Searched, Given
  <2>5. \A n \in Recoverable : n \in DOMAIN mainpacket.files /\ sourcefiles[n] = mainpacket.files[n]
    BY RecoverableFiles DEF Counting, Listed
  <2> QED BY <2>1, <2>4, <2>5 DEF IsInjective
<1>2. \A n \in Recoverable : FirstBlocks[sourcefiles[n]] = BlocksIn(Before(n))
  <2> TAKE n \in Recoverable
  <2>1. (CHOOSE m \in Recoverable : sourcefiles[m] = sourcefiles[n]) = n
    BY <1>1
  <2> QED BY <2>1 DEF FirstBlocks, Before
<1> QED BY <1>1, <1>2 DEF FirstBlocks

LEMMA BlocksTile ==
  ASSUME Counting, FilesListedOnce, Allocated
  PROVE  UNION {{blocks[id] + n : n \in 0 .. sourcefilemap[id].blockcount - 1} : id \in DOMAIN blocks}
           = 0 .. sourceblockcount - 1
<1> DEFINE all == UNION {{blocks[id] + n : n \in 0 .. sourcefilemap[id].blockcount - 1} : id \in DOMAIN blocks}
<1>1. sourceblockcount = BlocksIn(Recoverable) /\ BlocksIn(Recoverable) \in Nat
  BY Places DEF Allocated
<1>2. CASE BlocksIn(Recoverable) = 0
  <2>1. blocks = <<>>
    BY <1>2 DEF Allocated
  <2> QED BY <1>1, <1>2, <2>1
<1>3. CASE BlocksIn(Recoverable) > 0
  <2>1. /\ DOMAIN blocks = {sourcefiles[n] : n \in Recoverable}
        /\ \A n \in Recoverable : blocks[sourcefiles[n]] = BlocksIn(Before(n))
    BY <1>3, FilesHavePlaces DEF Allocated
  <2>2. \A b : b \in all <=> \E n \in Recoverable : \E i \in 0 .. CountOf(n) - 1 : b = BlocksIn(Before(n)) + i
    BY <2>1 DEF CountOf
  <2>3. \A n \in Recoverable : n \in Nat /\ CountOf(n) \in Nat
    BY RecoverableFiles
  <2>4. ASSUME NEW n \in Recoverable, NEW i \in 0 .. CountOf(n) - 1
        PROVE  BlocksIn(Before(n)) + i \in 0 .. sourceblockcount - 1
    <3>1. BlocksIn(Before(n + 1)) = BlocksIn(Before(n)) + CountOf(n)
      BY <2>3, NextFile
    <3>2. BlocksIn(Before(n)) \in Nat /\ BlocksIn(Before(n + 1)) <= BlocksIn(Recoverable)
      BY <2>3, Places
    <3> QED BY <1>1, <2>3, <3>1, <3>2
  <2>5. ASSUME NEW b \in 0 .. sourceblockcount - 1
        PROVE  \E n \in Recoverable : \E i \in 0 .. CountOf(n) - 1 : b = BlocksIn(Before(n)) + i
    <3> DEFINE beyond == {k \in Nat : BlocksIn(Before(k)) > b}
    <3>1. PICK N \in Nat : BlocksIn(Before(N)) = BlocksIn(Recoverable)
      BY Places
    <3>2. N \in beyond
      BY <1>1, <3>1
    <3>3. PICK k \in beyond : \A j \in beyond : k <= j
      BY <3>2, MinIsLeast
    <3>4. BlocksIn(Before(0)) = 0
      BY Places
    <3>5. k # 0
      BY <1>1, <3>3, <3>4
    <3>6. PICK n \in Nat : k = n + 1
      <4>1. k - 1 \in Nat /\ k = (k - 1) + 1
        BY <3>3, <3>5
      <4> QED BY <4>1
    <3>7. BlocksIn(Before(n)) \in Nat /\ BlocksIn(Before(n)) <= b
      <4>1. n \notin beyond
        BY <3>3, <3>6
      <4>2. BlocksIn(Before(n)) \in Nat
        BY Places
      <4> QED BY <1>1, <4>1, <4>2
    <3>8. BlocksIn(Before(n + 1)) > b
      BY <3>3, <3>6
    <3>9. n \in Recoverable
      BY <1>1, <3>7, <3>8, NextFile
    <3>10. BlocksIn(Before(n)) + CountOf(n) > b /\ CountOf(n) \in Nat
      BY <2>3, <3>8, <3>9, NextFile
    <3>11. b - BlocksIn(Before(n)) \in 0 .. CountOf(n) - 1
           /\ b = BlocksIn(Before(n)) + (b - BlocksIn(Before(n)))
      BY <1>1, <3>7, <3>10
    <3> QED BY <3>9, <3>11
  <2> HIDE DEF all
  <2>6. all \subseteq 0 .. sourceblockcount - 1
    BY <2>2, <2>4
  <2>7. 0 .. sourceblockcount - 1 \subseteq all
    BY <2>2, <2>5
  <2> QED BY <2>6, <2>7 DEF all
<1> QED BY <1>1, <1>2, <1>3

LEMMA EntriesAreOwn ==
  ASSUME Counting, FilesListedOnce, Allocated, Entered
  PROVE  /\ \A e \in entries : e[2] < sourcefilemap[e[1]].blockcount
         /\ \A e1, e2 \in entries : e1[3] = e2[3] /\ e1[3] # None => e1 = e2
<1> DEFINE Block(id, n) == IF id \in DOMAIN blocks THEN blocks[id] + n ELSE None
<1>1. \A e \in entries : \E id \in Verified : \E n \in 0 .. sourcefilemap[id].verification - 1 :
        e = <<id, n, Block(id, n)>>
  BY DEF Entered
<1>2. \A id \in Verified : /\ sourcefilemap[id].verification = sourcefilemap[id].blockcount
                           /\ sourcefilemap[id].blockcount \in Nat
  BY LoadingAssumption DEF Verified, Counting, Checked, TInv, Shaped
<1>3. \A e \in entries : /\ e = <<e[1], e[2], Block(e[1], e[2])>>
                         /\ e[2] \in Nat /\ e[2] < sourcefilemap[e[1]].blockcount
  BY <1>1, <1>2
<1>4. ASSUME NEW n \in Recoverable, NEW m \in Recoverable, n < m,
             NEW i \in Nat, NEW j \in Nat, i < CountOf(n)
      PROVE  BlocksIn(Before(n)) + i < BlocksIn(Before(m)) + j
  <2>1. n \in Nat /\ m \in Nat /\ CountOf(n) \in Nat
    BY RecoverableFiles
  <2>2. BlocksIn(Before(n + 1)) = BlocksIn(Before(n)) + CountOf(n)
    BY <2>1, NextFile
  <2>3. BlocksIn(Before(n + 1)) <= BlocksIn(Before(m)) /\ BlocksIn(Before(n)) \in Nat
        /\ BlocksIn(Before(m)) \in Nat
    BY <1>4, <2>1, Places
  <2> QED BY <1>4, <2>1, <2>2, <2>3
<1>5. ASSUME NEW e1 \in entries, NEW e2 \in entries, e1[3] = e2[3], e1[3] # None
      PROVE  e1 = e2
  <2>1. /\ e1[1] \in DOMAIN blocks /\ e2[1] \in DOMAIN blocks
        /\ e1[3] = blocks[e1[1]] + e1[2] /\ e2[3] = blocks[e2[1]] + e2[2]
    BY <1>3, <1>5
  <2>2. DOMAIN blocks = DOMAIN FirstBlocks /\ blocks = FirstBlocks
    BY <2>1 DEF Allocated
  <2>3. PICK n \in Recoverable : e1[1] = sourcefiles[n]
    BY <2>1, <2>2, FilesHavePlaces
  <2>4. PICK m \in Recoverable : e2[1] = sourcefiles[m]
    BY <2>1, <2>2, FilesHavePlaces
  <2>5. blocks[e1[1]] = BlocksIn(Before(n)) /\ blocks[e2[1]] = BlocksIn(Before(m))
    BY <2>2, <2>3, <2>4, FilesHavePlaces
  <2>6. n \in Nat /\ m \in Nat /\ e1[2] \in Nat /\ e2[2] \in Nat
        /\ e1[2] < CountOf(n) /\ e2[2] < CountOf(m)
    BY <1>3, <2>3, <2>4, RecoverableFiles DEF CountOf
  <2>7. /\ BlocksIn(Before(n)) + e1[2] = BlocksIn(Before(m)) + e2[2]
        /\ BlocksIn(Before(n)) \in Nat /\ BlocksIn(Before(m)) \in Nat
    BY <1>5, <2>1, <2>5, <2>6, Places
  <2>8. ~(n < m) /\ ~(m < n)
    BY <1>4, <2>6, <2>7
  <2>9. n = m
    BY <2>6, <2>8
  <2>10. e1[2] = e2[2]
    BY <2>6, <2>7, <2>9
  <2> QED BY <1>3, <1>5, <2>3, <2>4, <2>9, <2>10
<1> QED BY <1>3, <1>5

(* The blocks of the files that are known follow one another without gap   *)
(* or overlap, and an entry of the hash table is for a block of its own    *)
(* file that no other entry is for (EntriesOwnTheirBlocks): however many   *)
(* files are dropped as inconsistent or unknown, for any main packet that  *)
(* does not list a file twice.                                             *)
THEOREM BlocksAreLaidOut == ASSUME FilesListedOnce PROVE Spec => []EntriesOwnTheirBlocks
<1>1. TInv => EntriesOwnTheirBlocks
  BY BlocksTile, EntriesAreOwn DEF TInv, Layout, Counting, EntriesOwnTheirBlocks
<1> QED BY <1>1, TypesInvariance, PTL

-----------------------------------------------------------------------------
(* The critical packets suffice.                                           *)

AllCopiesAgree == \A d \in Disks : CopiesAgree(d)

(* What is kept of the packets when they are found to be consistent.       *)
Kept ==
  /\ TheSet = setid
  /\ mainpacket = None => OfSet("main") = {}
  /\ mainpacket # None =>
       /\ \A e \in DOMAIN recoverypacketmap : recoverypacketmap[e].size = mainpacket.blocksize
       /\ \A r \in OfSet("recovery") :
            Body(r) = mainpacket.blocksize => r.about \in DOMAIN recoverypacketmap
       /\ \A d \in OfSet("description") :
            /\ BlockCount(d.about.filesize) <= MaxU32
            /\ \A v \in OfSet("verification") : v.about = d.about.file =>
                 Body(v) \div EntrySize = BlockCount(d.about.filesize)
            => d.about.file \in DOMAIN sourcefilemap

Verdict ==
  pc = "Finished" /\ mainpacket # None /\ result # "LogicError" =>
    /\ Listed
    /\ Cardinality(Recoverable) >= mainpacket.recoverablefilecount => result = "Verify"

CInv ==
  /\ faults = 0 /\ pc \notin {"ParFile", "OtherFiles", "CheckPacketConsistency"} => Kept
  /\ Verdict

LEMMA CopiesInSet ==
  ASSUME AllCopiesAgree, disk \in Disks, NEW type, NEW p \in OfSet(type), NEW q \in OfSet(type),
         Subject(p) = Subject(q)
  PROVE  p = q
<1>1. PICK name1 \in Searched : \E o \in Intact(name1) : p = disk[name1].packets[o]
  BY PacketOfSet
<1>2. PICK name2 \in Searched : \E o \in Intact(name2) : q = disk[name2].packets[o]
  BY PacketOfSet
<1>3. PICK o1 \in DOMAIN disk[name1].packets : p = disk[name1].packets[o1] /\ p.intact
  BY <1>1 DEF Intact
<1>4. PICK o2 \in DOMAIN disk[name2].packets : q = disk[name2].packets[o2] /\ q.intact
  BY <1>2 DEF Intact
<1>5. name1 \in DOMAIN disk /\ name2 \in DOMAIN disk
  BY DEF Searched, Given
<1>6. p.type = q.type /\ p.set = q.set
  BY DEF OfSet
<1> QED BY <1>3, <1>4, <1>5, <1>6 DEF AllCopiesAgree, CopiesAgree

LEMMA TheSetStays == UNCHANGED <<disk, parfilename, setid>> => TheSet' = TheSet
<1> SUFFICES ASSUME UNCHANGED <<disk, parfilename, setid>> PROVE TheSet' = TheSet
  OBVIOUS
<1>1. \A name : Intact(name)' = Intact(name)
  BY DEF Intact
<1> QED BY <1>1 DEF TheSet

LEMMA ConsistentIsKept ==
  ASSUME PlainNames, AllCopiesAgree, TInv, NothingSkipped, CheckPacketConsistency
  PROVE  Kept'
<1>1. /\ pc = "CheckPacketConsistency" /\ UNCHANGED <<disk, parfilename, setid, mainpacket>>
      /\ disk \in Disks /\ ComeFrom
  BY DEF CheckPacketConsistency, input, loaded, TInv, IInv
<1>2. \A type : OfSet(type)' = OfSet(type)
  BY <1>1, OfSetStays
<1>3. TheSet' = setid'
  <2>1. TheSet = setid
    <3>1. Absorbed(parfilename)
      BY <1>1 DEF NothingSkipped
    <3>2. CASE setid = None
      BY <3>1, <3>2 DEF Absorbed, IsAbsorbed, TheSet
    <3>3. CASE setid # None
      BY <3>3 DEF NothingSkipped, SetIs, TheSet
    <3> QED BY <3>2, <3>3
  <2> QED BY <1>1, <2>1, TheSetStays
<1>4. \A type : \A p \in OfSet(type) : IsLoaded(p) /\ p.type = type
  BY <1>1, LoadedIsOffered DEF OfSet
<1>5. mainpacket' = None => OfSet("main")' = {}
  <2>1. \A p \in OfSet("main") : mainpacket # None
    BY <1>4 DEF IsLoaded
  <2> QED BY <1>1, <1>2, <2>1
<1>6. ASSUME mainpacket # None
      PROVE  /\ \A e \in DOMAIN recoverypacketmap' : recoverypacketmap'[e].size = mainpacket.blocksize
             /\ \A r \in OfSet("recovery") :
                  Body(r) = mainpacket.blocksize => r.about \in DOMAIN recoverypacketmap'
             /\ \A d \in OfSet("description") :
                  /\ BlockCount(d.about.filesize) <= MaxU32
                  /\ \A v \in OfSet("verification") : v.about = d.about.file =>
                       Body(v) \div EntrySize = BlockCount(d.about.filesize)
                  => d.about.file \in DOMAIN sourcefilemap'
  <2>1. /\ DOMAIN recoverypacketmap' =
             {e \in DOMAIN recoverypacketmap : recoverypacketmap[e].size = mainpacket.blocksize}
        /\ \A e \in DOMAIN recoverypacketmap' : recoverypacketmap'[e] = recoverypacketmap[e]
        /\ DOMAIN sourcefilemap' = ConsistentFiles
    BY <1>6 DEF CheckPacketConsistency, Restrict
  <2>2. ASSUME NEW r \in OfSet("recovery"), Body(r) = mainpacket.blocksize
        PROVE  r.about \in DOMAIN recoverypacketmap'
    <3>1. r.about \in DOMAIN recoverypacketmap
      BY <1>4 DEF IsLoaded
    <3>2. PICK q \in OfSet("recovery") : q.about = r.about /\ recoverypacketmap[r.about].size = Body(q)
      BY <1>1, <3>1 DEF ComeFrom
    <3>3. q.type = "recovery" /\ r.type = "recovery"
      BY <1>4
    <3>4. Subject(q) = q.about /\ Subject(r) = r.about
      BY <3>3 DEF Subject
    <3>5. q = r
      BY <1>1, <3>2, <3>4, CopiesInSet
    <3> QED BY <2>1, <2>2, <3>1, <3>2, <3>5
  <2>3. ASSUME NEW d \in OfSet("description"), BlockCount(d.about.filesize) <= MaxU32,
               \A v \in OfSet("verification") : v.about = d.about.file =>
                 Body(v) \div EntrySize = BlockCount(d.about.filesize)
        PROVE  d.about.file \in ConsistentFiles
    <3>1. PICK id : id = d.about.file
      OBVIOUS
    <3>2. id \in Described
      BY <1>4, <3>1 DEF IsLoaded
    <3>3. PICK q \in OfSet("description") :
            q.about.file = id /\ sourcefilemap[id].description = q.about.filesize
      BY <1>1, <3>2 DEF ComeFrom
    <3>4. q = d
      <4>1. q.type = "description" /\ d.type = "description"
        BY <1>4
      <4>2. Subject(q) = q.about.file /\ Subject(d) = d.about.file
        BY <4>1 DEF Subject
      <4> QED BY <1>1, <3>1, <3>3, <4>2, CopiesInSet
    <3>5. sourcefilemap[id].verification \in {None, BlockCount(sourcefilemap[id].description)}
      <4>1. CASE id \in Verified
        <5>1. PICK v \in OfSet("verification") :
                v.about = id /\ sourcefilemap[id].verification = Body(v) \div EntrySize
          BY <1>1, <4>1 DEF ComeFrom
        <5> QED BY <2>3, <3>1, <3>3, <3>4, <5>1
      <4>2. CASE id \notin Verified
        BY <3>2, <4>2 DEF Verified, Described
      <4> QED BY <4>1, <4>2
    <3> QED BY <2>3, <3>1, <3>2, <3>3, <3>4, <3>5 DEF ConsistentFiles
  <2> QED BY <2>1, <2>2, <2>3
<1>7. \A n : BlockCount(n)' = BlockCount(n)
  BY <1>1 DEF BlockCount
<1>8. mainpacket' # None =>
        /\ \A e \in DOMAIN recoverypacketmap' : recoverypacketmap'[e].size = mainpacket'.blocksize
        /\ \A r \in OfSet("recovery")' :
             Body(r) = mainpacket'.blocksize => r.about \in DOMAIN recoverypacketmap'
        /\ \A d \in OfSet("description")' :
             /\ BlockCount(d.about.filesize)' <= MaxU32
             /\ \A v \in OfSet("verification")' : v.about = d.about.file =>
                  Body(v) \div EntrySize = BlockCount(d.about.filesize)'
             => d.about.file \in DOMAIN sourcefilemap'
  BY <1>1, <1>2, <1>6, <1>7
<1> QED BY <1>3, <1>5, <1>8 DEF Kept

LEMMA KeptStays ==
  ASSUME Kept, UNCHANGED <<input, loaded>>
  PROVE  Kept'
<1>1. UNCHANGED <<disk, parfilename, setid, mainpacket, recoverypacketmap, sourcefilemap>>
  BY DEF input, loaded
<1>2. \A type : OfSet(type)' = OfSet(type)
  BY <1>1, OfSetStays
<1>3. \A n : BlockCount(n)' = BlockCount(n)
  BY <1>1 DEF BlockCount
<1>4. TheSet' = TheSet
  BY <1>1, TheSetStays
<1> QED BY <1>1, <1>2, <1>3, <1>4 DEF Kept

LEMMA LayoutStepsKeep ==
  ASSUME TInv, CInv,
         CreateSourceFileList \/ AllocateSourceBlocks \/ PrepareVerificationHashTable
         \/ VerifySourceFiles \/ UNCHANGED vars
  PROVE  CInv'
<1>1. UNCHANGED <<input, loaded, faults>>
  BY DEF CreateSourceFileList, AllocateSourceBlocks, PrepareVerificationHashTable, VerifySourceFiles, vars
<1>2. faults' = 0 /\ pc' \notin {"ParFile", "OtherFiles", "CheckPacketConsistency"} => Kept'
  <2>1. faults' = 0 /\ pc' \notin {"ParFile", "OtherFiles", "CheckPacketConsistency"} => Kept
    BY <1>1 DEF CInv, CreateSourceFileList, AllocateSourceBlocks, PrepareVerificationHashTable,
                VerifySourceFiles, vars
  <2> QED BY <1>1, <2>1, KeptStays
<1>3. UNCHANGED <<mainpacket, sourcefilemap>>
  BY <1>1 DEF loaded
<1>4. ASSUME UNCHANGED sourcefiles PROVE Listed' = Listed /\ Recoverable' = Recoverable
  BY <1>3, <1>4 DEF Listed, Recoverable
<1>5. Verdict'
  <2>1. CASE UNCHANGED vars
    <3>1. UNCHANGED <<pc, result, sourcefiles>>
      BY <2>1 DEF vars, layout
    <3> QED BY <1>3, <1>4, <3>1 DEF CInv, Verdict
  <2>2. CASE VerifySourceFiles
    <3>1. Listed /\ UNCHANGED sourcefiles
      BY <2>2 DEF VerifySourceFiles, TInv, Layout, layout
    <3>2. Cardinality(Recoverable) \in Nat
      <4>1. DOMAIN sourcefiles = DOMAIN mainpacket.files /\ mainpacket # None
        BY <2>2, <3>1 DEF Listed, VerifySourceFiles, TInv, Layout, Checked
      <4>2. IsFiniteSet(DOMAIN sourcefiles)
        BY <4>1, WhatIsLoaded, FS_Interval
      <4>3. Recoverable \in SUBSET DOMAIN sourcefiles
        BY DEF Recoverable
      <4> QED BY <4>2, <4>3, FS_Subset, FS_CardinalityType
    <3>3. mainpacket # None => mainpacket.recoverablefilecount \in Nat
      BY WhatIsLoaded
    <3> QED BY <1>3, <1>4, <2>2, <3>1, <3>2, <3>3 DEF VerifySourceFiles, Verdict
  <2>3. CASE CreateSourceFileList \/ PrepareVerificationHashTable
    BY <2>3 DEF CreateSourceFileList, PrepareVerificationHashTable, Verdict
  <2>4. CASE AllocateSourceBlocks
    BY <2>4 DEF AllocateSourceBlocks, Verdict
  <2> QED BY <2>1, <2>2, <2>3, <2>4 DEF CreateSourceFileList, AllocateSourceBlocks,
            PrepareVerificationHashTable, VerifySourceFiles, vars
<1> QED BY <1>2, <1>5 DEF CInv

LEMMA KeptStep ==
  ASSUME PlainNames, AllCopiesAgree, TInv, NInv, CInv, [Next]_vars
  PROVE  CInv'
<1>1. CASE LoadPacketsFromOtherFiles \/ NextName \/ (\E name \in par2list \union ExtraFiles : OpenFile(name))
           \/ ReadHeader \/ Search \/ NoPacket \/ TakePacket \/ CloseFile \/ AllLoaded
  <2>1. pc' \in {"ParFile", "OtherFiles", "CheckPacketConsistency"}
    BY <1>1 DEF LoadPacketsFromOtherFiles, NextName, OpenFile, Between, ReadHeader, Search, SearchBuffer,
                NoPacket, TakePacket, CloseFile, AllLoaded, TInv, Reading
  <2> QED BY <2>1 DEF CInv, Verdict
<1>2. CASE CheckPacketConsistency
  <2>1. faults' = faults /\ pc = "CheckPacketConsistency" /\ (mainpacket' # None => pc' # "Finished")
    BY <1>2 DEF CheckPacketConsistency, loaded
  <2>2. faults' = 0 => Kept'
    BY <1>2, <2>1, ConsistentIsKept DEF NInv
  <2> QED BY <2>1, <2>2 DEF CInv, Verdict
<1> QED BY <1>1, <1>2, LayoutStepsKeep DEF Next, Process, Terminated

THEOREM KeptInvariance ==
  ASSUME PlainNames, PacketsApart, AllCopiesAgree
  PROVE  Spec => [](TInv /\ CInv)
<1>1. Init => TInv /\ NInv /\ CInv
  BY TypesInit, NothingSkippedInit DEF Init, CInv, Verdict
<1>2. TInv /\ NInv /\ CInv /\ [Next]_vars => (TInv /\ NInv /\ CInv)'
  <2>1. TInv /\ [Next]_vars => TInv'
    BY OtherFilesTypes, NamesTypes, ReadingTypes, CloseTypes, TakeTypes, ConsistencyTypes, LayoutTypes
       DEF Next, Process, Terminated
  <2> QED BY <2>1, NothingSkippedStep, KeptStep
<1> QED BY <1>1, <1>2, PTL DEF Spec

(* When every critical packet of the set survives somewhere, verification  *)
(* starts and has every recovery block that survives                       *)
(* (CriticalPacketsSuffice): which files they are in, what else is there   *)
(* and in which order they are read does not matter.  It is assumed that   *)
(* packets of a set about the same thing are copies, besides what          *)
(* NothingIsMissed assumes.                                                *)
THEOREM CriticalPacketsAreEnough ==
  ASSUME PlainNames, PacketsApart, AllCopiesAgree
  PROVE  Spec => []CriticalPacketsSuffice
<1>1. TInv /\ CInv => CriticalPacketsSuffice
  <2> SUFFICES ASSUME TInv, CInv, pc = "Finished", faults = 0, result # "LogicError",
                      NEW p \in Offered("main"),
                      \A n \in 1 .. p.about.recoverablefilecount :
                        \E d \in Offered("description") :
                          /\ d.about.file = p.about.files[n]
                          /\ BlockCount(d.about.filesize) <= MaxU32
                          /\ \A v \in Offered("verification") : v.about = d.about.file =>
                               Body(v) \div EntrySize = BlockCount(d.about.filesize)
               PROVE  /\ result = "Verify"
                      /\ {r.about : r \in {r \in Offered("recovery") : Body(r) = p.about.blocksize}}
                           = DOMAIN recoverypacketmap
    BY DEF CriticalPacketsSuffice
  <2>1. Kept /\ Verdict /\ ComeFrom /\ disk \in Disks
    BY DEF CInv, TInv, IInv
  <2>2. \A type : Offered(type) = OfSet(type)
    <3>1. Searched = Given /\ TheSet = setid
      BY <2>1 DEF Searched, Kept
    <3> QED BY <3>1 DEF Offered, OfSet
  <2>3. p \in OfSet("main") /\ mainpacket # None
    BY <2>1, <2>2 DEF Kept
  <2>4. PICK q \in OfSet("main") : q.about = mainpacket
    BY <2>1, <2>3 DEF ComeFrom
  <2>5. p = q
    <3>1. p.type = "main" /\ q.type = "main"
      BY <2>3, <2>4 DEF OfSet
    <3>2. Subject(p) = Subject(q)
      BY <3>1 DEF Subject
    <3> QED BY <2>1, <2>3, <2>4, <3>2, CopiesInSet
  <2>6. p.about = mainpacket
    BY <2>4, <2>5
  <2>7. PICK k : k = mainpacket.recoverablefilecount
    OBVIOUS
  <2>8. k \in Nat /\ Listed /\ \E N \in Nat : DOMAIN mainpacket.files = 1 .. N /\ k <= N
    BY <2>1, <2>3, <2>7, WhatIsLoaded DEF Verdict
  <2>9. \A n \in 1 .. k : n \in DOMAIN sourcefiles /\ sourcefiles[n] # None
    <3> TAKE n \in 1 .. k
    <3>1. n \in DOMAIN mainpacket.files /\ mainpacket.files[n] # None
      BY <2>3, <2>8, WhatIsLoaded
    <3>2. mainpacket.files[n] \in DOMAIN sourcefilemap
      BY <2>1, <2>2, <2>3, <2>6, <2>7 DEF Kept
    <3> QED BY <2>8, <3>1, <3>2 DEF Listed
  <2>10. Recoverable = 1 .. k
    <3>1. \A n \in DOMAIN sourcefiles : n <= k => n \in 1 .. k
      BY <2>8 DEF Listed
    <3> QED BY <2>7, <2>9, <3>1 DEF Recoverable
  <2>11. result = "Verify"
    <3>1. Cardinality(Recoverable) = k
      BY <2>8, <2>10, FS_Interval
    <3> QED BY <2>1, <2>3, <2>7, <2>8, <3>1 DEF Verdict
  <2>12. {r.about : r \in {r \in OfSet("recovery") : Body(r) = mainpacket.blocksize}}
           = DOMAIN recoverypacketmap
    <3>1. \A e \in DOMAIN recoverypacketmap :
            \E r \in OfSet("recovery") : r.about = e /\ Body(r) = mainpacket.blocksize
      BY <2>1, <2>3 DEF Kept, ComeFrom
    <3>2. \A r \in OfSet("recovery") :
            Body(r) = mainpacket.blocksize => r.about \in DOMAIN recoverypacketmap
      BY <2>1, <2>3 DEF Kept
    <3> QED BY <3>1, <3>2
  <2> QED BY <2>2, <2>6, <2>11, <2>12
<1> QED BY <1>1, KeptInvariance, PTL

=============================================================================
