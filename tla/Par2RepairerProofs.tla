------------------------- MODULE Par2RepairerProofs -------------------------
(***************************************************************************)
(* Through verification, both rounds of renames, the creation of targets   *)
(* and the repair, with any call failing, a kill anywhere and any number   *)
(* of runs, diskFileMap and the names of the DiskFiles agree with each     *)
(* other and with the disk, for any number of source and extra files.      *)
(* Then what verification found stays true of the disk until it is used,   *)
(* and what a run promises is kept.                                        *)
(***************************************************************************)
EXTENDS Par2Repairer, ScanDataFileProofs

Objects == DOMAIN filename

(* DiskFileMapAgrees, and that the map has known objects only.             *)
MapAgrees ==
  /\ \A name \in DOMAIN diskFileMap :
       diskFileMap[name] \in Objects /\ filename[diskFileMap[name]] = name /\ name \in DOMAIN disk
  /\ \A id \in Objects :
       filename[id] \in DOMAIN diskFileMap /\ diskFileMap[filename[id]] = id

(* Until the first rename a file has the name it was opened by, which is   *)
(* one that was dealt with; what is still to be opened is on the disk.     *)
AsOpened ==
  /\ pc \in {"VerifySourceFiles", "VerifyExtraFiles"} =>
       \A id \in Objects : id = Opened(filename[id])
  /\ pc = "VerifySourceFiles" =>
       /\ \A id \in Objects : filename[id] \notin todo
       /\ extrafiles \subseteq DOMAIN disk
  /\ pc = "VerifyExtraFiles" => todo \subseteq DOMAIN disk

Known(g) == g \in [File -> Objects \union {None}]
ObjectsKnown == BeforeVerify => Known(targetfile) /\ Known(found.complete)

(* A target is created once.                                               *)
BeforeCreate == {"VerifySourceFiles", "VerifyExtraFiles", "CheckVerificationResults",
                 "RenameDamaged", "RenameComplete"}
CreatedOnce ==
  /\ pc \in BeforeCreate => \A f \in File : Created(f) \notin Objects
  /\ pc = "CreateTargetFiles" => \A f \in File : Created(f) \in Objects => targetfile[f] # None

(* What is in memory when a process has ended is of no use to anyone.      *)
IInv ==
  Running => /\ pc # "RemoveParFiles" => MapAgrees
             /\ AsOpened /\ ObjectsKnown /\ CreatedOnce

-----------------------------------------------------------------------------

LEMMA ObjectsAreNotNone ==
  /\ None \notin DiskFileObject /\ \A id \in DiskFileObject : \A n \in Nat : <<id, n>> # None
  /\ File \subseteq Name
  /\ \A name \in Name : /\ Opened(name) \in DiskFileObject /\ Opened(name) # None
                        /\ Created(name) \in DiskFileObject /\ Created(name) # None
BY NoneAssumption, StartsAssumption DEF Names, DiskFileObject, Opened, Created

LEMMA FirstOfIsOf == ASSUME NEW S \in SUBSET File, S # {} PROVE FirstOf(S) \in S
<1> DEFINE numbers == {Number[f] : f \in S}
<1>1. numbers \in SUBSET Nat /\ numbers # {}
  BY NumberIsNatural
<1>2. PICK n \in numbers : \A m \in numbers : n <= m
  BY <1>1, LeastNumber
<1>3. \E f \in S : \A g \in S : Number[f] <= Number[g]
  BY <1>2
<1> QED BY <1>3 DEF FirstOf

LEMMA ScanCompletesOne ==
  ASSUME NEW before, NEW diskfile, NEW content, NEW sourcefile, NEW onlyrenames,
         Scan(before, diskfile, content, sourcefile, onlyrenames)
  PROVE  \E f : found'.complete \in {before.complete, [before.complete EXCEPT ![f] = diskfile]}
<1>1. \E readable, workers :
        found' = VerifyDataFile(before, diskfile, content, readable, sourcefile, workers, onlyrenames)
  BY DEF Scan
<1> QED BY <1>1, VerifyDataFileCompletes

LEMMA ScanCompletes ==
  ASSUME NEW before, NEW diskfile, NEW content, NEW sourcefile, NEW onlyrenames, NEW objects,
         diskfile \in objects, before.complete \in [File -> objects \union {None}],
         Scan(before, diskfile, content, sourcefile, onlyrenames)
  PROVE  found'.complete \in [File -> objects \union {None}]
<1>1. PICK f : found'.complete \in {before.complete, [before.complete EXCEPT ![f] = diskfile]}
  BY ScanCompletesOne
<1> QED BY <1>1

(* An object and its name are added.                                       *)
LEMMA AddedToMap ==
  ASSUME MapAgrees, NEW id, NEW name, id \notin Objects, name \notin DOMAIN diskFileMap,
         filename' = With(filename, id, name), diskFileMap' = With(diskFileMap, name, id),
         DOMAIN disk \subseteq DOMAIN disk', name \in DOMAIN disk'
  PROVE  /\ MapAgrees' /\ Objects' = Objects \union {id}
         /\ \A o \in Objects : filename'[o] = filename[o]
         /\ filename'[id] = name
BY DEF MapAgrees, Objects, With

(* A file is renamed on the disk, in its object and in the map.            *)
LEMMA RenamedInMap ==
  ASSUME MapAgrees, NEW id \in Objects, NEW new, ~InsertFails(id, new),
         MoveFile(filename[id], new), RenameInMap(id, new)
  PROVE  MapAgrees' /\ Objects' = Objects
<1> DEFINE old == filename[id]
<1>1. /\ Objects' = Objects /\ filename'[id] = new
      /\ \A o \in Objects : o # id => filename'[o] = filename[o]
  BY DEF RenameInMap, Objects
<1>2. /\ DOMAIN diskFileMap' = (DOMAIN diskFileMap \ {old}) \union {new}
      /\ diskFileMap'[new] = id
      /\ \A name \in DOMAIN diskFileMap \ {old} : name # new => diskFileMap'[name] = diskFileMap[name]
  BY DEF RenameInMap, With, Without, Restrict
<1>3. DOMAIN disk' = (DOMAIN disk \ {old}) \union {new}
  BY DEF MoveFile, With, Without, Restrict
<1>4. new = old \/ new \notin DOMAIN diskFileMap
  BY DEF InsertFails, Without, Restrict
<1>5. \A o \in Objects : o # id => filename[o] \in DOMAIN diskFileMap /\ filename[o] # old
  BY DEF MapAgrees
<1>6. \A name \in DOMAIN diskFileMap \ {old} : diskFileMap[name] # id
  BY DEF MapAgrees
<1> HIDE DEF old
<1> QED BY <1>1, <1>2, <1>3, <1>4, <1>5, <1>6 DEF MapAgrees, Objects

-----------------------------------------------------------------------------
(* Each action preserves the invariant.                                    *)

LEMMA InitEstablishes == Init => IInv
BY DEF Init, IInv, MapAgrees, AsOpened, ObjectsKnown, Known, CreatedOnce, Objects, NothingFound,
       NoTarget, Running

LEMMA RerunKeeps == Rerun => IInv'
BY DEF Rerun, IInv, MapAgrees, AsOpened, ObjectsKnown, Known, CreatedOnce, Objects, NothingFound,
       NoTarget, Running

LEMMA EndKeeps == pc' = "Finished" => IInv'
BY DEF IInv, Running

LEMMA OpenTargetKeeps ==
  ASSUME IInv, NEW f \in File, OpenTarget(f)
  PROVE  IInv'
<1>1. /\ pc = "VerifySourceFiles" /\ pc' = pc /\ todo' = todo \ {f} /\ disk' = disk
      /\ f \in todo /\ extrafiles' = extrafiles \ {f}
      /\ MapAgrees /\ AsOpened /\ Known(targetfile) /\ Known(found.complete)
      /\ \A g \in File : Created(g) \notin Objects
  BY DEF OpenTarget, IInv, Running, ObjectsKnown, BeforeVerify, CreatedOnce, BeforeCreate
<1>2. CASE UNCHANGED <<files, targetfile, found>>
  BY <1>1, <1>2 DEF IInv, MapAgrees, AsOpened, ObjectsKnown, Known, CreatedOnce, Objects, files
<1>3. CASE /\ f \in DOMAIN disk
           /\ targetfile' = [targetfile EXCEPT ![f] = Opened(f)]
           /\ filename' = With(filename, Opened(f), f)
           /\ diskFileMap' = With(diskFileMap, f, Opened(f))
           /\ Scan(found, Opened(f), disk[f], f, FALSE)
  <2>1. Opened(f) \notin Objects /\ f \notin DOMAIN diskFileMap
    BY <1>1 DEF AsOpened, MapAgrees, Opened
  <2>2. /\ MapAgrees' /\ Objects' = Objects \union {Opened(f)}
        /\ \A o \in Objects : filename'[o] = filename[o]
        /\ filename'[Opened(f)] = f
    BY <1>1, <1>3, <2>1, AddedToMap
  <2>3. AsOpened'
    BY <1>1, <2>2 DEF AsOpened
  <2>4. Known(targetfile)'
    BY <1>1, <1>3, <2>2 DEF Known
  <2>5. Known(found.complete)'
    BY <1>1, <1>3, <2>2, ScanCompletes DEF Known
  <2>6. \A g \in File : Created(g) \notin Objects'
    BY <1>1, <2>2 DEF Created, Opened
  <2> QED BY <1>1, <2>2, <2>3, <2>4, <2>5, <2>6 DEF IInv, ObjectsKnown, CreatedOnce
<1> QED BY <1>2, <1>3 DEF OpenTarget

LEMMA OpenExtraKeeps ==
  ASSUME IInv, NEW name \in todo, OpenExtra(name)
  PROVE  IInv'
<1>1. /\ pc = "VerifyExtraFiles" /\ pc' = pc /\ todo' = todo \ {name} /\ disk' = disk
      /\ targetfile' = targetfile
      /\ MapAgrees /\ AsOpened /\ Known(targetfile) /\ Known(found.complete)
      /\ \A g \in File : Created(g) \notin Objects
  BY DEF OpenExtra, IInv, Running, ObjectsKnown, BeforeVerify, CreatedOnce, BeforeCreate
<1>2. CASE UNCHANGED <<files, found>>
  BY <1>1, <1>2 DEF IInv, MapAgrees, AsOpened, ObjectsKnown, Known, CreatedOnce, Objects, files
<1>3. CASE /\ name \notin DOMAIN diskFileMap
           /\ filename' = With(filename, Opened(name), name)
           /\ diskFileMap' = With(diskFileMap, name, Opened(name))
           /\ Scan(found, Opened(name), disk[name], None, renameonly)
  <2>1. Opened(name) \notin Objects /\ name \in DOMAIN disk
    BY <1>1, <1>3 DEF AsOpened, MapAgrees, Opened
  <2>2. /\ MapAgrees' /\ Objects' = Objects \union {Opened(name)}
        /\ \A o \in Objects : filename'[o] = filename[o]
        /\ filename'[Opened(name)] = name
    BY <1>1, <1>3, <2>1, AddedToMap
  <2>3. AsOpened'
    BY <1>1, <2>2 DEF AsOpened
  <2>4. Known(targetfile)'
    BY <1>1, <2>2 DEF Known
  <2>5. Known(found.complete)'
    BY <1>1, <1>3, <2>2, ScanCompletes DEF Known
  <2>6. \A g \in File : Created(g) \notin Objects'
    BY <1>1, <2>2 DEF Created, Opened
  <2> QED BY <1>1, <2>2, <2>3, <2>4, <2>5, <2>6 DEF IInv, ObjectsKnown, CreatedOnce
<1> QED BY <1>2, <1>3 DEF OpenExtra

(* A stage ends, or something happens that has nothing to do with names.   *)
LEMMA StageKeeps ==
  ASSUME IInv,
         \/ VerifiedSourceFiles \/ VerifiedExtraFiles \/ CheckVerificationResults
         \/ RenamedDamaged \/ RenamedComplete \/ CreatedTargetFiles \/ ProcessedData
  PROVE  IInv'
<1> USE DEF IInv, Running, MapAgrees, AsOpened, ObjectsKnown, Known, BeforeVerify, CreatedOnce,
            BeforeCreate, Objects, Enter, Finish, Succeed, files, command, lists
<1>1. CASE VerifiedSourceFiles
  BY <1>1 DEF VerifiedSourceFiles
<1>2. CASE VerifiedExtraFiles
  BY <1>2 DEF VerifiedExtraFiles
<1>3. CASE CheckVerificationResults
  BY <1>3 DEF CheckVerificationResults
<1>4. CASE RenamedDamaged
  BY <1>4 DEF RenamedDamaged
<1>5. CASE RenamedComplete
  BY <1>5 DEF RenamedComplete
<1>6. CASE CreatedTargetFiles
  BY <1>6 DEF CreatedTargetFiles
<1>7. CASE ProcessedData
  BY <1>7 DEF ProcessedData
<1> QED BY <1>1, <1>2, <1>3, <1>4, <1>5, <1>6, <1>7

LEMMA RenameDamagedKeeps == IInv /\ RenameDamaged => IInv'
<1> SUFFICES ASSUME IInv, RenameDamaged PROVE IInv'
  OBVIOUS
<1> DEFINE f == FirstOf({g \in File : Damaged(g)})
           id == targetfile[f]
           new == BackupName(filename[id])
<1>1. f \in File /\ Damaged(f)
  BY FirstOfIsOf DEF RenameDamaged
<1>2. /\ pc = "RenameDamaged" /\ MapAgrees /\ Known(targetfile) /\ Known(found.complete)
      /\ \A g \in File : Created(g) \notin Objects
  BY DEF RenameDamaged, IInv, Running, ObjectsKnown, BeforeVerify, CreatedOnce, BeforeCreate
<1>3. id \in Objects
  BY <1>1, <1>2 DEF Damaged, Known
<1>4. found' = found
  BY DEF RenameDamaged
<1>5. \/ pc' = "Finished"
      \/ /\ ~InsertFails(id, new) /\ MoveFile(filename[id], new) /\ RenameInMap(id, new)
         /\ targetfile' = [targetfile EXCEPT ![f] = None] /\ pc' = pc
  BY DEF RenameDamaged, RenameFailed, AssertFailed, Finish, control
<1> HIDE DEF f, id, new
<1>6. CASE /\ ~InsertFails(id, new) /\ MoveFile(filename[id], new) /\ RenameInMap(id, new)
           /\ targetfile' = [targetfile EXCEPT ![f] = None] /\ pc' = pc
  <2>1. MapAgrees' /\ Objects' = Objects
    BY <1>2, <1>3, <1>6, RenamedInMap
  <2>2. Known(targetfile)' /\ Known(found.complete)'
    BY <1>2, <1>4, <1>6, <2>1 DEF Known
  <2> QED BY <1>2, <1>6, <2>1, <2>2 DEF IInv, AsOpened, ObjectsKnown, CreatedOnce
<1> QED BY <1>5, <1>6, EndKeeps

LEMMA RenameCompleteKeeps == IInv /\ RenameComplete => IInv'
<1> SUFFICES ASSUME IInv, RenameComplete PROVE IInv'
  OBVIOUS
<1> DEFINE f == FirstOf({g \in File : Misnamed(g)})
           id == found.complete[f]
<1>1. f \in File /\ Misnamed(f)
  BY FirstOfIsOf DEF RenameComplete
<1>2. /\ pc = "RenameComplete" /\ MapAgrees /\ Known(targetfile) /\ Known(found.complete)
      /\ \A g \in File : Created(g) \notin Objects
  BY DEF RenameComplete, IInv, Running, ObjectsKnown, BeforeVerify, CreatedOnce, BeforeCreate
<1>3. id \in Objects
  BY <1>1, <1>2 DEF Misnamed, Known
<1>4. found' = found
  BY DEF RenameComplete
<1>5. \/ pc' = "Finished"
      \/ /\ ~InsertFails(id, f) /\ MoveFile(filename[id], f) /\ RenameInMap(id, f)
         /\ targetfile' = [targetfile EXCEPT ![f] = id] /\ pc' = pc
  BY DEF RenameComplete, RenameFailed, AssertFailed, Finish, control
<1> HIDE DEF f, id
<1>6. CASE /\ ~InsertFails(id, f) /\ MoveFile(filename[id], f) /\ RenameInMap(id, f)
           /\ targetfile' = [targetfile EXCEPT ![f] = id] /\ pc' = pc
  <2>1. MapAgrees' /\ Objects' = Objects
    BY <1>2, <1>3, <1>6, RenamedInMap
  <2>2. Known(targetfile)' /\ Known(found.complete)'
    BY <1>2, <1>3, <1>4, <1>6, <2>1 DEF Known
  <2> QED BY <1>2, <1>6, <2>1, <2>2 DEF IInv, AsOpened, ObjectsKnown, CreatedOnce
<1> QED BY <1>5, <1>6, EndKeeps

LEMMA CreateTargetKeeps == IInv /\ CreateTarget => IInv'
<1> SUFFICES ASSUME IInv, CreateTarget PROVE IInv'
  OBVIOUS
<1> DEFINE f == FirstOf({g \in File : targetfile[g] = None})
<1>1. f \in File /\ targetfile[f] = None
  BY FirstOfIsOf DEF CreateTarget
<1>2. /\ pc = "CreateTargetFiles" /\ MapAgrees /\ Known(targetfile) /\ Known(found.complete)
      /\ \A g \in File : Created(g) \in Objects => targetfile[g] # None
  BY DEF CreateTarget, IInv, Running, ObjectsKnown, BeforeVerify, CreatedOnce
<1>3. found' = found
  BY DEF CreateTarget
<1>4. \/ pc' = "Finished"
      \/ /\ f \notin DOMAIN disk /\ pc' = pc
         /\ disk' = With(disk, f, [i \in 1 .. BlockCount[f] |-> Junk])
         /\ filename' = With(filename, Created(f), f)
         /\ diskFileMap' = With(diskFileMap, f, Created(f))
         /\ targetfile' = [targetfile EXCEPT ![f] = Created(f)]
  BY DEF CreateTarget, Finish, control
<1> HIDE DEF f
<1>5. CASE /\ f \notin DOMAIN disk /\ pc' = pc
           /\ disk' = With(disk, f, [i \in 1 .. BlockCount[f] |-> Junk])
           /\ filename' = With(filename, Created(f), f)
           /\ diskFileMap' = With(diskFileMap, f, Created(f))
           /\ targetfile' = [targetfile EXCEPT ![f] = Created(f)]
  <2>1. Created(f) \notin Objects /\ f \notin DOMAIN diskFileMap
    BY <1>1, <1>2, <1>5 DEF MapAgrees
  <2>2. DOMAIN disk \subseteq DOMAIN disk' /\ f \in DOMAIN disk'
    BY <1>5 DEF With
  <2>3. MapAgrees' /\ Objects' = Objects \union {Created(f)}
    BY <1>2, <1>5, <2>1, <2>2, AddedToMap
  <2>4. Known(targetfile)' /\ Known(found.complete)'
    BY <1>1, <1>2, <1>3, <1>5, <2>3 DEF Known
  <2>5. \A g \in File : Created(g) \in Objects' => targetfile'[g] # None
    <3>1. \A g \in File : Created(g) = Created(f) => g = f
      BY DEF Created
    <3>2. \A g \in File : g # f => targetfile'[g] = targetfile[g]
      BY <1>2, <1>5 DEF Known
    <3>3. targetfile'[f] = Created(f) /\ Created(f) # None
      BY <1>1, <1>2, <1>5, ObjectsAreNotNone DEF Known
    <3> QED BY <1>2, <2>3, <3>1, <3>2, <3>3
  <2> QED BY <1>2, <1>5, <2>3, <2>4, <2>5 DEF IInv, AsOpened, ObjectsKnown, CreatedOnce, BeforeCreate
<1> QED BY <1>4, <1>5, EndKeeps

(* The repair changes what is in files, and deletes some only as it ends.  *)
LEMMA RepairKeeps ==
  ASSUME IInv,
         \/ ComputeRSmatrix \/ ProcessData \/ VerifiedTargetFiles
         \/ \E f \in File : VerifyTarget(f)
         \/ RemoveBackupFiles \/ RemoveParFiles \/ Kill
  PROVE  IInv'
<1> USE DEF IInv, Running, MapAgrees, AsOpened, ObjectsKnown, Known, BeforeVerify, CreatedOnce,
            BeforeCreate, Objects, Finish, Succeed, files, command, lists
<1>1. CASE ComputeRSmatrix
  BY <1>1 DEF ComputeRSmatrix, DeleteIncompleteTargetFiles
<1>2. CASE ProcessData
  BY <1>2 DEF ProcessData, DeleteIncompleteTargetFiles
<1>3. CASE VerifiedTargetFiles
  BY <1>3 DEF VerifiedTargetFiles, DeleteIncompleteTargetFiles
<1>4. CASE \E f \in File : VerifyTarget(f)
  BY <1>4 DEF VerifyTarget
<1>5. CASE RemoveBackupFiles
  BY <1>5 DEF RemoveBackupFiles
<1>6. CASE RemoveParFiles
  BY <1>6 DEF RemoveParFiles
<1>7. CASE Kill
  BY <1>7 DEF Kill
<1> QED BY <1>1, <1>2, <1>3, <1>4, <1>5, <1>6, <1>7

LEMMA StutterKeeps == IInv /\ UNCHANGED vars => IInv'
BY DEF IInv, Running, MapAgrees, AsOpened, ObjectsKnown, Known, BeforeVerify, CreatedOnce, Objects,
       vars, files, control, command

THEOREM Invariance == Spec => []IInv
<1>1. IInv /\ [Next]_vars => IInv'
  BY OpenTargetKeeps, OpenExtraKeeps, StageKeeps, RenameDamagedKeeps, RenameCompleteKeeps,
     CreateTargetKeeps, RepairKeeps, RerunKeeps, StutterKeeps DEF Next, Process
<1> QED BY <1>1, InitEstablishes, PTL DEF Spec

(* The map and the names agree, whatever is renamed, created, fails or is  *)
(* killed, and on whatever disk (RenameTargetFiles, DiskFileMap).          *)
THEOREM MapNamesTheFiles == Spec => []DiskFileMapAgrees
<1>1. IInv => DiskFileMapAgrees
  BY DEF IInv, DiskFileMapAgrees, MapAgrees, Objects
<1> QED BY <1>1, Invariance, PTL

-----------------------------------------------------------------------------
(* What else is known of the names and the objects, on any disk.           *)

NamesKnown ==
  /\ DOMAIN disk \subseteq Name /\ IsFiniteSet(DOMAIN disk)
  /\ Objects \subseteq DiskFileObject

(* No object is a new target before the targets are created.               *)
NoneCreated ==
  pc \in BeforeCreate => (\A id \in Objects : id[1] # "created") /\ verifylist = {}

(* A disk file is the complete version of one source file.                 *)
CompleteOnce ==
  BeforeVerify => \A f, g \in File : found.complete[f] = found.complete[g]
                                     /\ found.complete[f] # None => f = g

(* A target has the name of its source file.                               *)
Working == pc \notin {"RemoveBackupFiles", "RemoveParFiles", "Finished"}
TargetsNamed ==
  Working => \A f \in File : targetfile[f] # None =>
               targetfile[f] \in Objects /\ filename[targetfile[f]] = f

DamagedAreGone == pc = "RenameComplete" => \A f \in File : ~Damaged(f)

(* Those on the verify list are the new targets.                           *)
IsNewTarget(f) ==
  f \in File /\ targetfile[f] = Created(f) /\ Created(f) \in Objects /\ filename[Created(f)] = f
VerifyListCreated == Working => \A f \in verifylist : IsNewTarget(f)

OInv ==
  /\ IInv /\ NamesKnown
  /\ NoneCreated /\ CompleteOnce /\ TargetsNamed /\ DamagedAreGone /\ VerifyListCreated

(* What the stages leave alone, in the terms of the invariant.             *)
LEMMA OInvFacts ==
  ASSUME OInv
  PROVE  /\ IInv /\ NamesKnown
         /\ BeforeVerify => MapAgrees /\ Known(targetfile) /\ Known(found.complete)
         /\ Working => MapAgrees
BY DEF OInv, IInv, Running, BeforeVerify, ObjectsKnown, Working

(* The name of a backup is free.                                           *)
LEMMA BackupNameIsFree ==
  ASSUME NEW f \in Name, IsFiniteSet(DOMAIN disk)
  PROVE  /\ BackupName(f) \notin DOMAIN disk /\ BackupName(f) \in Name
         /\ \E k \in Nat : BackupName(f) = Append(f, k)
<1> DEFINE n == Cardinality(DOMAIN disk) + 1
           free == {k \in 1 .. n : Append(f, k) \notin DOMAIN disk}
<1>1. n \in Nat \ {0} /\ Cardinality(DOMAIN disk) \in Nat
  BY FS_CardinalityType
<1>2. \A k \in Nat : k \in Letter
  BY DEF Letter
<1>3. \A j, k \in 1 .. n : Append(f, j) = Append(f, k) => j = k
  <2> SUFFICES ASSUME NEW j \in 1 .. n, NEW k \in 1 .. n, Append(f, j) = Append(f, k) PROVE j = k
    OBVIOUS
  <2>1. f \in Seq(Letter) /\ j \in Letter /\ k \in Letter
    BY <1>1, <1>2 DEF Name
  <2>2. Append(f, j)[Len(f) + 1] = j /\ Append(f, k)[Len(f) + 1] = k
    BY <2>1
  <2> QED BY <2>2
<1>4. free # {}
  <2> SUFFICES ASSUME free = {} PROVE FALSE
    OBVIOUS
  <2> DEFINE names == [k \in 1 .. n |-> Append(f, k)]
  <2>1. names \in [1 .. n -> DOMAIN disk]
    OBVIOUS
  <2>2. IsFiniteSet(1 .. n) /\ Cardinality(1 .. n) = n
    BY <1>1, FS_Interval
  <2>3. \E j, k \in 1 .. n : j # k /\ names[j] = names[k]
    <3> DEFINE numbers == 1 .. n
    <3>1. Cardinality(DOMAIN disk) < Cardinality(numbers) /\ IsFiniteSet(numbers)
      BY <1>1, <2>2
    <3>2. names \in [numbers -> DOMAIN disk]
      BY <2>1
    <3> HIDE DEF names, numbers, n
    <3>3. \E j, k \in numbers : j # k /\ names[j] = names[k]
      BY <3>1, <3>2, FS_PigeonHole
    <3> QED BY <3>3 DEF numbers
  <2> QED BY <1>3, <2>3
<1>5. PICK k \in free : \A j \in free : k <= j
  <2>1. free \in SUBSET Nat
    BY <1>1
  <2> QED BY <1>4, <2>1, LeastNumber
<1> DEFINE Good(i) == /\ Append(f, i) \notin DOMAIN disk
                      /\ \A j \in 1 .. i - 1 : Append(f, j) \in DOMAIN disk
<1>6. k \in 1 .. n /\ Good(k)
  BY <1>1, <1>5
<1> DEFINE first == CHOOSE i \in 1 .. n : Good(i)
<1>7. first \in 1 .. n /\ Good(first)
  <2> HIDE DEF Good
  <2> QED BY <1>6
<1>8. BackupName(f) = Append(f, first)
  BY DEF BackupName
<1>9. first \in Nat
  BY <1>1, <1>7
<1> HIDE DEF first
<1>10. Append(f, first) \in Name
  BY <1>2, <1>9 DEF Name
<1> QED BY <1>7, <1>8, <1>9, <1>10

(* A rename to a name that is free.                                        *)
LEMMA MovedFile ==
  ASSUME NEW old \in DOMAIN disk, NEW new, MoveFile(old, new), NamesKnown, new \in Name
  PROVE  /\ DOMAIN disk' = (DOMAIN disk \ {old}) \union {new} /\ disk'[new] = disk[old]
         /\ \A name \in DOMAIN disk \ {old, new} : disk'[name] = disk[name]
         /\ DOMAIN disk' \subseteq Name /\ IsFiniteSet(DOMAIN disk')
<1>1. /\ DOMAIN disk' = (DOMAIN disk \ {old}) \union {new} /\ disk'[new] = disk[old]
      /\ \A name \in DOMAIN disk \ {old, new} : disk'[name] = disk[name]
  BY DEF MoveFile, With, Without, Restrict
<1>2. IsFiniteSet(DOMAIN disk \ {old})
  BY FS_RemoveElement DEF NamesKnown
<1>3. IsFiniteSet(DOMAIN disk')
  BY <1>1, <1>2, FS_AddElement
<1> QED BY <1>1, <1>3 DEF NamesKnown

-----------------------------------------------------------------------------
(* Each action preserves it.                                               *)

LEMMA ObjectsInit == Init => OInv
<1> SUFFICES ASSUME Init PROVE OInv
  OBVIOUS
<1>1. NamesKnown
  BY StartsAssumption DEF Init, NamesKnown, Names, Objects
<1> QED BY <1>1, InitEstablishes DEF Init, OInv, NoneCreated, CompleteOnce, TargetsNamed, DamagedAreGone,
           VerifyListCreated, Objects, NothingFound, NoTarget, BeforeCreate

LEMMA ObjectsRerun == OInv /\ Rerun => OInv'
<1> SUFFICES ASSUME OInv, Rerun PROVE OInv'
  OBVIOUS
<1>1. NamesKnown'
  BY DEF Rerun, OInv, NamesKnown, Objects
<1> QED BY <1>1, RerunKeeps DEF Rerun, OInv, NoneCreated, CompleteOnce, TargetsNamed, DamagedAreGone,
           VerifyListCreated, Objects, NothingFound, NoTarget, BeforeCreate

(* The end of a process.                                                   *)
LEMMA ObjectsEnd ==
  ASSUME OInv, pc' = "Finished", NamesKnown'
  PROVE  OInv'
BY EndKeeps DEF OInv, NoneCreated, CompleteOnce, TargetsNamed, DamagedAreGone, VerifyListCreated,
       BeforeCreate, BeforeVerify, Working

LEMMA NamesUntouched ==
  ASSUME NamesKnown, disk' = disk, Objects' \subseteq Objects
  PROVE  NamesKnown'
BY DEF NamesKnown

(* A file is opened, and one that was not open cannot be complete yet.     *)
LEMMA ObjectsOpened ==
  ASSUME OInv, IInv', NEW name \in Name, Opened(name) \notin Objects,
         pc \in {"VerifySourceFiles", "VerifyExtraFiles"}, pc' = pc, disk' = disk,
         verifylist' = verifylist,
         filename' = With(filename, Opened(name), name),
         \/ targetfile' = targetfile
         \/ name \in File /\ targetfile' = [targetfile EXCEPT ![name] = Opened(name)],
         \E f : found'.complete \in {found.complete, [found.complete EXCEPT ![f] = Opened(name)]}
  PROVE  OInv'
<1>1. /\ Known(targetfile) /\ Known(found.complete) /\ NamesKnown
      /\ NoneCreated /\ CompleteOnce /\ TargetsNamed
  BY OInvFacts DEF OInv, BeforeVerify
<1>2. /\ Objects' = Objects \union {Opened(name)} /\ filename'[Opened(name)] = name
      /\ \A o \in Objects : filename'[o] = filename[o]
  BY DEF With, Objects
<1>3. NamesKnown'
  BY <1>1, <1>2, ObjectsAreNotNone DEF NamesKnown
<1>4. NoneCreated'
  BY <1>1, <1>2 DEF NoneCreated, Opened, BeforeCreate
<1>5. CompleteOnce'
  <2>1. PICK s : found'.complete \in {found.complete, [found.complete EXCEPT ![s] = Opened(name)]}
    OBVIOUS
  <2>2. \A g \in File : found.complete[g] # Opened(name) \/ found.complete[g] = None
    BY <1>1 DEF Known
  <2>3. \A g, h \in File : found'.complete[g] = found'.complete[h] /\ found'.complete[g] # None => g = h
    BY <1>1, <2>1, <2>2 DEF CompleteOnce, Known, BeforeVerify
  <2> QED BY <2>3 DEF CompleteOnce
<1>6. TargetsNamed'
  BY <1>1, <1>2 DEF TargetsNamed, Working, Known
<1>7. DamagedAreGone' /\ VerifyListCreated'
  BY <1>1 DEF DamagedAreGone, VerifyListCreated, NoneCreated, BeforeCreate
<1> QED BY <1>3, <1>4, <1>5, <1>6, <1>7 DEF OInv

LEMMA ObjectsOpenTarget ==
  ASSUME OInv, NEW f \in File, OpenTarget(f)
  PROVE  OInv'
<1>1. /\ pc = "VerifySourceFiles" /\ pc' = pc /\ todo' = todo \ {f} /\ disk' = disk
      /\ verifylist' = verifylist /\ f \in todo /\ MapAgrees /\ AsOpened /\ NamesKnown /\ IInv'
  BY OpenTargetKeeps DEF OpenTarget, OInv, IInv, Running, lists
<1>2. CASE UNCHANGED <<files, targetfile, found>>
  BY <1>1, <1>2 DEF OInv, NamesKnown, NoneCreated, CompleteOnce, TargetsNamed, DamagedAreGone,
     VerifyListCreated, IsNewTarget, Objects, BeforeCreate, BeforeVerify, Working, files
<1>3. CASE /\ f \in DOMAIN disk
           /\ targetfile' = [targetfile EXCEPT ![f] = Opened(f)]
           /\ filename' = With(filename, Opened(f), f)
           /\ Scan(found, Opened(f), disk[f], f, FALSE)
  <2>1. Opened(f) \notin Objects /\ f \in Name
    BY <1>1, <1>3 DEF AsOpened, MapAgrees, Opened, NamesKnown
  <2>2. \E s : found'.complete \in {found.complete, [found.complete EXCEPT ![s] = Opened(f)]}
    BY <1>3, ScanCompletesOne
  <2> QED BY <1>1, <1>3, <2>1, <2>2, ObjectsOpened
<1> QED BY <1>2, <1>3 DEF OpenTarget

LEMMA ObjectsOpenExtra ==
  ASSUME OInv, NEW name \in todo, OpenExtra(name)
  PROVE  OInv'
<1>1. /\ pc = "VerifyExtraFiles" /\ pc' = pc /\ disk' = disk /\ targetfile' = targetfile
      /\ verifylist' = verifylist /\ MapAgrees /\ AsOpened /\ NamesKnown /\ IInv'
  BY OpenExtraKeeps DEF OpenExtra, OInv, IInv, Running, lists
<1>2. CASE UNCHANGED <<files, found>>
  BY <1>1, <1>2 DEF OInv, NamesKnown, NoneCreated, CompleteOnce, TargetsNamed, DamagedAreGone,
     VerifyListCreated, IsNewTarget, Objects, BeforeCreate, BeforeVerify, Working, files
<1>3. CASE /\ name \notin DOMAIN diskFileMap
           /\ filename' = With(filename, Opened(name), name)
           /\ Scan(found, Opened(name), disk[name], None, renameonly)
  <2>1. Opened(name) \notin Objects /\ name \in Name
    BY <1>1, <1>3 DEF AsOpened, MapAgrees, Opened, NamesKnown
  <2>2. \E s : found'.complete \in {found.complete, [found.complete EXCEPT ![s] = Opened(name)]}
    BY <1>3, ScanCompletesOne
  <2> QED BY <1>1, <1>3, <2>1, <2>2, ObjectsOpened
<1> QED BY <1>2, <1>3 DEF OpenExtra

LEMMA ObjectsStage ==
  ASSUME OInv,
         \/ VerifiedSourceFiles \/ VerifiedExtraFiles \/ CheckVerificationResults
         \/ RenamedDamaged \/ RenamedComplete \/ CreatedTargetFiles \/ ProcessedData
  PROVE  OInv'
<1>1. IInv'
  BY StageKeeps DEF OInv
<1> USE <1>1 DEF OInv, NamesKnown, NoneCreated, CompleteOnce, TargetsNamed, DamagedAreGone,
        VerifyListCreated, IsNewTarget, Damaged, Objects, BeforeCreate, BeforeVerify, Working,
        Enter, Finish, Succeed, files, lists
<1>2. CASE VerifiedSourceFiles
  BY <1>2 DEF VerifiedSourceFiles
<1>3. CASE VerifiedExtraFiles
  BY <1>3 DEF VerifiedExtraFiles
<1>4. CASE CheckVerificationResults
  BY <1>4 DEF CheckVerificationResults
<1>5. CASE RenamedDamaged
  BY <1>5 DEF RenamedDamaged
<1>6. CASE RenamedComplete
  BY <1>6 DEF RenamedComplete
<1>7. CASE CreatedTargetFiles
  BY <1>7 DEF CreatedTargetFiles
<1>8. CASE ProcessedData
  BY <1>8 DEF ProcessedData
<1> QED BY <1>2, <1>3, <1>4, <1>5, <1>6, <1>7, <1>8

(* The file and the object that the first loop of renames is at.           *)
LEMMA DamagedFacts ==
  ASSUME OInv, RenameDamaged, NEW f, f = FirstOf({g \in File : Damaged(g)})
  PROVE  /\ f \in File /\ Damaged(f) /\ f \in Name
         /\ targetfile[f] \in Objects /\ filename[targetfile[f]] = f
         /\ BackupName(f) \notin DOMAIN disk /\ BackupName(f) \in Name
         /\ \E k \in Nat : BackupName(f) = Append(f, k)
<1>1. f \in File /\ Damaged(f)
  BY FirstOfIsOf DEF RenameDamaged
<1>2. f \in Name
  BY <1>1, ObjectsAreNotNone
<1>3. IsFiniteSet(DOMAIN disk)
  BY DEF OInv, NamesKnown
<1>4. targetfile[f] \in Objects /\ filename[targetfile[f]] = f
  BY <1>1 DEF OInv, TargetsNamed, Damaged, RenameDamaged, Working
<1> QED BY <1>1, <1>2, <1>3, <1>4, BackupNameIsFree

LEMMA ObjectsRenameDamaged == OInv /\ RenameDamaged => OInv'
<1> SUFFICES ASSUME OInv, RenameDamaged PROVE OInv'
  OBVIOUS
<1> DEFINE f == FirstOf({g \in File : Damaged(g)})
           id == targetfile[f]
           new == BackupName(f)
<1>1. /\ f \in File /\ Damaged(f) /\ id \in Objects /\ filename[id] = f
      /\ new \notin DOMAIN disk /\ new \in Name
  BY DamagedFacts
<1>2. /\ pc = "RenameDamaged" /\ NamesKnown /\ Known(targetfile) /\ Known(found.complete)
      /\ (\A o \in Objects : o[1] # "created") /\ verifylist = {} /\ verifylist' = verifylist
      /\ CompleteOnce /\ TargetsNamed /\ found' = found /\ IInv'
  BY RenameDamagedKeeps, OInvFacts DEF RenameDamaged, OInv, NoneCreated, BeforeVerify, BeforeCreate,
     RenameFailed, lists
<1>3. \/ pc' = "Finished" /\ disk' = disk /\ filename' = filename
      \/ /\ pc' = "Finished" /\ f \in DOMAIN disk /\ MoveFile(f, new)
         /\ filename' = [filename EXCEPT ![id] = new]
      \/ /\ f \in DOMAIN disk /\ MoveFile(f, new) /\ filename' = [filename EXCEPT ![id] = new]
         /\ targetfile' = [targetfile EXCEPT ![f] = None] /\ pc' = pc
  BY <1>1 DEF RenameDamaged, RenameFailed, AssertFailed, RenameInMap, Finish, control
<1> HIDE DEF f, id, new
<1>4. CASE pc' = "Finished" /\ disk' = disk /\ filename' = filename
  BY <1>2, <1>4, ObjectsEnd, NamesUntouched DEF Objects
<1>5. ASSUME f \in DOMAIN disk, MoveFile(f, new), filename' = [filename EXCEPT ![id] = new]
      PROVE  NamesKnown' /\ Objects' = Objects
  <2>1. DOMAIN disk' \subseteq Name /\ IsFiniteSet(DOMAIN disk')
    BY <1>1, <1>2, <1>5, MovedFile
  <2> QED BY <2>1, <1>2, <1>5 DEF NamesKnown, Objects
<1>6. CASE /\ f \in DOMAIN disk /\ MoveFile(f, new) /\ filename' = [filename EXCEPT ![id] = new]
           /\ targetfile' = [targetfile EXCEPT ![f] = None] /\ pc' = pc
  <2>1. NamesKnown' /\ Objects' = Objects
    BY <1>5, <1>6
  <2>2. \A g \in File : targetfile'[g] # None =>
          targetfile'[g] = targetfile[g] /\ targetfile[g] # id
    BY <1>1, <1>2, <1>6 DEF Known, TargetsNamed, Working
  <2>3. TargetsNamed'
    BY <1>1, <1>2, <1>6, <2>1, <2>2 DEF TargetsNamed, Working, Objects
  <2> QED BY <1>2, <1>6, <2>1, <2>3 DEF OInv, NoneCreated, CompleteOnce, DamagedAreGone,
       VerifyListCreated, BeforeVerify, BeforeCreate
<1> QED BY <1>3, <1>4, <1>5, <1>6, ObjectsEnd

LEMMA MisnamedFacts ==
  ASSUME OInv, RenameComplete, NEW f, f = FirstOf({g \in File : Misnamed(g)})
  PROVE  /\ f \in File /\ Misnamed(f) /\ f \in Name
         /\ targetfile[f] = None /\ found.complete[f] \in Objects
         /\ \A g \in File : targetfile[g] # None => targetfile[g] = found.complete[g]
                                                    /\ targetfile[g] # found.complete[f]
<1>1. f \in File /\ Misnamed(f)
  BY FirstOfIsOf DEF RenameComplete
<1>2. f \in Name
  BY <1>1, ObjectsAreNotNone
<1>3. /\ Known(targetfile) /\ Known(found.complete) /\ CompleteOnce /\ DamagedAreGone
      /\ pc = "RenameComplete" /\ BeforeVerify
  BY OInvFacts DEF OInv, RenameComplete, BeforeVerify
<1> QED BY <1>1, <1>2, <1>3 DEF Misnamed, Known, CompleteOnce, DamagedAreGone, Damaged

LEMMA ObjectsRenameComplete == OInv /\ RenameComplete => OInv'
<1> SUFFICES ASSUME OInv, RenameComplete PROVE OInv'
  OBVIOUS
<1> DEFINE f == FirstOf({g \in File : Misnamed(g)})
           id == found.complete[f]
<1>1. /\ f \in File /\ f \in Name /\ targetfile[f] = None /\ id \in Objects /\ id # None
      /\ \A g \in File : targetfile[g] # None => targetfile[g] = found.complete[g] /\ targetfile[g] # id
  BY MisnamedFacts DEF Misnamed
<1>2. /\ pc = "RenameComplete" /\ NamesKnown /\ Known(targetfile) /\ Known(found.complete)
      /\ (\A o \in Objects : o[1] # "created") /\ verifylist = {} /\ verifylist' = verifylist
      /\ CompleteOnce /\ TargetsNamed /\ DamagedAreGone /\ found' = found /\ IInv'
  BY RenameCompleteKeeps, OInvFacts DEF RenameComplete, OInv, NoneCreated, BeforeVerify, BeforeCreate,
     RenameFailed, lists
<1>3. \/ pc' = "Finished" /\ disk' = disk /\ filename' = filename
      \/ /\ pc' = "Finished" /\ filename[id] \in DOMAIN disk /\ MoveFile(filename[id], f)
         /\ filename' = [filename EXCEPT ![id] = f]
      \/ /\ filename[id] \in DOMAIN disk /\ MoveFile(filename[id], f)
         /\ filename' = [filename EXCEPT ![id] = f]
         /\ targetfile' = [targetfile EXCEPT ![f] = id] /\ pc' = pc
  BY <1>1 DEF RenameComplete, RenameFailed, AssertFailed, RenameInMap, Finish, control
<1>4. id = found.complete[f]
  OBVIOUS
<1> HIDE DEF f, id
<1>5. CASE pc' = "Finished" /\ disk' = disk /\ filename' = filename
  BY <1>2, <1>5, ObjectsEnd, NamesUntouched DEF Objects
<1>6. ASSUME filename[id] \in DOMAIN disk, MoveFile(filename[id], f),
             filename' = [filename EXCEPT ![id] = f]
      PROVE  NamesKnown' /\ Objects' = Objects
  <2>1. DOMAIN disk' \subseteq Name /\ IsFiniteSet(DOMAIN disk')
    BY <1>1, <1>2, <1>6, MovedFile
  <2> QED BY <2>1, <1>2, <1>6 DEF NamesKnown, Objects
<1>7. CASE /\ filename[id] \in DOMAIN disk /\ MoveFile(filename[id], f)
           /\ filename' = [filename EXCEPT ![id] = f]
           /\ targetfile' = [targetfile EXCEPT ![f] = id] /\ pc' = pc
  <2>1. NamesKnown' /\ Objects' = Objects
    BY <1>6, <1>7
  <2>2. TargetsNamed'
    BY <1>1, <1>2, <1>7, <2>1 DEF TargetsNamed, Working, Known, Objects
  <2>3. DamagedAreGone'
    BY <1>1, <1>2, <1>4, <1>7 DEF DamagedAreGone, Damaged, Known
  <2> QED BY <1>2, <1>7, <2>1, <2>2, <2>3 DEF OInv, NoneCreated, CompleteOnce,
       VerifyListCreated, BeforeVerify, BeforeCreate
<1> QED BY <1>3, <1>5, <1>6, <1>7, ObjectsEnd

LEMMA ObjectsCreateTarget == OInv /\ CreateTarget => OInv'
<1> SUFFICES ASSUME OInv, CreateTarget PROVE OInv'
  OBVIOUS
<1> DEFINE f == FirstOf({g \in File : targetfile[g] = None})
<1>1. f \in File /\ targetfile[f] = None
  BY FirstOfIsOf DEF CreateTarget
<1>2. /\ pc = "CreateTargetFiles" /\ NamesKnown /\ Known(targetfile) /\ Known(found.complete)
      /\ \A g \in File : Created(g) \in Objects => targetfile[g] # None
      /\ CompleteOnce /\ TargetsNamed /\ VerifyListCreated /\ found' = found /\ IInv'
  BY CreateTargetKeeps, OInvFacts DEF CreateTarget, OInv, IInv, Running, BeforeVerify, CreatedOnce
<1>3. \/ pc' = "Finished" /\ disk' = disk /\ filename' = filename
      \/ /\ f \notin DOMAIN disk /\ pc' = pc
         /\ disk' = With(disk, f, [i \in 1 .. BlockCount[f] |-> Junk])
         /\ filename' = With(filename, Created(f), f)
         /\ targetfile' = [targetfile EXCEPT ![f] = Created(f)]
         /\ verifylist' = verifylist \union {f}
  BY DEF CreateTarget, Finish, control, files
<1> HIDE DEF f
<1>4. CASE pc' = "Finished" /\ disk' = disk /\ filename' = filename
  BY <1>2, <1>4, ObjectsEnd, NamesUntouched DEF Objects
<1>5. CASE /\ f \notin DOMAIN disk /\ pc' = pc
           /\ disk' = With(disk, f, [i \in 1 .. BlockCount[f] |-> Junk])
           /\ filename' = With(filename, Created(f), f)
           /\ targetfile' = [targetfile EXCEPT ![f] = Created(f)]
           /\ verifylist' = verifylist \union {f}
  <2>1. Created(f) \notin Objects
    BY <1>1, <1>2
  <2>2. /\ Objects' = Objects \union {Created(f)} /\ filename'[Created(f)] = f
        /\ \A o \in Objects : filename'[o] = filename[o]
    BY <1>5, <2>1 DEF With, Objects
  <2>3. NamesKnown'
    <3>1. DOMAIN disk' = DOMAIN disk \union {f}
      BY <1>5 DEF With
    <3>2. IsFiniteSet(DOMAIN disk')
      BY <1>2, <3>1, FS_AddElement DEF NamesKnown
    <3>3. f \in Name /\ Created(f) \in DiskFileObject
      BY <1>1, ObjectsAreNotNone
    <3> QED BY <1>2, <2>2, <3>1, <3>2, <3>3 DEF NamesKnown
  <2>4. TargetsNamed'
    BY <1>1, <1>2, <1>5, <2>2 DEF TargetsNamed, Working, Known
  <2>5. \A g \in verifylist' : IsNewTarget(g)'
    <3> SUFFICES ASSUME NEW g \in verifylist' PROVE IsNewTarget(g)'
      OBVIOUS
    <3>1. CASE g = f
      BY <1>1, <1>2, <1>5, <2>2, <3>1 DEF IsNewTarget, Known
    <3>2. CASE g # f
      <4>1. g \in verifylist /\ IsNewTarget(g)
        BY <1>2, <1>5, <3>2 DEF VerifyListCreated, Working
      <4> QED BY <1>2, <1>5, <2>2, <3>2, <4>1 DEF IsNewTarget, Known
    <3> QED BY <3>1, <3>2
  <2> QED BY <1>2, <1>5, <2>3, <2>4, <2>5 DEF OInv, NoneCreated, CompleteOnce, DamagedAreGone,
       VerifyListCreated, BeforeCreate, BeforeVerify
<1> QED BY <1>3, <1>4, <1>5

(* The targets that were made are deleted when a repair fails.             *)
LEMMA ObjectsDelete ==
  ASSUME OInv, DeleteIncompleteTargetFiles
  PROVE  OInv'
<1>1. /\ DOMAIN disk' \subseteq DOMAIN disk /\ Objects' \subseteq Objects /\ pc' = "Finished"
  BY DEF DeleteIncompleteTargetFiles, Without, Restrict, Objects, Finish
<1>2. NamesKnown'
  BY <1>1, FS_Subset DEF OInv, NamesKnown
<1> QED BY <1>1, <1>2, ObjectsEnd

LEMMA ObjectsRepair ==
  ASSUME OInv,
         \/ ComputeRSmatrix \/ ProcessData \/ VerifiedTargetFiles
         \/ \E f \in File : VerifyTarget(f)
  PROVE  OInv'
<1>1. IInv' /\ (Working /\ Working' => TargetsNamed /\ VerifyListCreated)
  BY RepairKeeps DEF OInv
<1>2. CASE DeleteIncompleteTargetFiles
  BY <1>2, ObjectsDelete
<1> USE DEF OInv, NoneCreated, CompleteOnce, TargetsNamed, DamagedAreGone, VerifyListCreated,
        IsNewTarget, BeforeCreate, BeforeVerify, Working, Finish, Succeed, files, lists
<1>3. CASE ComputeRSmatrix /\ ~DeleteIncompleteTargetFiles
  <2>1. NamesKnown'
    BY <1>3, NamesUntouched DEF ComputeRSmatrix, Objects
  <2> QED BY <1>1, <1>3, <2>1 DEF ComputeRSmatrix, Objects
<1>4. CASE ProcessData /\ ~DeleteIncompleteTargetFiles
  <2>1. /\ pc = "ProcessData" /\ pc' = pc /\ UNCHANGED <<files, targetfile, found, verifylist>>
        /\ \/ disk' = disk
           \/ disk' = [name \in DOMAIN disk \union verifylist |->
                         IF name \in verifylist
                         THEN [i \in 1 .. BlockCount[name] |-> Restored(<<name, i>>)]
                         ELSE disk[name]]
    BY <1>4 DEF ProcessData
  <2>2. verifylist \subseteq DOMAIN disk
    BY <2>1 DEF IInv, Running, MapAgrees, Objects
  <2>3. DOMAIN disk' = DOMAIN disk
    BY <2>1, <2>2
  <2>4. NamesKnown'
    BY <2>1, <2>3 DEF NamesKnown, Objects
  <2> QED BY <1>1, <2>1, <2>4 DEF Objects
<1>5. CASE VerifiedTargetFiles /\ ~DeleteIncompleteTargetFiles
  <2>1. NamesKnown'
    BY <1>5, NamesUntouched DEF VerifiedTargetFiles, Objects
  <2> QED BY <1>1, <1>5, <2>1 DEF VerifiedTargetFiles, Objects
<1>6. CASE \E f \in File : VerifyTarget(f)
  <2>1. NamesKnown'
    BY <1>6, NamesUntouched DEF VerifyTarget, Objects
  <2> QED BY <1>1, <1>6, <2>1 DEF VerifyTarget, Objects
<1> QED BY <1>2, <1>3, <1>4, <1>5, <1>6

(* The purge, and a kill.                                                  *)
LEMMA ObjectsLeaving ==
  ASSUME OInv, RemoveBackupFiles \/ RemoveParFiles \/ Kill
  PROVE  OInv'
<1>1. IInv'
  BY RepairKeeps DEF OInv
<1>2. DOMAIN disk' \subseteq DOMAIN disk /\ filename' = filename
      /\ pc' \in {"RemoveParFiles", "Finished"}
  BY DEF RemoveBackupFiles, RemoveParFiles, Kill, Without, Restrict, Finish, files
<1>3. NamesKnown'
  BY <1>2, FS_Subset DEF OInv, NamesKnown, Objects
<1> QED BY <1>1, <1>2, <1>3 DEF OInv, NoneCreated, CompleteOnce, TargetsNamed, DamagedAreGone,
       VerifyListCreated, BeforeCreate, BeforeVerify, Working

LEMMA ObjectsStutter == OInv /\ UNCHANGED vars => OInv'
BY StutterKeeps DEF OInv, NamesKnown, NoneCreated, CompleteOnce, TargetsNamed, DamagedAreGone, Damaged,
       VerifyListCreated, IsNewTarget, Objects, BeforeCreate, BeforeVerify, Working,
       vars, files, lists, control

LEMMA ObjectsStep == OInv /\ [Next]_vars => OInv'
BY ObjectsOpenTarget, ObjectsOpenExtra, ObjectsStage, ObjectsRenameDamaged, ObjectsRenameComplete,
   ObjectsCreateTarget, ObjectsRepair, ObjectsLeaving, ObjectsRerun, ObjectsStutter DEF Next, Process

(* The invariant holds in every state.                                     *)
THEOREM ObjectsInvariance == Spec => []OInv
BY ObjectsInit, ObjectsStep, PTL DEF Spec

-----------------------------------------------------------------------------
(* What verification holds to be found is there, through every rename and  *)
(* while targets are made and rebuilt, on any disk: each block that has a  *)
(* location is there, a complete version of a source file is its data, the *)
(* counts are the numbers of what was found, and a repair that reports     *)
(* success has every target right.                                         *)


(* The data in the files that some objects stand for.                      *)
OpenedObjects == {id \in Objects : id[1] = "opened"}
Contents(ids) == [id \in ids |-> disk[filename[id]]]

(* What was found is there.                                                *)
IsAt(place, data, contents) ==
  \E id \in DOMAIN contents : \E q \in DOMAIN contents[id] :
    place = <<id, q>> /\ contents[id][q] = data
PlacesTrue(location, contents) ==
  /\ location = [e \in Entry |-> location[e]]
  /\ \A e \in Entry : location[e] # None => IsAt(location[e], BlockData[e], contents)
CompleteTrue(now, contents) ==
  /\ now.complete \in [File -> DOMAIN contents \union {None}]
  /\ \A f \in File : now.complete[f] # None =>
       /\ contents[now.complete[f]] = Original(f)
       /\ \A e \in Entry : FileOf(e) = f => now.location[e] # None
FoundIn(now, contents) == PlacesTrue(now.location, contents) /\ CompleteTrue(now, contents)

(* Until the new targets are verified only files that were opened count;   *)
(* what is in the new ones changes.                                        *)
FoundTrue ==
  /\ BeforeVerify => FoundIn(found, Contents(OpenedObjects))
  /\ pc = "VerifyTargetFiles" => FoundIn(found, Contents(Objects))

DiskIsData == \A name \in DOMAIN disk : disk[name] \in Seq(Data)

(* The complete files that are targets already, and the counts.            *)
Right == {f \in File : found.complete[f] # None /\ found.complete[f] = targetfile[f]}
FilesCounted ==
  pc \in {"CheckVerificationResults", "RenameDamaged", "RenameComplete"} =>
    completefilecount = Cardinality(Right)
AvailableCounted ==
  BeforeVerify /\ pc \notin {"VerifySourceFiles", "VerifyExtraFiles"} =>
    availableblockcount = Cardinality({e \in Entry : IsSet(found, e)})

(* The last chunk makes the new targets right, and those are verified.     *)
Rebuilt ==
  /\ (pc = "ProcessData" /\ blockoffset >= Chunks) \/ pc = "VerifyTargetFiles" =>
       \A f \in verifylist : disk[f] = Original(f)
  /\ pc = "VerifyTargetFiles" => todo \subseteq verifylist

ControlTyped == renameonly \in BOOLEAN /\ blockoffset \in 0 .. Chunks

DInv == DiskIsData /\ FoundTrue /\ FilesCounted /\ AvailableCounted /\ Rebuilt /\ ControlTyped

-----------------------------------------------------------------------------
(* The set of the source files and the entries.                            *)

LEMMA FilesAreFinite == IsFiniteSet(File) /\ Cardinality(File) = Total /\ Total \in Nat
BY SourceFilesAreFinite DEF Total

LEMMA AllOfFile ==
  ASSUME NEW S \in SUBSET File, Cardinality(S) >= Total
  PROVE  S = File
<1>1. IsFiniteSet(File) /\ Cardinality(File) = Total /\ Total \in Nat
  BY FilesAreFinite
<1>2. Cardinality(S) <= Cardinality(File) /\ IsFiniteSet(S)
  BY <1>1, FS_Subset
<1>3. Cardinality(S) \in Nat
  BY <1>2, FS_CardinalityType
<1>4. Cardinality(S) = Cardinality(File)
  BY <1>1, <1>2, <1>3
<1> QED BY <1>1, <1>4, FS_Subset

-----------------------------------------------------------------------------
(* What was found stays true.                                              *)

LEMMA NothingIsFound ==
  ASSUME NEW contents
  PROVE  FoundIn(NothingFound, contents)
BY DEF FoundIn, PlacesTrue, CompleteTrue, NothingFound

LEMMA FoundGrows ==
  ASSUME NEW now, NEW contents, NEW more, FoundIn(now, contents),
         DOMAIN contents \subseteq DOMAIN more,
         \A id \in DOMAIN contents : more[id] = contents[id]
  PROVE  FoundIn(now, more)
<1>1. PlacesTrue(now.location, more)
  BY DEF FoundIn, PlacesTrue, IsAt
<1>2. CompleteTrue(now, more)
  BY DEF FoundIn, CompleteTrue
<1> QED BY <1>1, <1>2 DEF FoundIn

LEMMA ScanIsTrue ==
  ASSUME NEW before, NEW contents, FoundIn(before, contents),
         NEW diskfile \in DOMAIN contents, contents[diskfile] \in Seq(Data),
         \A id \in DOMAIN contents : \A n \in Nat : <<id, n>> # None,
         None \notin DOMAIN contents,
         NEW readable \in 0 .. Len(contents[diskfile]),
         NEW sourcefile \in File \union {None}, NEW workers, NEW onlyrenames \in BOOLEAN,
         NEW after,
         after = VerifyDataFile(before, diskfile, contents[diskfile], readable,
                                sourcefile, workers, onlyrenames)
  PROVE  FoundIn(after, contents)
<1> DEFINE content == contents[diskfile]
<1>1. before.complete \in [File -> DOMAIN contents \union {None}]
  BY DEF FoundIn, CompleteTrue
<1>2. before.location = [e \in Entry |-> before.location[e]]
  BY DEF FoundIn, PlacesTrue
<1>3. /\ Located(after.location, before.location, diskfile, content)
      /\ Completed(after, before, diskfile, content)
  BY <1>2, VerifyDataFileFinds
<1> DEFINE was == before.location
           is == after.location
<1>4. is = [e \in Entry |-> is[e]] /\ \A e \in Entry :
        \/ is[e] = was[e]
        \/ \E q \in 1 .. Len(content) : is[e] = <<diskfile, q>> /\ content[q] = BlockData[e]
  BY <1>3 DEF Located
<1>5. DOMAIN content = 1 .. Len(content)
  OBVIOUS
<1>6. PlacesTrue(was, contents)
  BY DEF FoundIn
<1>7. PlacesTrue(is, contents) /\ \A e \in Entry : was[e] # None => is[e] # None
  <2> HIDE DEF was, is
  <2> SUFFICES ASSUME NEW e \in Entry
               PROVE  /\ is[e] # None => IsAt(is[e], BlockData[e], contents)
                      /\ was[e] # None => is[e] # None
    BY <1>4 DEF PlacesTrue
  <2>1. CASE is[e] = was[e]
    BY <1>6, <2>1 DEF PlacesTrue
  <2>2. CASE is[e] # was[e]
    <3>1. PICK q \in 1 .. Len(content) : is[e] = <<diskfile, q>> /\ content[q] = BlockData[e]
      BY <1>4, <2>2
    <3>2. IsAt(is[e], BlockData[e], contents)
      BY <1>5, <3>1 DEF IsAt
    <3>3. is[e] # None
      BY <3>1
    <3> QED BY <3>2, <3>3
  <2> QED BY <2>1, <2>2
<1>8. CASE after.complete = before.complete
  BY <1>7, <1>8 DEF FoundIn, CompleteTrue
<1>9. CASE \E f \in File : /\ after.complete = [before.complete EXCEPT ![f] = diskfile]
                           /\ content = Original(f)
                           /\ InOrder(after.location, diskfile, f, BlockCount[f])
  <2>1. PICK f \in File : /\ after.complete = [before.complete EXCEPT ![f] = diskfile]
                          /\ content = Original(f)
                          /\ InOrder(after.location, diskfile, f, BlockCount[f])
    BY <1>9
  <2>2. \A e \in Entry : FileOf(e) = f => is[e] # None
    <3> SUFFICES ASSUME NEW e \in Entry, FileOf(e) = f PROVE is[e] # None
      OBVIOUS
    <3>1. e = <<f, e[2]>> /\ e[2] \in 1 .. BlockCount[f]
      BY EntryFacts DEF FileOf
    <3>2. BlockCount[f] \in Nat
      BY FilesAssumption
    <3> QED BY <2>1, <3>1, <3>2 DEF InOrder
  <2>3. CompleteTrue(after, contents)
    <3>1. after.complete \in [File -> DOMAIN contents \union {None}]
      BY <1>1, <2>1
    <3> SUFFICES ASSUME NEW g \in File, after.complete[g] # None
                 PROVE  /\ contents[after.complete[g]] = Original(g)
                        /\ \A e \in Entry : FileOf(e) = g => is[e] # None
      BY <3>1 DEF CompleteTrue
    <3>2. CASE g = f
      BY <1>1, <2>1, <2>2, <3>2
    <3>3. CASE g # f
      BY <1>1, <1>7, <2>1, <3>3 DEF FoundIn, CompleteTrue
    <3> QED BY <3>2, <3>3
  <2> QED BY <1>7, <2>3 DEF FoundIn
<1> QED BY <1>3, <1>8, <1>9 DEF Completed

-----------------------------------------------------------------------------
(* What the steps make of the data.                                        *)

LEMMA ObjectsArePlaces ==
  ASSUME NamesKnown, NEW ids \in SUBSET Objects
  PROVE  /\ DOMAIN Contents(ids) = ids /\ None \notin ids
         /\ \A id \in ids : \A n \in Nat : <<id, n>> # None
         /\ \A id \in ids : Contents(ids)[id] = disk[filename[id]]
BY ObjectsAreNotNone DEF NamesKnown, Contents

(* The scan of a file that is or becomes one of some known objects.        *)
LEMMA ScanFindsTrue ==
  ASSUME NEW before, NEW contents, FoundIn(before, contents),
         NEW diskfile \in DOMAIN contents, contents[diskfile] \in Seq(Data),
         \A id \in DOMAIN contents : \A n \in Nat : <<id, n>> # None, None \notin DOMAIN contents,
         NEW sourcefile \in File \union {None}, NEW onlyrenames \in BOOLEAN,
         Scan(before, diskfile, contents[diskfile], sourcefile, onlyrenames)
  PROVE  FoundIn(found', contents)
<1>1. PICK readable \in 0 .. Len(contents[diskfile]) : \E workers :
        found' = VerifyDataFile(before, diskfile, contents[diskfile], readable,
                                sourcefile, workers, onlyrenames)
  <2> DEFINE content == contents[diskfile]
  <2>1. Len(content) \in Nat
    OBVIOUS
  <2>2. 0 .. Len(content) - 1 \subseteq 0 .. Len(content) /\ Len(content) \in 0 .. Len(content)
    BY <2>1
  <2>3. Scan(before, diskfile, content, sourcefile, onlyrenames)
    OBVIOUS
  <2> HIDE DEF content
  <2>4. \E readable \in 0 .. Len(content) : \E workers :
          found' = VerifyDataFile(before, diskfile, content, readable, sourcefile, workers, onlyrenames)
    BY <2>2, <2>3 DEF Scan
  <2> QED BY <2>4 DEF content
<1> QED BY <1>1, ScanIsTrue

LEMMA OpenedFindsTrue ==
  ASSUME NamesKnown, FoundIn(found, Contents(OpenedObjects)), DiskIsData,
         NEW name \in DOMAIN disk, name \in Name, Opened(name) \notin Objects,
         disk' = disk, filename' = With(filename, Opened(name), name), NamesKnown',
         NEW sourcefile \in File \union {None}, NEW onlyrenames \in BOOLEAN,
         Scan(found, Opened(name), disk[name], sourcefile, onlyrenames)
  PROVE  FoundIn(found', Contents(OpenedObjects)')
<1>1. /\ Objects' = Objects \union {Opened(name)} /\ filename'[Opened(name)] = name
      /\ \A o \in Objects : filename'[o] = filename[o]
  BY DEF With, Objects
<1>2. OpenedObjects' = OpenedObjects \union {Opened(name)}
  BY <1>1 DEF OpenedObjects, Opened
<1> DEFINE now == Contents(OpenedObjects)'
<1>3. /\ DOMAIN now = OpenedObjects' /\ now[Opened(name)] = disk[name]
      /\ \A id \in OpenedObjects : now[id] = Contents(OpenedObjects)[id]
  BY <1>1, <1>2 DEF Contents, OpenedObjects
<1>4. DOMAIN Contents(OpenedObjects) = OpenedObjects
  BY DEF Contents
<1>5. None \notin DOMAIN now /\ \A id \in DOMAIN now : \A n \in Nat : <<id, n>> # None
  BY <1>3, ObjectsAreNotNone DEF NamesKnown, OpenedObjects
<1> HIDE DEF now
<1>6. FoundIn(found, now)
  BY <1>2, <1>3, <1>4, FoundGrows
<1>7. Opened(name) \in DOMAIN now /\ now[Opened(name)] \in Seq(Data)
  BY <1>2, <1>3 DEF DiskIsData
<1>8. Scan(found, Opened(name), now[Opened(name)], sourcefile, onlyrenames)
  BY <1>3
<1>9. FoundIn(found', now)
  BY <1>5, <1>6, <1>7, <1>8, ScanFindsTrue
<1> QED BY <1>9 DEF now

(* A rename keeps what is in the file of every object.                     *)
LEMMA RenamedContents ==
  ASSUME MapAgrees, NEW id \in Objects, NEW new, ~InsertFails(id, new),
         filename[id] \in DOMAIN disk, MoveFile(filename[id], new), RenameInMap(id, new)
  PROVE  /\ Objects' = Objects
         /\ \A o \in Objects : disk'[filename'[o]] = disk[filename[o]]
<1>1. /\ Objects' = Objects /\ filename'[id] = new
      /\ \A o \in Objects : o # id => filename'[o] = filename[o]
  BY DEF RenameInMap, Objects
<1>2. /\ disk'[new] = disk[filename[id]]
      /\ \A name \in DOMAIN disk \ {filename[id], new} : disk'[name] = disk[name]
  BY DEF MoveFile, With, Without, Restrict
<1>3. \A o \in Objects : o # id => filename[o] # filename[id] /\ filename[o] # new
  BY DEF MapAgrees, InsertFails, Without, Restrict
<1>4. \A o \in Objects : filename[o] \in DOMAIN disk
  BY DEF MapAgrees
<1> QED BY <1>1, <1>2, <1>3, <1>4

LEMMA SameContents ==
  ASSUME Objects' = Objects, \A o \in OpenedObjects : disk'[filename'[o]] = disk[filename[o]]
  PROVE  Contents(OpenedObjects)' = Contents(OpenedObjects)
BY DEF Contents, OpenedObjects

LEMMA MovedIsData ==
  ASSUME DiskIsData, NEW old \in DOMAIN disk, NEW new, MoveFile(old, new)
  PROVE  DiskIsData'
BY DEF DiskIsData, MoveFile, With, Without, Restrict

(* The counts are brought up to date.                                      *)
LEMMA CountsUpdated ==
  ASSUME NEW contents, FoundIn(found, contents), UpdateVerificationResults,
         found' = found, targetfile' = targetfile
  PROVE  /\ completefilecount' = Cardinality(Right')
         /\ availableblockcount' = Cardinality({e \in Entry : IsSet(found', e)})
<1>1. {e \in Entry : found.complete[FileOf(e)] # None \/ IsSet(found, e)}
        = {e \in Entry : IsSet(found', e)}
  BY EntryFacts DEF FoundIn, CompleteTrue, IsSet, FileOf
<1>2. Right' = {f \in File : found.complete[f] # None /\ found.complete[f] = targetfile[f]}
  BY DEF Right
<1> QED BY <1>1, <1>2 DEF UpdateVerificationResults

-----------------------------------------------------------------------------
(* Each action preserves the invariant.                                    *)

LEMMA DataInit == Init => DInv
<1> SUFFICES ASSUME Init PROVE DInv
  OBVIOUS
<1>1. DiskIsData
  BY StartsAssumption DEF Init, DiskIsData
<1>2. renameonly \in BOOLEAN /\ 0 \in 0 .. Chunks
  BY RepairAssumption DEF Init
<1> QED BY <1>1, <1>2, NothingIsFound DEF Init, DInv, FoundTrue, FilesCounted, AvailableCounted,
       Rebuilt, ControlTyped

LEMMA DataRerun == DInv /\ Rerun => DInv'
<1> SUFFICES ASSUME DInv, Rerun PROVE DInv'
  OBVIOUS
<1>1. DiskIsData'
  BY DEF Rerun, DInv, DiskIsData
<1>2. renameonly' \in BOOLEAN /\ 0 \in 0 .. Chunks
  BY RepairAssumption DEF Rerun
<1>3. found' = NothingFound /\ pc' = "VerifySourceFiles" /\ blockoffset' = 0
  BY DEF Rerun
<1>4. FoundTrue'
  BY <1>3, NothingIsFound DEF FoundTrue
<1> QED BY <1>1, <1>2, <1>3, <1>4 DEF DInv, FilesCounted, AvailableCounted, Rebuilt, ControlTyped

(* The end of a process, and what follows a success.                       *)
LEMMA DataEnd ==
  ASSUME DInv, pc' \in {"RemoveBackupFiles", "RemoveParFiles", "Finished"}, DiskIsData',
         renameonly' = renameonly, blockoffset' = blockoffset
  PROVE  DInv'
BY DEF DInv, FoundTrue, BeforeVerify, FilesCounted, AvailableCounted, Rebuilt, ControlTyped

LEMMA DataOpenTarget ==
  ASSUME OInv, DInv, OInv', NEW f \in File, OpenTarget(f)
  PROVE  DInv'
<1>1. /\ pc = "VerifySourceFiles" /\ pc' = pc /\ disk' = disk /\ f \in todo /\ BeforeVerify
      /\ verifylist' = verifylist /\ blockoffset' = blockoffset /\ renameonly' = renameonly
      /\ MapAgrees /\ AsOpened /\ NamesKnown /\ NamesKnown' /\ f \in Name
      /\ FoundIn(found, Contents(OpenedObjects)) /\ DiskIsData
  BY OInvFacts, ObjectsAreNotNone
     DEF OpenTarget, OInv, IInv, Running, DInv, FoundTrue, BeforeVerify, lists
<1>2. FoundIn(found', Contents(OpenedObjects)')
  <2>1. CASE UNCHANGED <<files, found>>
    BY <1>1, <2>1 DEF Contents, OpenedObjects, Objects, files
  <2>2. CASE /\ f \in DOMAIN disk /\ filename' = With(filename, Opened(f), f)
             /\ Scan(found, Opened(f), disk[f], f, FALSE)
    <3>1. Opened(f) \notin Objects /\ FALSE \in BOOLEAN
      BY <1>1 DEF AsOpened, MapAgrees, Opened
    <3> QED BY <1>1, <2>2, <3>1, OpenedFindsTrue
  <2> QED BY <2>1, <2>2 DEF OpenTarget
<1> QED BY <1>1, <1>2 DEF DInv, DiskIsData, FoundTrue, FilesCounted, AvailableCounted, Rebuilt, ControlTyped

LEMMA DataOpenExtra ==
  ASSUME OInv, DInv, OInv', NEW name \in todo, OpenExtra(name)
  PROVE  DInv'
<1>1. /\ pc = "VerifyExtraFiles" /\ pc' = pc /\ disk' = disk /\ BeforeVerify
      /\ verifylist' = verifylist /\ blockoffset' = blockoffset /\ renameonly' = renameonly
      /\ MapAgrees /\ AsOpened /\ NamesKnown /\ NamesKnown'
      /\ FoundIn(found, Contents(OpenedObjects)) /\ DiskIsData /\ renameonly \in BOOLEAN
  BY OInvFacts
     DEF OpenExtra, OInv, IInv, Running, DInv, FoundTrue, BeforeVerify, ControlTyped, command, lists
<1>2. FoundIn(found', Contents(OpenedObjects)')
  <2>1. CASE UNCHANGED <<files, found>>
    BY <1>1, <2>1 DEF Contents, OpenedObjects, Objects, files
  <2>2. CASE /\ name \notin DOMAIN diskFileMap /\ filename' = With(filename, Opened(name), name)
             /\ Scan(found, Opened(name), disk[name], None, renameonly)
    <3>1. Opened(name) \notin Objects /\ name \in DOMAIN disk /\ name \in Name
      BY <1>1, <2>2 DEF AsOpened, MapAgrees, Opened, NamesKnown
    <3> QED BY <1>1, <2>2, <3>1, OpenedFindsTrue
  <2> QED BY <2>1, <2>2 DEF OpenExtra
<1> QED BY <1>1, <1>2 DEF DInv, DiskIsData, FoundTrue, FilesCounted, AvailableCounted, Rebuilt, ControlTyped

(* A stage of verification ends, and everything is counted.                *)
LEMMA DataVerified ==
  ASSUME DInv, VerifiedSourceFiles \/ VerifiedExtraFiles
  PROVE  DInv'
<1>1. /\ BeforeVerify /\ UNCHANGED <<disk, files, targetfile, found, blockoffset, renameonly>>
      /\ UpdateVerificationResults
      /\ pc' \in {"Finished", "VerifyExtraFiles", "CheckVerificationResults"}
  BY DEF VerifiedSourceFiles, VerifiedExtraFiles, BeforeVerify, Finish, Enter, command
<1>2. Contents(OpenedObjects)' = Contents(OpenedObjects) /\ DiskIsData'
  BY <1>1 DEF Contents, OpenedObjects, Objects, files, DInv, DiskIsData
<1>3. FoundIn(found, Contents(OpenedObjects))
  BY <1>1 DEF DInv, FoundTrue
<1>4. /\ completefilecount' = Cardinality(Right')
      /\ availableblockcount' = Cardinality({e \in Entry : IsSet(found', e)})
  BY <1>1, <1>3, CountsUpdated
<1> QED BY <1>1, <1>2, <1>3, <1>4 DEF DInv, FoundTrue, FilesCounted, AvailableCounted, Rebuilt, ControlTyped

(* A stage of the repair begins.                                           *)
LEMMA DataStage ==
  ASSUME OInv, DInv,
         \/ CheckVerificationResults \/ RenamedDamaged \/ RenamedComplete \/ CreatedTargetFiles
         \/ ProcessedData
  PROVE  DInv'
<1>1. UNCHANGED <<disk, files, targetfile, found, blockoffset, renameonly, verifylist, counts>>
      /\ DiskIsData'
  BY DEF CheckVerificationResults, RenamedDamaged, RenamedComplete, CreatedTargetFiles, ProcessedData,
         Finish, Enter, Succeed, command, lists, DInv, DiskIsData
<1>2. /\ Contents(OpenedObjects)' = Contents(OpenedObjects) /\ Contents(Objects)' = Contents(Objects)
      /\ Right' = Right
  BY <1>1 DEF Contents, OpenedObjects, Objects, Right, files
<1>3. CASE pc' \in {"RemoveBackupFiles", "RemoveParFiles", "Finished"}
  BY <1>1, <1>3, DataEnd
<1>4. CASE ~ ProcessedData /\ pc' \notin {"RemoveBackupFiles", "RemoveParFiles", "Finished"}
  BY <1>1, <1>2, <1>4 DEF CheckVerificationResults, RenamedDamaged, RenamedComplete, CreatedTargetFiles,
     Finish, Enter, Succeed, DInv, FoundTrue, BeforeVerify, FilesCounted, AvailableCounted, Rebuilt,
     ControlTyped, counts
<1>5. CASE ProcessedData
  <2>1. /\ pc = "ProcessData" /\ pc' = "VerifyTargetFiles" /\ todo' = verifylist
        /\ blockoffset >= Chunks /\ NamesKnown
    BY <1>5, OInvFacts DEF ProcessedData, Enter
  <2>2. FoundIn(found, Contents(OpenedObjects))
    BY <2>1 DEF DInv, FoundTrue, BeforeVerify
  <2>3. FoundIn(found, Contents(Objects))
    <3>1. OpenedObjects \in SUBSET Objects /\ Objects \in SUBSET Objects
      BY DEF OpenedObjects
    <3> QED BY <2>1, <2>2, <3>1, ObjectsArePlaces, FoundGrows
  <2> QED BY <1>1, <1>2, <2>1, <2>3
       DEF DInv, FoundTrue, BeforeVerify, FilesCounted, AvailableCounted, Rebuilt, ControlTyped
<1> QED BY <1>3, <1>4, <1>5

(* The damaged targets are renamed, and were not counted as complete.      *)
LEMMA DataRenameDamaged == OInv /\ DInv /\ RenameDamaged => DInv'
<1> SUFFICES ASSUME OInv, DInv, RenameDamaged PROVE DInv'
  OBVIOUS
<1> DEFINE f == FirstOf({g \in File : Damaged(g)})
           id == targetfile[f]
           new == BackupName(f)
<1>1. f \in File /\ Damaged(f) /\ id \in Objects /\ filename[id] = f
  BY DamagedFacts
<1>2. /\ pc = "RenameDamaged" /\ MapAgrees /\ Known(targetfile) /\ DiskIsData /\ BeforeVerify
      /\ found' = found /\ renameonly' = renameonly /\ availableblockcount' = availableblockcount
      /\ FoundIn(found, Contents(OpenedObjects)) /\ completefilecount = Cardinality(Right)
  BY OInvFacts DEF RenameDamaged, DInv, FoundTrue, BeforeVerify, FilesCounted, command,
     RenameFailed, counts
<1>3. \/ pc' = "Finished" /\ blockoffset' = blockoffset
         /\ (disk' = disk \/ (f \in DOMAIN disk /\ MoveFile(f, new)))
      \/ /\ ~InsertFails(id, new) /\ f \in DOMAIN disk /\ MoveFile(f, new) /\ RenameInMap(id, new)
         /\ targetfile' = [targetfile EXCEPT ![f] = None] /\ pc' = pc /\ blockoffset' = blockoffset
         /\ completefilecount' = completefilecount
  BY <1>1 DEF RenameDamaged, RenameFailed, AssertFailed, Finish, control
<1>4. targetfile[f] # None /\ targetfile[f] # found.complete[f]
  BY <1>1 DEF Damaged
<1>5. id = targetfile[f]
  OBVIOUS
<1> HIDE DEF f, id, new
<1>6. DiskIsData'
  BY <1>2, <1>3, MovedIsData DEF DiskIsData
<1>7. CASE pc' = "Finished" /\ blockoffset' = blockoffset
  BY <1>2, <1>6, <1>7, DataEnd
<1>8. CASE /\ ~InsertFails(id, new) /\ f \in DOMAIN disk /\ MoveFile(f, new) /\ RenameInMap(id, new)
           /\ targetfile' = [targetfile EXCEPT ![f] = None] /\ pc' = pc /\ blockoffset' = blockoffset
           /\ completefilecount' = completefilecount
  <2>1. Contents(OpenedObjects)' = Contents(OpenedObjects)
    BY <1>1, <1>2, <1>8, RenamedContents, SameContents DEF OpenedObjects
  <2>2. Right' = Right
    BY <1>1, <1>2, <1>4, <1>8 DEF Right, Known
  <2> QED BY <1>2, <1>6, <1>8, <2>1, <2>2
       DEF DInv, FoundTrue, BeforeVerify, FilesCounted, AvailableCounted, Rebuilt, ControlTyped
<1> QED BY <1>3, <1>7, <1>8

(* A complete file that is renamed is counted, once.                       *)
LEMMA DataRenameComplete == OInv /\ DInv /\ RenameComplete => DInv'
<1> SUFFICES ASSUME OInv, DInv, RenameComplete PROVE DInv'
  OBVIOUS
<1> DEFINE f == FirstOf({g \in File : Misnamed(g)})
           id == found.complete[f]
<1>1. f \in File /\ targetfile[f] = None /\ id \in Objects /\ id # None
  BY MisnamedFacts DEF Misnamed
<1>2. /\ pc = "RenameComplete" /\ MapAgrees /\ Known(targetfile) /\ DiskIsData /\ BeforeVerify
      /\ found' = found /\ renameonly' = renameonly /\ availableblockcount' = availableblockcount
      /\ FoundIn(found, Contents(OpenedObjects)) /\ completefilecount = Cardinality(Right)
  BY OInvFacts DEF RenameComplete, DInv, FoundTrue, BeforeVerify, FilesCounted, command,
     RenameFailed, counts
<1>3. \/ pc' = "Finished" /\ blockoffset' = blockoffset
         /\ (disk' = disk \/ (filename[id] \in DOMAIN disk /\ MoveFile(filename[id], f)))
      \/ /\ ~InsertFails(id, f) /\ filename[id] \in DOMAIN disk
         /\ MoveFile(filename[id], f) /\ RenameInMap(id, f)
         /\ targetfile' = [targetfile EXCEPT ![f] = id] /\ pc' = pc /\ blockoffset' = blockoffset
         /\ completefilecount' = completefilecount + 1
  BY <1>1 DEF RenameComplete, RenameFailed, AssertFailed, Finish, control
<1>4. id = found.complete[f]
  OBVIOUS
<1> HIDE DEF f, id
<1>5. DiskIsData'
  BY <1>2, <1>3, MovedIsData DEF DiskIsData
<1>6. CASE pc' = "Finished" /\ blockoffset' = blockoffset
  BY <1>2, <1>5, <1>6, DataEnd
<1>7. CASE /\ ~InsertFails(id, f) /\ filename[id] \in DOMAIN disk
           /\ MoveFile(filename[id], f) /\ RenameInMap(id, f)
           /\ targetfile' = [targetfile EXCEPT ![f] = id] /\ pc' = pc /\ blockoffset' = blockoffset
           /\ completefilecount' = completefilecount + 1
  <2>1. Contents(OpenedObjects)' = Contents(OpenedObjects)
    BY <1>1, <1>2, <1>7, RenamedContents, SameContents DEF OpenedObjects
  <2>2. Right' = Right \union {f} /\ f \notin Right
    BY <1>1, <1>2, <1>4, <1>7 DEF Right, Known
  <2>3. IsFiniteSet(Right)
    BY FilesAreFinite, FS_Subset DEF Right
  <2>4. completefilecount' = Cardinality(Right')
    BY <1>2, <1>7, <2>2, <2>3, FS_AddElement
  <2> QED BY <1>2, <1>5, <1>7, <2>1, <2>4
       DEF DInv, FoundTrue, BeforeVerify, FilesCounted, AvailableCounted, Rebuilt, ControlTyped
<1> QED BY <1>3, <1>6, <1>7

LEMMA DataCreateTarget == OInv /\ DInv /\ CreateTarget => DInv'
<1> SUFFICES ASSUME OInv, DInv, CreateTarget PROVE DInv'
  OBVIOUS
<1> DEFINE f == FirstOf({g \in File : targetfile[g] = None})
<1>1. f \in File /\ targetfile[f] = None
  BY FirstOfIsOf DEF CreateTarget
<1>2. /\ pc = "CreateTargetFiles" /\ MapAgrees /\ DiskIsData /\ BeforeVerify
      /\ \A g \in File : Created(g) \in Objects => targetfile[g] # None
      /\ found' = found /\ renameonly' = renameonly /\ availableblockcount' = availableblockcount
      /\ FoundIn(found, Contents(OpenedObjects))
  BY OInvFacts DEF CreateTarget, OInv, IInv, Running, CreatedOnce, DInv, FoundTrue, BeforeVerify,
     command, counts
<1>3. \/ pc' = "Finished" /\ disk' = disk /\ blockoffset' = blockoffset
      \/ /\ f \notin DOMAIN disk /\ pc' = pc /\ blockoffset' = blockoffset
         /\ disk' = With(disk, f, [i \in 1 .. BlockCount[f] |-> Junk])
         /\ filename' = With(filename, Created(f), f)
  BY DEF CreateTarget, Finish, control, files
<1> HIDE DEF f
<1>4. CASE pc' = "Finished" /\ disk' = disk /\ blockoffset' = blockoffset
  BY <1>2, <1>4, DataEnd DEF DiskIsData
<1>5. CASE /\ f \notin DOMAIN disk /\ pc' = pc /\ blockoffset' = blockoffset
           /\ disk' = With(disk, f, [i \in 1 .. BlockCount[f] |-> Junk])
           /\ filename' = With(filename, Created(f), f)
  <2>1. Created(f) \notin Objects
    BY <1>1, <1>2
  <2>2. /\ Objects' = Objects \union {Created(f)}
        /\ \A o \in Objects : filename'[o] = filename[o]
    BY <1>5, <2>1 DEF With, Objects
  <2>3. \A name \in DOMAIN disk : disk'[name] = disk[name]
    BY <1>5 DEF With
  <2>4. OpenedObjects' = OpenedObjects
    BY <2>2 DEF OpenedObjects, Created
  <2>5. \A o \in OpenedObjects : disk'[filename'[o]] = disk[filename[o]]
    BY <1>2, <2>2, <2>3 DEF OpenedObjects, MapAgrees
  <2>6. Contents(OpenedObjects)' = Contents(OpenedObjects)
    BY <2>4, <2>5 DEF Contents
  <2>7. DiskIsData'
    <3>1. [i \in 1 .. BlockCount[f] |-> Junk] \in Seq(Data)
      BY <1>1, FilesAssumption DEF Data
    <3> QED BY <1>2, <1>5, <3>1 DEF DiskIsData, With
  <2> QED BY <1>2, <1>5, <2>6, <2>7
       DEF DInv, FoundTrue, BeforeVerify, FilesCounted, AvailableCounted, Rebuilt, ControlTyped
<1> QED BY <1>3, <1>4, <1>5

LEMMA DataDelete ==
  ASSUME DInv, DeleteIncompleteTargetFiles, renameonly' = renameonly
  PROVE  DInv'
<1>1. DiskIsData'
  BY DEF DInv, DiskIsData, DeleteIncompleteTargetFiles, Without, Restrict
<1>2. pc' = "Finished" /\ blockoffset' = blockoffset
  BY DEF DeleteIncompleteTargetFiles, Finish
<1> QED BY <1>1, <1>2, DataEnd

LEMMA DataComputeRSmatrix ==
  ASSUME DInv, ComputeRSmatrix
  PROVE  DInv'
<1>1. CASE DeleteIncompleteTargetFiles
  BY <1>1, DataDelete DEF ComputeRSmatrix, command
<1>2. CASE /\ pc' = "ProcessData" /\ blockoffset' = 0 /\ UNCHANGED <<disk, files, targetfile>>
  <2>1. /\ pc = "ComputeRSmatrix" /\ found' = found /\ availableblockcount' = availableblockcount
        /\ renameonly' = renameonly
    BY DEF ComputeRSmatrix, counts, command
  <2>2. Contents(OpenedObjects)' = Contents(OpenedObjects) /\ DiskIsData'
    BY <1>2 DEF Contents, OpenedObjects, Objects, files, DInv, DiskIsData
  <2>3. ~ (0 >= Chunks) /\ 0 \in 0 .. Chunks
    BY RepairAssumption
  <2> QED BY <1>2, <2>1, <2>2, <2>3
       DEF DInv, FoundTrue, BeforeVerify, FilesCounted, AvailableCounted, Rebuilt, ControlTyped
<1> QED BY <1>1, <1>2 DEF ComputeRSmatrix

(* What is read is the data of the blocks, and so is what is written.      *)
LEMMA RestoredIsRight ==
  ASSUME FoundIn(found, Contents(OpenedObjects)), NEW e \in Entry
  PROVE  Restored(e) = BlockData[e]
<1>1. \A in \in Entry : IsSet(found, in) => ReadData(in) = BlockData[in]
  BY DEF FoundIn, PlacesTrue, IsAt, IsSet, ReadData, Contents
<1> QED BY <1>1 DEF Restored, InputBlocks

LEMMA DataProcessData ==
  ASSUME OInv, DInv, ProcessData
  PROVE  DInv'
<1>1. /\ pc = "ProcessData" /\ VerifyListCreated /\ Working /\ MapAgrees /\ DiskIsData
      /\ FoundIn(found, Contents(OpenedObjects)) /\ BeforeVerify
      /\ found' = found /\ renameonly' = renameonly /\ availableblockcount' = availableblockcount
      /\ verifylist' = verifylist /\ blockoffset \in 0 .. Chunks /\ blockoffset < Chunks
      /\ Chunks \in Nat
  BY OInvFacts, RepairAssumption DEF ProcessData, OInv, Working, DInv, FoundTrue, BeforeVerify,
     ControlTyped, command, counts, lists
<1>2. CASE DeleteIncompleteTargetFiles
  BY <1>1, <1>2, DataDelete
<1>3. CASE /\ pc' = pc /\ UNCHANGED files /\ blockoffset' = blockoffset + 1
           /\ IF blockoffset' < Chunks THEN disk' = disk
              ELSE disk' = [name \in DOMAIN disk \union verifylist |->
                              IF name \in verifylist
                              THEN [i \in 1 .. BlockCount[name] |-> Restored(<<name, i>>)]
                              ELSE disk[name]]
  <2>1. blockoffset' \in 0 .. Chunks
    BY <1>1, <1>3
  <2>2. Objects' = Objects /\ OpenedObjects' = OpenedObjects /\ filename' = filename
    BY <1>3 DEF Objects, OpenedObjects, files
  <2>3. ASSUME NEW f \in verifylist
        PROVE  /\ [i \in 1 .. BlockCount[f] |-> Restored(<<f, i>>)] = Original(f)
               /\ Original(f) \in Seq(Data)
    <3>1. f \in File /\ BlockCount[f] \in Nat
      BY <1>1, FilesAssumption DEF VerifyListCreated, IsNewTarget
    <3>2. \A i \in 1 .. BlockCount[f] : <<f, i>> \in Entry
      BY <3>1, MakeEntry
    <3>3. \A i \in 1 .. BlockCount[f] : Restored(<<f, i>>) = BlockData[<<f, i>>]
      BY <1>1, <3>2, RestoredIsRight
    <3>4. Original(f) \in Seq(Data)
      BY <3>1, OriginalIsData
    <3> QED BY <3>3, <3>4 DEF Original
  <2>4. /\ blockoffset' < Chunks => disk' = disk
        /\ ~ (blockoffset' < Chunks) => \A f \in verifylist : disk'[f] = Original(f)
        /\ \A name \in DOMAIN disk \ verifylist : disk'[name] = disk[name]
        /\ DOMAIN disk' \subseteq DOMAIN disk \union verifylist
    BY <1>3, <2>3
  <2>5. DiskIsData'
    BY <1>1, <2>3, <2>4 DEF DiskIsData
  <2>6. \A o \in OpenedObjects : filename[o] \notin verifylist /\ filename[o] \in DOMAIN disk
    <3> SUFFICES ASSUME NEW o \in OpenedObjects, filename[o] \in verifylist PROVE FALSE
      BY <1>1 DEF MapAgrees, OpenedObjects
    <3>1. Created(filename[o]) \in Objects /\ filename[Created(filename[o])] = filename[o]
      BY <1>1 DEF VerifyListCreated, IsNewTarget
    <3>2. o = Created(filename[o])
      BY <1>1, <3>1 DEF MapAgrees, OpenedObjects
    <3> QED BY <3>2 DEF OpenedObjects, Created
  <2>7. Contents(OpenedObjects)' = Contents(OpenedObjects)
    BY <2>2, <2>4, <2>6 DEF Contents
  <2>8. blockoffset' >= Chunks => \A f \in verifylist' : disk'[f] = Original(f)
    BY <1>1, <2>1, <2>4
  <2> QED BY <1>1, <1>3, <2>1, <2>5, <2>7, <2>8
       DEF DInv, FoundTrue, BeforeVerify, FilesCounted, AvailableCounted, Rebuilt, ControlTyped
<1> QED BY <1>2, <1>3 DEF ProcessData, NextOffset

(* What is forgotten of a file is found again by the scan of it.           *)
LEMMA ForgottenIsTrue ==
  ASSUME NEW contents, FoundIn(found, contents), NEW f \in File
  PROVE  FoundIn(Forget(f), contents)
<1>1. PlacesTrue(Forget(f).location, contents)
  BY DEF Forget, FoundIn, PlacesTrue
<1>2. CompleteTrue(Forget(f), contents)
  <2>1. found.complete \in [File -> DOMAIN contents \union {None}]
    BY DEF FoundIn, CompleteTrue
  <2>2. /\ Forget(f).complete = [found.complete EXCEPT ![f] = None]
        /\ Forget(f).location = [e \in Entry |-> IF FileOf(e) = f THEN None ELSE found.location[e]]
    BY DEF Forget
  <2> QED BY <2>1, <2>2 DEF FoundIn, CompleteTrue
<1> QED BY <1>1, <1>2 DEF FoundIn

LEMMA DataVerifyTarget ==
  ASSUME OInv, DInv, NEW f \in File, VerifyTarget(f)
  PROVE  DInv'
<1>1. /\ pc = "VerifyTargetFiles" /\ pc' = pc /\ todo' = todo \ {f} /\ f \in todo
      /\ UNCHANGED <<disk, files, targetfile, verifylist, blockoffset, renameonly>>
      /\ VerifyListCreated /\ Working /\ MapAgrees /\ NamesKnown /\ DiskIsData
      /\ todo \subseteq verifylist /\ FoundIn(found, Contents(Objects))
  BY OInvFacts DEF VerifyTarget, OInv, Working, DInv, FoundTrue, Rebuilt, command, lists
<1>2. targetfile[f] \in Objects
  BY <1>1 DEF VerifyListCreated, IsNewTarget
<1> DEFINE contents == Contents(Objects)
<1>3. /\ DOMAIN contents = Objects /\ contents[targetfile[f]] = disk[filename[targetfile[f]]]
      /\ None \notin Objects /\ \A id \in Objects : \A n \in Nat : <<id, n>> # None
  BY <1>1, <1>2, ObjectsArePlaces
<1>4. disk[filename[targetfile[f]]] \in Seq(Data)
  BY <1>1, <1>2 DEF MapAgrees, DiskIsData
<1>5. FoundIn(Forget(f), contents)
  BY <1>1, ForgottenIsTrue
<1>6. contents' = contents
  BY <1>1 DEF Contents, Objects, files
<1>7. FoundIn(found', contents)
  <2>1. CASE found' = Forget(f)
    BY <1>5, <2>1
  <2>2. CASE Scan(Forget(f), targetfile[f], disk[filename[targetfile[f]]], f, FALSE)
    <3>1. FALSE \in BOOLEAN
      OBVIOUS
    <3> HIDE DEF contents
    <3> QED BY <1>2, <1>3, <1>4, <1>5, <2>2, <3>1, ScanFindsTrue
  <2> QED BY <2>1, <2>2 DEF VerifyTarget
<1> HIDE DEF contents
<1>8. FoundTrue'
  BY <1>1, <1>6, <1>7 DEF FoundTrue, BeforeVerify, contents
<1> QED BY <1>1, <1>8 DEF DInv, DiskIsData, FilesCounted, AvailableCounted, BeforeVerify, Rebuilt, ControlTyped

(* Verification of the targets ends, the purge, and a kill.                *)
LEMMA DataLeaving ==
  ASSUME DInv, VerifiedTargetFiles \/ RemoveBackupFiles \/ RemoveParFiles \/ Kill
  PROVE  DInv'
<1>1. CASE DeleteIncompleteTargetFiles /\ VerifiedTargetFiles
  BY <1>1, DataDelete DEF VerifiedTargetFiles, command
<1>2. CASE ~DeleteIncompleteTargetFiles \/ ~VerifiedTargetFiles
  <2>1. /\ pc' \in {"RemoveBackupFiles", "RemoveParFiles", "Finished"}
        /\ renameonly' = renameonly /\ blockoffset' = blockoffset
        /\ \A name \in DOMAIN disk' : name \in DOMAIN disk /\ disk'[name] = disk[name]
    BY <1>2 DEF VerifiedTargetFiles, RemoveBackupFiles, RemoveParFiles, Kill, Finish, Succeed,
       Without, Restrict, command
  <2>2. DiskIsData'
    BY <2>1 DEF DInv, DiskIsData
  <2> QED BY <2>1, <2>2, DataEnd
<1> QED BY <1>1, <1>2

LEMMA DataStutter == DInv /\ UNCHANGED vars => DInv'
BY DEF DInv, DiskIsData, FoundTrue, FilesCounted, AvailableCounted, Rebuilt, ControlTyped, Right,
       Contents, OpenedObjects, Objects, BeforeVerify, vars, files, lists, counts, control, command

LEMMA DataStep == OInv /\ DInv /\ [Next]_vars => DInv'
<1>1. OInv /\ [Next]_vars => OInv'
  BY ObjectsStep
<1> QED BY <1>1, DataOpenTarget, DataOpenExtra, DataVerified, DataStage, DataRenameDamaged,
     DataRenameComplete, DataCreateTarget, DataComputeRSmatrix, DataProcessData, DataVerifyTarget,
     DataLeaving, DataRerun, DataStutter DEF Next, Process

(* The invariant holds in every state.                                     *)
THEOREM DataInvariance == Spec => []DInv
BY DataInit, DataStep, ObjectsInvariance, PTL DEF Spec

LEMMA FoundAreThere ==
  ASSUME OInv, DInv
  PROVE  LocationsTrue
<1> SUFFICES ASSUME BeforeVerify, NEW e \in Entry, IsSet(found, e)
             PROVE  Readable(e) /\ ReadData(e) = BlockData[e]
  BY DEF LocationsTrue
<1>1. MapAgrees /\ FoundIn(found, Contents(OpenedObjects))
  BY OInvFacts DEF DInv, FoundTrue
<1> QED BY <1>1 DEF FoundIn, PlacesTrue, IsAt, IsSet, Readable, ReadData, Contents, OpenedObjects,
       MapAgrees

(* A block that was found is where it was found, until it has been read:   *)
(* under the name its file has by then, after the renames and while the    *)
(* new targets are made (RenameTargetFiles, ProcessData).                  *)
THEOREM LocationsStayTrue == Spec => []LocationsTrue
BY FoundAreThere, ObjectsInvariance, DataInvariance, PTL

(* The blocks counted as available are those with a location, the ones of  *)
(* complete files included (UpdateVerificationResults, ComputeRSmatrix).   *)
THEOREM BlocksAreCounted == Spec => []BlocksCounted
<1>1. DInv => BlocksCounted
  BY DEF DInv, AvailableCounted, BeforeVerify, BlocksCounted
<1> QED BY <1>1, DataInvariance, PTL

-----------------------------------------------------------------------------
(* Success is reported when every target is right, and a purge deletes no  *)
(* target: backups have other names, and no backup is the complete version *)
(* of another source file.  The finding of the run purge_misnamed shows     *)
(* that a target may be deleted when one is.                               *)

NamesApart == \A f, g \in File : \A k \in Nat : Append(f, k) # g

NoTwins == \A f, g \in File : f # g => Original(f) # Original(g)
NoneMisplaced(d) == \A f \in File \intersect DOMAIN d : \A g \in File \ {f} : d[f] # Original(g)

PurgeIsSafe ==
  \A s \in Starts : s.purgefiles => NamesApart /\ NoTwins /\ NoneMisplaced(s.disk)

BackupsAreApart ==
  /\ pc \in {"VerifySourceFiles", "VerifyExtraFiles", "CheckVerificationResults"} => backuplist = {}
  /\ Working \/ pc = "RemoveBackupFiles" =>
       \A id \in backuplist : id \in Objects /\ filename[id] \notin File
  /\ BeforeVerify => \A id \in backuplist : \A f \in File : found.complete[f] # id

PurgeInv ==
  purgefiles => NamesApart /\ NoTwins /\ NoneMisplaced(disk) /\ BackupsAreApart

SuccessInv ==
  /\ pc = "RemoveBackupFiles" => purgefiles
  /\ pc \in {"RemoveBackupFiles", "RemoveParFiles"} => result = "Success"
  /\ result = "Success" => ~Working /\ \A f \in File : Repaired(f)

LEMMA FewerAreNotMisplaced ==
  ASSUME NoneMisplaced(disk), \A name \in DOMAIN disk' : name \in DOMAIN disk /\ disk'[name] = disk[name]
  PROVE  NoneMisplaced(disk')
BY DEF NoneMisplaced

LEMMA JunkIsNoFile ==
  ASSUME NEW f \in File, NEW g \in File
  PROVE  [i \in 1 .. BlockCount[f] |-> Junk] # Original(g)
<1> DEFINE junk == [i \in 1 .. BlockCount[f] |-> Junk]
<1>1. 1 \in 1 .. BlockCount[f] /\ 1 \in 1 .. BlockCount[g]
  BY FilesAssumption
<1>2. junk[1] = Junk /\ Original(g)[1] = BlockData[<<g, 1>>]
  BY <1>1 DEF Original
<1>3. BlockData[<<g, 1>>] # Junk
  BY <1>1, MakeEntry, DataAssumption
<1> QED BY <1>2, <1>3

(* The steps that leave the names and the backups as they are.             *)
LEMMA PurgeUntouched ==
  ASSUME PurgeInv, UNCHANGED <<files, purgefiles, backuplist>>,
         \A name \in DOMAIN disk' : name \in DOMAIN disk /\ disk'[name] = disk[name],
         \/ pc' \in {"RemoveParFiles", "Finished"}
         \/ Working \/ pc = "RemoveBackupFiles",
         \/ pc' \notin {"VerifySourceFiles", "VerifyExtraFiles", "CheckVerificationResults"}
         \/ pc \in {"VerifySourceFiles", "VerifyExtraFiles", "CheckVerificationResults"},
         \/ pc \in {"VerifySourceFiles", "VerifyExtraFiles"}
         \/ found' = found /\ (BeforeVerify' => BeforeVerify)
         \/ ~BeforeVerify'
  PROVE  PurgeInv'
<1> SUFFICES ASSUME purgefiles
             PROVE  NoneMisplaced(disk') /\ BackupsAreApart'
  BY DEF PurgeInv
<1>1. NoneMisplaced(disk) /\ BackupsAreApart
  BY DEF PurgeInv
<1>2. BackupsAreApart'
  BY <1>1 DEF BackupsAreApart, Working, Objects, files
<1> QED BY <1>1, <1>2, FewerAreNotMisplaced

LEMMA PurgeRenameDamaged ==
  ASSUME OInv, DInv, PurgeInv, RenameDamaged
  PROVE  PurgeInv'
<1> SUFFICES ASSUME purgefiles
             PROVE  NoneMisplaced(disk') /\ BackupsAreApart'
  BY DEF PurgeInv, RenameDamaged, command
<1> DEFINE f == FirstOf({g \in File : Damaged(g)})
           id == targetfile[f]
           new == BackupName(f)
<1>1. /\ f \in File /\ Damaged(f) /\ id \in Objects /\ filename[id] = f
      /\ \E k \in Nat : BackupName(f) = Append(f, k)
  BY DamagedFacts
<1>2. NamesApart /\ NoTwins /\ NoneMisplaced(disk) /\ BackupsAreApart
  BY DEF PurgeInv
<1>3. new \notin File
  BY <1>1, <1>2 DEF NamesApart
<1>4. /\ pc = "RenameDamaged" /\ Working /\ BeforeVerify /\ found' = found
      /\ FoundIn(found, Contents(OpenedObjects))
  BY DEF RenameDamaged, DInv, FoundTrue, BeforeVerify, Working
<1>5. \/ pc' = "Finished" /\ (disk' = disk \/ (f \in DOMAIN disk /\ MoveFile(f, new)))
      \/ /\ f \in DOMAIN disk /\ MoveFile(f, new) /\ RenameInMap(id, new) /\ pc' = pc
         /\ backuplist' = backuplist \union {id}
  BY <1>1 DEF RenameDamaged, RenameFailed, AssertFailed, Finish, control
<1>6. targetfile[f] # None /\ targetfile[f] # found.complete[f] /\ id = targetfile[f]
  BY <1>1 DEF Damaged
<1> HIDE DEF f, id, new
<1>7. NoneMisplaced(disk')
  BY <1>2, <1>3, <1>5 DEF NoneMisplaced, MoveFile, With, Without, Restrict
<1>8. CASE pc' = "Finished"
  BY <1>7, <1>8 DEF BackupsAreApart, BeforeVerify, Working
<1>9. CASE /\ f \in DOMAIN disk /\ RenameInMap(id, new) /\ pc' = pc
           /\ backuplist' = backuplist \union {id}
  <2>1. /\ Objects' = Objects /\ filename'[id] = new
        /\ \A o \in Objects : o # id => filename'[o] = filename[o]
    BY <1>1, <1>9 DEF RenameInMap, Objects
  <2>2. \A g \in File : found.complete[g] # id
    <3> SUFFICES ASSUME NEW g \in File, found.complete[g] = id PROVE FALSE
      OBVIOUS
    <3>1. g # f
      BY <1>6
    <3>2. disk[f] = Original(g)
      BY <1>1, <1>4, <1>6 DEF FoundIn, CompleteTrue, Contents
    <3> QED BY <1>1, <1>2, <1>9, <3>1, <3>2 DEF NoneMisplaced
  <2>3. BackupsAreApart'
    BY <1>1, <1>2, <1>3, <1>4, <1>9, <2>1, <2>2 DEF BackupsAreApart, BeforeVerify, Working
  <2> QED BY <1>7, <2>3
<1> QED BY <1>5, <1>8, <1>9

LEMMA PurgeRenameComplete ==
  ASSUME OInv, DInv, PurgeInv, RenameComplete
  PROVE  PurgeInv'
<1> SUFFICES ASSUME purgefiles
             PROVE  NoneMisplaced(disk') /\ BackupsAreApart'
  BY DEF PurgeInv, RenameComplete, command
<1> DEFINE f == FirstOf({g \in File : Misnamed(g)})
           id == found.complete[f]
<1>1. f \in File /\ id \in Objects /\ id # None
  BY MisnamedFacts DEF Misnamed
<1>2. NoTwins /\ NoneMisplaced(disk) /\ BackupsAreApart
  BY DEF PurgeInv
<1>3. /\ pc = "RenameComplete" /\ Working /\ BeforeVerify /\ found' = found
      /\ FoundIn(found, Contents(OpenedObjects))
      /\ pc' = "Finished" \/ backuplist' = backuplist
  BY DEF RenameComplete, RenameFailed, DInv, FoundTrue, BeforeVerify, Working, lists, Finish, AssertFailed
<1>4. \/ pc' = "Finished" /\ (disk' = disk \/ (filename[id] \in DOMAIN disk /\ MoveFile(filename[id], f)))
      \/ /\ filename[id] \in DOMAIN disk /\ MoveFile(filename[id], f) /\ RenameInMap(id, f) /\ pc' = pc
  BY DEF RenameComplete, RenameFailed, AssertFailed, Finish, control
<1>5. disk[filename[id]] = Original(f)
  BY <1>1, <1>3 DEF FoundIn, CompleteTrue, Contents
<1>6. \A b \in backuplist : b # id
  BY <1>1, <1>2, <1>3 DEF BackupsAreApart
<1> HIDE DEF f, id
<1>7. NoneMisplaced(disk')
  <2>1. CASE disk' = disk
    BY <1>2, <2>1
  <2>2. CASE MoveFile(filename[id], f) /\ filename[id] \in DOMAIN disk
    <3>1. /\ disk'[f] = Original(f)
          /\ \A name \in DOMAIN disk' \ {f} : name \in DOMAIN disk /\ disk'[name] = disk[name]
      BY <1>5, <2>2 DEF MoveFile, With, Without, Restrict
    <3> QED BY <1>1, <1>2, <3>1 DEF NoneMisplaced, NoTwins
  <2> QED BY <1>4, <2>1, <2>2
<1>8. CASE pc' = "Finished"
  BY <1>7, <1>8 DEF BackupsAreApart, BeforeVerify, Working
<1>9. CASE RenameInMap(id, f) /\ pc' = pc
  <2>1. /\ Objects' = Objects
        /\ \A o \in Objects : o # id => filename'[o] = filename[o]
    BY <1>1, <1>9 DEF RenameInMap, Objects
  <2>2. pc' # "Finished" /\ backuplist' = backuplist
    BY <1>3, <1>9
  <2>3. BackupsAreApart'
    BY <1>2, <1>3, <1>6, <1>9, <2>1, <2>2 DEF BackupsAreApart, BeforeVerify, Working
  <2> QED BY <1>7, <2>3
<1> QED BY <1>4, <1>8, <1>9

LEMMA PurgeCreateTarget ==
  ASSUME OInv, PurgeInv, CreateTarget
  PROVE  PurgeInv'
<1> SUFFICES ASSUME purgefiles
             PROVE  NoneMisplaced(disk') /\ BackupsAreApart'
  BY DEF PurgeInv, CreateTarget, command
<1> DEFINE f == FirstOf({g \in File : targetfile[g] = None})
<1>1. f \in File /\ targetfile[f] = None
  BY FirstOfIsOf DEF CreateTarget
<1>2. /\ pc = "CreateTargetFiles" /\ Working /\ BeforeVerify /\ found' = found /\ backuplist' = backuplist
      /\ \A g \in File : Created(g) \in Objects => targetfile[g] # None
      /\ NoneMisplaced(disk) /\ BackupsAreApart
  BY DEF CreateTarget, OInv, IInv, Running, CreatedOnce, BeforeVerify, Working, PurgeInv
<1>3. \/ pc' = "Finished" /\ disk' = disk
      \/ /\ pc' = pc /\ disk' = With(disk, f, [i \in 1 .. BlockCount[f] |-> Junk])
         /\ filename' = With(filename, Created(f), f)
  BY DEF CreateTarget, Finish, control, files
<1> HIDE DEF f
<1>4. NoneMisplaced(disk')
  BY <1>1, <1>2, <1>3, JunkIsNoFile DEF NoneMisplaced, With
<1>5. CASE pc' = "Finished"
  BY <1>4, <1>5 DEF BackupsAreApart, BeforeVerify, Working
<1>6. CASE pc' = pc /\ filename' = With(filename, Created(f), f)
  <2>1. Created(f) \notin Objects
    BY <1>1, <1>2
  <2>2. /\ Objects' = Objects \union {Created(f)}
        /\ \A o \in Objects : filename'[o] = filename[o]
    BY <1>6, <2>1 DEF With, Objects
  <2>3. BackupsAreApart'
    BY <1>2, <1>6, <2>2 DEF BackupsAreApart, BeforeVerify, Working
  <2> QED BY <1>4, <2>3
<1> QED BY <1>3, <1>5, <1>6

LEMMA PurgeProcessData ==
  ASSUME OInv, DInv, OInv', DInv', PurgeInv, ProcessData
  PROVE  PurgeInv'
<1> SUFFICES ASSUME purgefiles
             PROVE  NoneMisplaced(disk') /\ BackupsAreApart'
  BY DEF PurgeInv, ProcessData, command
<1>1. /\ pc = "ProcessData" /\ Working /\ BeforeVerify /\ found' = found /\ backuplist' = backuplist
      /\ NoneMisplaced(disk) /\ BackupsAreApart /\ NoTwins /\ VerifyListCreated
  BY DEF ProcessData, BeforeVerify, Working, PurgeInv, OInv, lists
<1>2. CASE DeleteIncompleteTargetFiles
  <2>1. /\ pc' = "Finished"
        /\ \A name \in DOMAIN disk' : name \in DOMAIN disk /\ disk'[name] = disk[name]
    BY <1>2 DEF DeleteIncompleteTargetFiles, Finish, Without, Restrict
  <2> QED BY <1>1, <2>1, FewerAreNotMisplaced DEF BackupsAreApart, BeforeVerify, Working
<1>3. CASE ~DeleteIncompleteTargetFiles
  <2>1. /\ pc' = pc /\ UNCHANGED files /\ verifylist' = verifylist
        /\ disk' = disk \/ /\ ~ (blockoffset' < Chunks)
                           /\ \A name \in DOMAIN disk' \ verifylist : name \in DOMAIN disk /\ disk'[name] = disk[name]
    BY <1>3 DEF ProcessData, lists
  <2>2. ~ (blockoffset' < Chunks) => \A f \in verifylist : disk'[f] = Original(f)
    <3>1. blockoffset' \in 0 .. Chunks /\ Chunks \in Nat
      BY RepairAssumption DEF DInv, ControlTyped
    <3> QED BY <1>1, <2>1, <3>1 DEF DInv, Rebuilt
  <2>3. verifylist \subseteq File
    BY <1>1 DEF VerifyListCreated, IsNewTarget
  <2>4. NoneMisplaced(disk')
    BY <1>1, <2>1, <2>2, <2>3 DEF NoneMisplaced, NoTwins
  <2> QED BY <1>1, <2>1, <2>4 DEF BackupsAreApart, BeforeVerify, Working, Objects, files
<1> QED BY <1>2, <1>3

LEMMA PurgeRest ==
  ASSUME PurgeInv,
         \/ \E f \in File : OpenTarget(f) \/ VerifyTarget(f)
         \/ \E name \in todo : OpenExtra(name)
         \/ VerifiedSourceFiles \/ VerifiedExtraFiles \/ CheckVerificationResults
         \/ RenamedDamaged \/ RenamedComplete \/ CreatedTargetFiles \/ ComputeRSmatrix
         \/ ProcessedData \/ VerifiedTargetFiles \/ RemoveBackupFiles \/ RemoveParFiles \/ Kill
  PROVE  PurgeInv'
<1>1. CASE DeleteIncompleteTargetFiles /\ (ComputeRSmatrix \/ VerifiedTargetFiles)
  <2>1. /\ pc' = "Finished" /\ purgefiles' = purgefiles
        /\ \A name \in DOMAIN disk' : name \in DOMAIN disk /\ disk'[name] = disk[name]
    BY <1>1 DEF DeleteIncompleteTargetFiles, Finish, Without, Restrict, ComputeRSmatrix,
       VerifiedTargetFiles, command
  <2> QED BY <2>1, FewerAreNotMisplaced DEF PurgeInv, BackupsAreApart, BeforeVerify, Working
<1>2. CASE \/ ComputeRSmatrix /\ ~DeleteIncompleteTargetFiles
           \/ VerifiedTargetFiles /\ ~DeleteIncompleteTargetFiles
  <2>1. /\ UNCHANGED <<disk, files, purgefiles, backuplist, found>> /\ pc \in {"ComputeRSmatrix", "VerifyTargetFiles"}
        /\ pc' \in {"ProcessData", "RemoveBackupFiles", "Finished"}
        /\ pc = "VerifyTargetFiles" => pc' # "ProcessData"
    BY <1>2 DEF ComputeRSmatrix, VerifiedTargetFiles, Finish, Succeed, command, lists
  <2> QED BY <2>1, PurgeUntouched DEF Working, BeforeVerify
<1>3. CASE \E name \in todo : OpenExtra(name)
  BY <1>3 DEF OpenExtra, PurgeInv, BackupsAreApart, NoneMisplaced, Working, BeforeVerify, command, lists
<1>4. CASE \E f \in File : OpenTarget(f) \/ VerifyTarget(f)
  BY <1>4 DEF OpenTarget, VerifyTarget, PurgeInv, BackupsAreApart, NoneMisplaced, Working, BeforeVerify,
     Objects, command, lists, files
<1>5. CASE \/ VerifiedSourceFiles \/ VerifiedExtraFiles \/ CheckVerificationResults
           \/ RenamedDamaged \/ RenamedComplete \/ CreatedTargetFiles \/ ProcessedData
  <2>1. UNCHANGED <<disk, files, purgefiles, backuplist, found>>
    BY <1>5 DEF VerifiedSourceFiles, VerifiedExtraFiles, CheckVerificationResults, RenamedDamaged,
       RenamedComplete, CreatedTargetFiles, ProcessedData, Succeed, command, lists
  <2>2. Working /\ (BeforeVerify' => BeforeVerify)
    BY <1>5 DEF VerifiedSourceFiles, VerifiedExtraFiles, CheckVerificationResults, RenamedDamaged,
       RenamedComplete, CreatedTargetFiles, ProcessedData, Working, BeforeVerify
  <2>3. \/ pc' \notin {"VerifySourceFiles", "VerifyExtraFiles", "CheckVerificationResults"}
        \/ pc \in {"VerifySourceFiles", "VerifyExtraFiles", "CheckVerificationResults"}
    BY <1>5 DEF VerifiedSourceFiles, VerifiedExtraFiles, CheckVerificationResults, RenamedDamaged,
       RenamedComplete, CreatedTargetFiles, ProcessedData, Enter, Finish, Succeed
  <2> QED BY <2>1, <2>2, <2>3, PurgeUntouched
<1>6. CASE RemoveBackupFiles \/ RemoveParFiles \/ Kill
  <2>1. /\ UNCHANGED <<files, purgefiles, backuplist, found>> /\ pc' \in {"RemoveParFiles", "Finished"}
        /\ \A name \in DOMAIN disk' : name \in DOMAIN disk /\ disk'[name] = disk[name]
    BY <1>6 DEF RemoveBackupFiles, RemoveParFiles, Kill, Finish, Without, Restrict, command, lists
  <2> QED BY <2>1, PurgeUntouched DEF BeforeVerify
<1> QED BY <1>1, <1>2, <1>3, <1>4, <1>5, <1>6

LEMMA PurgeInit == ASSUME PurgeIsSafe PROVE Init => PurgeInv /\ SuccessInv
<1> SUFFICES ASSUME Init PROVE PurgeInv /\ SuccessInv
  OBVIOUS
<1>1. \E s \in Starts : disk = s.disk /\ purgefiles = s.purgefiles
  BY DEF Init
<1>2. purgefiles => NamesApart /\ NoTwins /\ NoneMisplaced(disk)
  BY <1>1 DEF PurgeIsSafe
<1>3. backuplist = {} /\ pc = "VerifySourceFiles" /\ result = None
  BY DEF Init
<1> QED BY <1>2, <1>3, NoneAssumption DEF PurgeInv, BackupsAreApart, SuccessInv

LEMMA PurgeStep == OInv /\ DInv /\ PurgeInv /\ [Next]_vars => PurgeInv'
<1> SUFFICES ASSUME OInv, DInv, PurgeInv, [Next]_vars PROVE PurgeInv'
  OBVIOUS
<1>1. OInv' /\ DInv'
  BY ObjectsStep, DataStep
<1>2. CASE Rerun
  BY <1>2 DEF Rerun, PurgeInv, BackupsAreApart
<1>3. CASE UNCHANGED vars
  BY <1>3 DEF PurgeInv, BackupsAreApart, NoneMisplaced, Working, BeforeVerify, Objects, vars, files,
     lists, control, command
<1>4. CASE Process \/ Kill
  BY <1>1, <1>4, PurgeRenameDamaged, PurgeRenameComplete, PurgeCreateTarget, PurgeProcessData, PurgeRest
     DEF Process
<1> QED BY <1>2, <1>3, <1>4 DEF Next

(* When as many files are complete as there are, every target is right.    *)
LEMMA AllAreRepaired ==
  ASSUME OInv, Working, NEW ids \in SUBSET Objects, FoundIn(found, Contents(ids)),
         Cardinality(Right) >= Total
  PROVE  \A f \in File : Repaired(f)
<1>1. Right = File
  BY AllOfFile DEF Right
<1> SUFFICES ASSUME NEW f \in File PROVE Repaired(f)
  OBVIOUS
<1>2. targetfile[f] # None /\ found.complete[f] = targetfile[f]
  BY <1>1 DEF Right
<1>3. targetfile[f] \in Objects /\ filename[targetfile[f]] = f /\ MapAgrees
  BY <1>2, OInvFacts DEF OInv, TargetsNamed
<1>4. f \in DOMAIN disk
  BY <1>3 DEF MapAgrees
<1>5. disk[f] = Original(f)
  BY <1>2, <1>3 DEF FoundIn, CompleteTrue, Contents
<1> QED BY <1>4, <1>5 DEF Repaired

LEMMA NoSuccess ==
  ASSUME SuccessInv, pc' \notin {"RemoveBackupFiles", "RemoveParFiles"}, result' # "Success"
  PROVE  SuccessInv'
BY DEF SuccessInv

LEMMA RepairedSame ==
  ASSUME SuccessInv, Working, disk' = disk, \A f \in File : Repaired(f), purgefiles' = purgefiles, Succeed
  PROVE  SuccessInv'
BY DEF SuccessInv, Succeed, Repaired, Working

(* Success follows from the counts, and is kept through the purge.         *)
LEMMA SuccessCounted ==
  ASSUME OInv, DInv, SuccessInv,
         CheckVerificationResults \/ RenamedComplete \/ VerifiedTargetFiles
  PROVE  SuccessInv'
<1>1. /\ pc \in {"CheckVerificationResults", "RenameComplete", "VerifyTargetFiles"} /\ Working
      /\ UNCHANGED <<purgefiles, found>> /\ result # "Success"
  BY DEF CheckVerificationResults, RenamedComplete, VerifiedTargetFiles, Working, SuccessInv, command
<1>2. Total \in Nat /\ Cardinality(Right) \in Nat
  BY FilesAreFinite, FS_Subset, FS_CardinalityType DEF Right
<1>3. OpenedObjects \in SUBSET Objects /\ Objects \in SUBSET Objects
  BY DEF OpenedObjects
<1>4. CASE CheckVerificationResults \/ RenamedComplete
  <2>1. \/ Succeed /\ ~Incomplete
        \/ pc' \notin {"RemoveBackupFiles", "RemoveParFiles"} /\ result' # "Success"
    BY <1>1, <1>4 DEF CheckVerificationResults, RenamedComplete, Enter, Finish
  <2>2. ASSUME ~Incomplete PROVE \A f \in File : Repaired(f)
    <3>1. completefilecount = Cardinality(Right) /\ FoundIn(found, Contents(OpenedObjects))
      BY <1>4 DEF CheckVerificationResults, RenamedComplete, DInv, FilesCounted, FoundTrue, BeforeVerify
    <3>2. Cardinality(Right) >= Total
      BY <1>2, <2>2, <3>1 DEF Incomplete
    <3> QED BY <1>1, <1>3, <3>1, <3>2, AllAreRepaired
  <2>3. disk' = disk
    BY <1>4 DEF CheckVerificationResults, RenamedComplete
  <2> QED BY <1>1, <2>1, <2>2, <2>3, NoSuccess, RepairedSame
<1>5. CASE VerifiedTargetFiles
  <2>1. \/ Succeed /\ ~ (completefilecount' < Total) /\ disk' = disk /\ targetfile' = targetfile
        \/ pc' = "Finished" /\ result' # "Success"
    BY <1>5 DEF VerifiedTargetFiles, DeleteIncompleteTargetFiles, Finish
  <2>2. ASSUME ~ (completefilecount' < Total), targetfile' = targetfile
        PROVE  \A f \in File : Repaired(f)
    <3>1. FoundIn(found, Contents(Objects)) /\ UpdateVerificationResults
      BY <1>5 DEF VerifiedTargetFiles, DInv, FoundTrue
    <3>2. completefilecount' = Cardinality(Right') /\ Right' = Right
      BY <1>1, <2>2, <3>1, CountsUpdated DEF Right
    <3>3. Cardinality(Right) >= Total
      BY <1>2, <2>2, <3>2
    <3> QED BY <1>1, <1>3, <3>1, <3>3, AllAreRepaired
  <2> QED BY <1>1, <2>1, <2>2, NoSuccess, RepairedSame
<1> QED BY <1>4, <1>5

LEMMA SuccessStep == OInv /\ DInv /\ PurgeInv /\ SuccessInv /\ [Next]_vars => SuccessInv'
<1> SUFFICES ASSUME OInv, DInv, PurgeInv, SuccessInv, [Next]_vars PROVE SuccessInv'
  OBVIOUS
<1>1. CASE CheckVerificationResults \/ RenamedComplete \/ VerifiedTargetFiles
  BY <1>1, SuccessCounted
<1>2. CASE RemoveBackupFiles
  <2>1. /\ purgefiles /\ result' = result /\ pc' = "RemoveParFiles"
        /\ \A f \in File : Repaired(f)
    BY <1>2 DEF RemoveBackupFiles, SuccessInv
  <2>2. \A id \in backuplist : filename[id] \notin File
    BY <1>2, <2>1 DEF RemoveBackupFiles, PurgeInv, BackupsAreApart
  <2>3. \A f \in File : f \in DOMAIN disk => f \in DOMAIN disk' /\ disk'[f] = disk[f]
    BY <1>2, <2>2 DEF RemoveBackupFiles, Without, Restrict
  <2> QED BY <1>2, <2>1, <2>3 DEF SuccessInv, Repaired, Working, RemoveBackupFiles
<1>3. CASE RemoveParFiles
  BY <1>3 DEF RemoveParFiles, SuccessInv, Repaired, Working
<1>4. CASE Kill \/ Rerun
  BY <1>4, NoSuccess, NoneAssumption DEF Kill, Rerun, Finish
<1>5. CASE UNCHANGED vars
  BY <1>5 DEF SuccessInv, Repaired, Working, vars, control, command
<1>6. CASE \/ \E f \in File : OpenTarget(f) \/ VerifyTarget(f)
           \/ \E name \in todo : OpenExtra(name)
           \/ VerifiedSourceFiles \/ VerifiedExtraFiles \/ RenameDamaged \/ RenamedDamaged \/ RenameComplete
           \/ CreateTarget \/ CreatedTargetFiles \/ ComputeRSmatrix \/ ProcessData \/ ProcessedData
  <2>1. Working
    BY <1>6 DEF OpenTarget, VerifyTarget, OpenExtra, VerifiedSourceFiles, VerifiedExtraFiles,
       RenameDamaged, RenamedDamaged, RenameComplete, CreateTarget, CreatedTargetFiles, ComputeRSmatrix,
       ProcessData, ProcessedData, Working
  <2>2. result # "Success"
    BY <2>1 DEF SuccessInv
  <2>3. \/ pc' = pc /\ result' = result
        \/ pc' \notin {"RemoveBackupFiles", "RemoveParFiles"} /\ (result' = result \/ result' # "Success")
    BY <1>6 DEF OpenTarget, VerifyTarget, OpenExtra, VerifiedSourceFiles, VerifiedExtraFiles,
       RenameDamaged, RenamedDamaged, RenameComplete, RenameFailed, AssertFailed, CreateTarget,
       CreatedTargetFiles, ComputeRSmatrix, ProcessData, ProcessedData, DeleteIncompleteTargetFiles,
       Enter, Finish, control
  <2> QED BY <2>1, <2>2, <2>3, NoSuccess DEF Working
<1> QED BY <1>1, <1>2, <1>3, <1>4, <1>5, <1>6 DEF Next, Process

THEOREM SuccessInvariance == ASSUME PurgeIsSafe PROVE Spec => [](PurgeInv /\ SuccessInv)
BY PurgeInit, PurgeStep, SuccessStep, ObjectsInvariance, DataInvariance, PTL DEF Spec

(* Success is reported only when every target has its data, and the purge  *)
(* leaves it there, for any disk and whatever fails (Process,              *)
(* RemoveBackupFiles).                                                     *)
THEOREM SuccessIsRepaired == ASSUME PurgeIsSafe PROVE Spec => []SuccessMeansRepaired
<1>1. SuccessInv => SuccessMeansRepaired
  BY DEF SuccessInv, SuccessMeansRepaired
<1> QED BY <1>1, SuccessInvariance, PTL


-----------------------------------------------------------------------------
(* Types.                                                                  *)

Referred ==
  /\ \A name \in DOMAIN diskFileMap : diskFileMap[name] \in Objects
  /\ targetfile \in [File -> Objects \union {None}]
  /\ verifylist \subseteq File /\ backuplist \subseteq OpenedObjects

Counted == completefilecount \in 0 .. Total /\ availableblockcount \in 0 .. SourceBlockCount

Bounded ==
  /\ parfiles \in BOOLEAN /\ dorepair \in BOOLEAN /\ purgefiles \in BOOLEAN
  /\ renameonly \in BOOLEAN /\ finalresult \in BOOLEAN /\ faulted \in BOOLEAN
  /\ faults \in 0 .. MaxFaults /\ runs \in 1 .. MaxRuns

LEMMA TypesInit == Init => Referred /\ Counted /\ Bounded
<1> SUFFICES ASSUME Init PROVE Referred /\ Counted /\ Bounded
  OBVIOUS
<1>1. Total \in Nat /\ SourceBlockCount \in Nat
  BY FilesAreFinite, EntriesAreFinite, FS_CardinalityType DEF SourceBlockCount
<1>2. Counted
  BY <1>1 DEF Init, Counted
<1>3. Bounded
  <2>1. faults \in 0 .. MaxFaults /\ runs \in 1 .. MaxRuns
    BY RepairAssumption DEF Init
  <2>2. purgefiles \in BOOLEAN
    BY StartsAssumption DEF Init
  <2>3. parfiles \in BOOLEAN /\ finalresult \in BOOLEAN /\ faulted \in BOOLEAN
    BY Zenon DEF Init
  <2>4. dorepair \in BOOLEAN /\ renameonly \in BOOLEAN
    BY RepairAssumption DEF Init
  <2> QED BY <2>1, <2>2, <2>3, <2>4 DEF Bounded
<1> QED BY <1>2, <1>3 DEF Init, Referred, NoTarget, Objects

LEMMA TypesRerun == Rerun /\ Bounded => Referred' /\ Counted' /\ Bounded'
<1> SUFFICES ASSUME Rerun, Bounded PROVE Referred' /\ Counted' /\ Bounded'
  OBVIOUS
<1>1. Total \in Nat /\ SourceBlockCount \in Nat
  BY FilesAreFinite, EntriesAreFinite, FS_CardinalityType DEF SourceBlockCount
<1>2. Counted'
  BY <1>1 DEF Rerun, Counted, Total, SourceBlockCount
<1>3. Bounded'
  <2>1. faults' \in 0 .. MaxFaults /\ runs' \in 1 .. MaxRuns
    BY RepairAssumption DEF Rerun, Bounded
  <2>2. purgefiles' \in BOOLEAN /\ parfiles' \in BOOLEAN
    BY Zenon DEF Rerun, Bounded
  <2>3. finalresult' \in BOOLEAN /\ faulted' \in BOOLEAN
    BY Zenon DEF Rerun
  <2>4. dorepair' \in BOOLEAN /\ renameonly' \in BOOLEAN
    BY RepairAssumption DEF Rerun
  <2> QED BY <2>1, <2>2, <2>3, <2>4 DEF Bounded
<1> QED BY <1>2, <1>3 DEF Rerun, Referred, NoTarget, Objects

(* The objects that are referred to are known ones.                        *)
LEMMA ReferredUntouched ==
  ASSUME Referred, UNCHANGED <<files, targetfile, lists>>
  PROVE  Referred'
BY DEF Referred, Objects, OpenedObjects, files, lists

LEMMA ReferredOpened ==
  ASSUME Referred, NEW name, filename' = With(filename, Opened(name), name), UNCHANGED lists,
         diskFileMap' = With(diskFileMap, name, Opened(name)),
         \/ targetfile' = targetfile
         \/ name \in File /\ targetfile' = [targetfile EXCEPT ![name] = Opened(name)]
  PROVE  Referred'
BY DEF Referred, Objects, OpenedObjects, With, lists

LEMMA ReferredDeleted ==
  ASSUME OInv, Working, Referred, DeleteIncompleteTargetFiles, UNCHANGED lists
  PROVE  Referred'
<1> DEFINE incomplete == {f \in verifylist : targetfile[f] # None}
           deleted == {targetfile[f] : f \in incomplete}
           names == {filename[id] : id \in deleted}
<1>1. MapAgrees /\ TargetsNamed /\ VerifyListCreated
  BY OInvFacts DEF OInv
<1>2. /\ Objects' = Objects \ deleted /\ DOMAIN diskFileMap' = DOMAIN diskFileMap \ names
      /\ \A name \in DOMAIN diskFileMap' : diskFileMap'[name] = diskFileMap[name]
      /\ targetfile' = [f \in File |-> IF f \in incomplete THEN None ELSE targetfile[f]]
  BY DEF DeleteIncompleteTargetFiles, Without, Restrict, Objects
<1>3. \A id \in deleted : id[1] = "created"
  <2> SUFFICES ASSUME NEW f \in incomplete PROVE targetfile[f][1] = "created"
    OBVIOUS
  <2>1. targetfile[f] = Created(f)
    BY <1>1 DEF VerifyListCreated, IsNewTarget
  <2> QED BY <2>1 DEF Created
<1>4. \A name \in DOMAIN diskFileMap' : diskFileMap'[name] \in Objects'
  BY <1>1, <1>2 DEF Referred, MapAgrees
<1>5. \A f \in File : targetfile[f] \in deleted => f \in incomplete
  <2> SUFFICES ASSUME NEW f \in File, NEW g \in incomplete, targetfile[f] = targetfile[g]
               PROVE  f \in incomplete
    OBVIOUS
  <2>1. g \in File
    BY DEF Referred
  <2>2. f = g
    BY <1>1, <2>1 DEF TargetsNamed
  <2> QED BY <2>2
<1>6. targetfile' \in [File -> Objects' \union {None}]
  BY <1>2, <1>5 DEF Referred
<1>7. backuplist' \subseteq OpenedObjects'
  BY <1>2, <1>3 DEF Referred, OpenedObjects, lists
<1> QED BY <1>4, <1>6, <1>7 DEF Referred, lists

LEMMA ReferredRenamed ==
  ASSUME OInv, Referred, RenameDamaged \/ RenameComplete
  PROVE  Referred'
<1>1. CASE RenameDamaged
  <2> DEFINE f == FirstOf({g \in File : Damaged(g)})
             id == targetfile[f]
             new == BackupName(f)
  <2>1. f \in File /\ Damaged(f) /\ id \in Objects /\ filename[id] = f
    BY <1>1, DamagedFacts
  <2>2. id \in OpenedObjects
    BY <1>1, <2>1 DEF RenameDamaged, OInv, NoneCreated, BeforeCreate, NamesKnown, DiskFileObject,
       OpenedObjects
  <2>3. /\ Objects' = Objects /\ verifylist' = verifylist
        /\ backuplist' \in {backuplist, backuplist \union {id}}
        /\ targetfile' \in {targetfile, [targetfile EXCEPT ![f] = None]}
        /\ diskFileMap' \in {Without(diskFileMap, {f}), With(Without(diskFileMap, {f}), new, id)}
    BY <1>1, <2>1 DEF RenameDamaged, RenameFailed, AssertFailed, RenameInMap, Objects, lists
  <2> HIDE DEF f, id, new
  <2>4. OpenedObjects' = OpenedObjects
    BY <2>3 DEF OpenedObjects
  <2> QED BY <2>1, <2>2, <2>3, <2>4 DEF Referred, With, Without, Restrict
<1>2. CASE RenameComplete
  <2> DEFINE f == FirstOf({g \in File : Misnamed(g)})
             id == found.complete[f]
  <2>1. f \in File /\ id \in Objects
    BY <1>2, MisnamedFacts
  <2>2. /\ Objects' = Objects /\ UNCHANGED lists
        /\ targetfile' \in {targetfile, [targetfile EXCEPT ![f] = id]}
        /\ diskFileMap' \in {Without(diskFileMap, {filename[id]}),
                             With(Without(diskFileMap, {filename[id]}), f, id)}
    BY <1>2 DEF RenameComplete, RenameFailed, AssertFailed, RenameInMap, Objects, lists
  <2> HIDE DEF f, id
  <2>3. OpenedObjects' = OpenedObjects
    BY <2>2 DEF OpenedObjects
  <2> QED BY <2>1, <2>2, <2>3 DEF Referred, With, Without, Restrict, lists
<1> QED BY <1>1, <1>2

LEMMA ReferredCreated ==
  ASSUME Referred, CreateTarget
  PROVE  Referred'
<1> DEFINE f == FirstOf({g \in File : targetfile[g] = None})
<1>1. f \in File
  BY FirstOfIsOf DEF CreateTarget
<1>2. CASE UNCHANGED <<files, targetfile, lists>>
  BY <1>2, ReferredUntouched
<1>3. CASE /\ filename' = With(filename, Created(f), f)
           /\ diskFileMap' = With(diskFileMap, f, Created(f))
           /\ targetfile' = [targetfile EXCEPT ![f] = Created(f)]
           /\ verifylist' = verifylist \union {f} /\ backuplist' = backuplist
  <2> HIDE DEF f
  <2> QED BY <1>1, <1>3 DEF Referred, Objects, OpenedObjects, With
<1> QED BY <1>2, <1>3 DEF CreateTarget, lists

LEMMA ReferredStep ==
  ASSUME OInv, Referred, Process \/ Kill \/ UNCHANGED vars
  PROVE  Referred'
<1>1. CASE \E f \in File : OpenTarget(f)
  BY <1>1, ReferredUntouched, ReferredOpened DEF OpenTarget
<1>2. CASE \E name \in todo : OpenExtra(name)
  BY <1>2, ReferredUntouched, ReferredOpened DEF OpenExtra, command
<1>3. CASE RenameDamaged \/ RenameComplete \/ CreateTarget
  BY <1>3, ReferredRenamed, ReferredCreated
<1>4. CASE ComputeRSmatrix \/ ProcessData \/ VerifiedTargetFiles
  <2>1. Working
    BY <1>4 DEF ComputeRSmatrix, ProcessData, VerifiedTargetFiles, Working
  <2> QED BY <1>4, <2>1, ReferredUntouched, ReferredDeleted DEF ComputeRSmatrix, ProcessData, VerifiedTargetFiles
<1>5. CASE ~ (RenameDamaged \/ RenameComplete \/ CreateTarget \/ ComputeRSmatrix \/ ProcessData
              \/ VerifiedTargetFiles \/ (\E f \in File : OpenTarget(f)) \/ \E name \in todo : OpenExtra(name))
  <2>1. UNCHANGED <<files, targetfile, lists>>
    BY <1>5 DEF Process, VerifyTarget, VerifiedSourceFiles, VerifiedExtraFiles, CheckVerificationResults,
       RenamedDamaged, RenamedComplete, CreatedTargetFiles, ProcessedData, RemoveBackupFiles,
       RemoveParFiles, Kill, vars
  <2> QED BY <2>1, ReferredUntouched
<1> QED BY <1>1, <1>2, <1>3, <1>4, <1>5

LEMMA SubsetsAreCounted ==
  /\ \A S \in SUBSET File : Cardinality(S) \in 0 .. Total
  /\ \A S \in SUBSET Entry : Cardinality(S) \in 0 .. SourceBlockCount
<1>1. \A S \in SUBSET File : Cardinality(S) \in Nat /\ Cardinality(S) <= Total
  BY FilesAreFinite, FS_Subset, FS_CardinalityType
<1>2. \A S \in SUBSET Entry : Cardinality(S) \in Nat /\ Cardinality(S) <= SourceBlockCount
  BY EntriesAreFinite, FS_Subset, FS_CardinalityType DEF SourceBlockCount
<1>3. Total \in Nat /\ SourceBlockCount \in Nat
  BY FilesAreFinite, EntriesAreFinite, FS_CardinalityType DEF SourceBlockCount
<1> QED BY <1>1, <1>2, <1>3

(* A file that is renamed to its name was not right before.                *)
LEMMA OneMoreIsRight ==
  ASSUME OInv, DInv, RenameComplete
  PROVE  completefilecount + 1 \in 0 .. Total
<1> DEFINE f == FirstOf({g \in File : Misnamed(g)})
<1>1. f \in File /\ targetfile[f] = None
  BY MisnamedFacts
<1>2. completefilecount = Cardinality(Right) /\ IsFiniteSet(Right) /\ Right \in SUBSET File
  BY FilesAreFinite, FS_Subset DEF RenameComplete, DInv, FilesCounted, Right
<1>3. f \notin Right
  BY <1>1 DEF Right
<1> HIDE DEF f
<1>4. Cardinality(Right \union {f}) = Cardinality(Right) + 1
  BY <1>2, <1>3, FS_AddElement
<1>5. Right \union {f} \in SUBSET File
  BY <1>1, <1>2
<1>6. Cardinality(Right \union {f}) \in 0 .. Total
  BY <1>5, SubsetsAreCounted
<1> QED BY <1>2, <1>4, <1>6

LEMMA CountedStep ==
  ASSUME OInv, DInv, Counted, Process \/ Kill \/ UNCHANGED vars
  PROVE  Counted'
<1>1. CASE UpdateVerificationResults
  BY <1>1, SubsetsAreCounted DEF UpdateVerificationResults, Counted, Total, SourceBlockCount
<1>2. CASE UNCHANGED counts
  BY <1>2 DEF Counted, counts, Total, SourceBlockCount
<1>3. CASE RenameComplete
  <2>1. completefilecount' \in {completefilecount, completefilecount + 1}
        /\ availableblockcount' = availableblockcount
    BY <1>3 DEF RenameComplete, RenameFailed, AssertFailed, counts
  <2> QED BY <1>3, <2>1, OneMoreIsRight DEF Counted, Total, SourceBlockCount
<1>4. CASE RenameDamaged
  BY <1>2, <1>4 DEF RenameDamaged, RenameFailed, AssertFailed, counts
<1> QED BY <1>1, <1>2, <1>3, <1>4 DEF Process, OpenTarget, VerifyTarget, OpenExtra, VerifiedSourceFiles,
     VerifiedExtraFiles, CheckVerificationResults, RenamedDamaged, RenamedComplete, CreateTarget,
     CreatedTargetFiles, ComputeRSmatrix, ProcessData, ProcessedData, VerifiedTargetFiles,
     RemoveBackupFiles, RemoveParFiles, Kill, vars

LEMMA BoundedStep ==
  ASSUME Bounded, Process \/ Kill \/ UNCHANGED vars
  PROVE  Bounded'
<1>1. UNCHANGED <<dorepair, purgefiles, renameonly, runs>> /\ parfiles' \in BOOLEAN
  BY DEF Process, OpenTarget, VerifyTarget, OpenExtra, VerifiedSourceFiles, VerifiedExtraFiles,
     CheckVerificationResults, RenameDamaged, RenamedDamaged, RenameComplete, RenamedComplete,
     CreateTarget, CreatedTargetFiles, ComputeRSmatrix, ProcessData, ProcessedData, VerifiedTargetFiles,
     RemoveBackupFiles, RemoveParFiles, Kill, vars, command, Bounded
<1>2. Fault \/ NoFault
  BY DEF Process, OpenTarget, VerifyTarget, OpenExtra, VerifiedSourceFiles, VerifiedExtraFiles,
     CheckVerificationResults, RenameDamaged, RenamedDamaged, RenameComplete, RenamedComplete,
     CreateTarget, CreatedTargetFiles, ComputeRSmatrix, ProcessData, ProcessedData, VerifiedTargetFiles,
     RemoveBackupFiles, RemoveParFiles, Kill, vars, NoFault, Scan
<1>3. faults' \in 0 .. MaxFaults
  BY <1>2, RepairAssumption DEF Fault, NoFault, environment, Bounded
<1>5. faulted' \in BOOLEAN
  <2>1. faulted' = faulted \/ faulted' = TRUE
    BY <1>2 DEF Fault, NoFault, environment
  <2> QED BY <2>1 DEF Bounded
<1>4. finalresult' \in BOOLEAN
  BY DEF Process, OpenTarget, VerifyTarget, OpenExtra, VerifiedSourceFiles, VerifiedExtraFiles,
     CheckVerificationResults, RenameDamaged, RenamedDamaged, RenameComplete, RenamedComplete,
     RenameFailed, AssertFailed, CreateTarget, CreatedTargetFiles, ComputeRSmatrix, ProcessData,
     ProcessedData, VerifiedTargetFiles, DeleteIncompleteTargetFiles, RemoveBackupFiles, RemoveParFiles,
     Kill, vars, control, Enter, Finish, Succeed, Scan, Bounded
<1> QED BY <1>1, <1>3, <1>4, <1>5 DEF Bounded

(* The state stays within its types, for any files, disks and failures     *)
(* (all of Process): a deleted target is referred to no more, counts stay  *)
(* within the set.                                                         *)
THEOREM TypeCorrect == Spec => []TypeOK
<1>1. OInv /\ DInv /\ Referred /\ Counted /\ Bounded => TypeOK
  <2> SUFFICES ASSUME OInv, DInv, Referred, Counted, Bounded PROVE TypeOK
    OBVIOUS
  <2>1. \A name \in DOMAIN disk : disk[name] \in Seq(DataOn(disk))
    <3> SUFFICES ASSUME NEW name \in DOMAIN disk PROVE disk[name] \in Seq(DataOn(disk))
      OBVIOUS
    <3> DEFINE content == disk[name]
    <3>1. content \in Seq(Data)
      BY DEF DInv, DiskIsData
    <3>2. \A i \in 1 .. Len(content) : content[i] \in DataOn(disk)
      BY <3>1 DEF DataOn, ToSet
    <3> HIDE DEF content
    <3>3. content \in Seq(DataOn(disk))
      BY <3>1, <3>2
    <3> QED BY <3>3 DEF content
  <2>2. \A id \in DOMAIN filename : id[1] \in {"opened", "created"}
    BY DEF OInv, NamesKnown, DiskFileObject, Objects
  <2>3. found.complete \in [File -> DOMAIN filename \union {None}] \/ ~BeforeVerify
    BY OInvFacts DEF Known, Objects
  <2> QED BY <2>1, <2>2, <2>3 DEF TypeOK, Referred, Counted, Bounded, DInv, ControlTyped, Objects,
         OpenedObjects
<1>2. OInv /\ DInv /\ Referred /\ Counted /\ Bounded /\ [Next]_vars => Referred' /\ Counted' /\ Bounded'
  BY TypesRerun, ReferredStep, CountedStep, BoundedStep DEF Next
<1> QED BY <1>1, <1>2, TypesInit, ObjectsInvariance, DataInvariance, PTL DEF Spec

-----------------------------------------------------------------------------
(* What a run promises, on any disk and for any set of files.  A repair    *)
(* destroys nothing before it has succeeded: no rename, creation, repair,  *)
(* failure, kill or further run takes away or overwrites what the program  *)
(* did not make itself.  A verification that meets no fault overlooks      *)
(* nothing, and a repair that meets none succeeds where there is enough    *)
(* left to repair from, whatever the runs before it were stopped at.       *)
(*                                                                         *)
(* This needs some things of the setting, and the findings show that it    *)
(* fails without them: no name of a backup is that of a source file (run   *)
(* backup_name), a target that is there can be opened (unreadable_target), *)
(* and no two blocks have the same data (twin_perfect).                    *)

Setting == NamesApart /\ ~OpenFails

(* What is in the files that the program did not make itself, and may not  *)
(* go before the purge.                                                    *)
Kept == {disk[name] : name \in DOMAIN disk \ CreatedNames}
NothingLost == pc # "RemoveBackupFiles" => Kept \subseteq Kept'

(* All steps but two leave exactly this: the purge, and the next run, for  *)
(* which what the last one created is as good as any file.                 *)
Held == \/ RemoveBackupFiles
        \/ Kept' = Kept
        \/ pc = "Finished" /\ Kept \subseteq Kept'

(* Beside what is known of the objects: a target is there if any file of   *)
(* its name is.                                                            *)
Dealt == IF pc = "VerifySourceFiles" THEN File \ todo ELSE File
TargetsFound ==
  pc \in BeforeCreate => \A f \in Dealt : targetfile[f] = None => f \notin DOMAIN disk

SInv == OInv /\ TargetsFound

-----------------------------------------------------------------------------

(* Nothing is lost while no file on the disk is touched and no object is   *)
(* created.                                                                *)
LEMMA UntouchedIsKept ==
  ASSUME disk' = disk, CreatedNames' = CreatedNames
  PROVE  Held
BY DEF Held, Kept

LEMMA OpenedIsNotCreated ==
  ASSUME NEW name, filename' = With(filename, Opened(name), name), disk' = disk,
         Opened(name) \notin Objects
  PROVE  Held
<1>1. /\ \A id \in Objects' : id[1] = "created" => id \in Objects
      /\ \A id \in Objects : id \in Objects' /\ filename'[id] = filename[id]
  BY DEF With, Objects, Opened
<1>2. CreatedNames' = CreatedNames
  BY <1>1 DEF CreatedNames, Objects
<1> QED BY <1>2, UntouchedIsKept

(* A rename to a name that is free keeps every file's data.                *)
LEMMA RenameIsSafe ==
  ASSUME NEW old \in DOMAIN disk, NEW new, new \notin DOMAIN disk, MoveFile(old, new),
         \A id \in Objects : id[1] # "created", Objects' = Objects
  PROVE  /\ Held
         /\ DOMAIN disk' = (DOMAIN disk \ {old}) \union {new}
<1>1. /\ DOMAIN disk' = (DOMAIN disk \ {old}) \union {new}
      /\ disk'[new] = disk[old]
      /\ \A name \in DOMAIN disk \ {old} : disk'[name] = disk[name]
  BY DEF MoveFile, With, Without, Restrict
<1>2. CreatedNames = {} /\ CreatedNames' = {}
  BY DEF CreatedNames, Objects
<1>3. Held
  BY <1>1, <1>2 DEF Held, Kept
<1> QED BY <1>1, <1>3

-----------------------------------------------------------------------------
(* Each action loses nothing, and no file takes the name of a target that  *)
(* is missing.                                                             *)

Good == TargetsFound' /\ Held

LEMMA InitIsSafe == Init => SInv
BY ObjectsInit DEF Init, SInv, TargetsFound, Dealt

LEMMA RerunIsSafe == Rerun => Good
<1> SUFFICES ASSUME Rerun PROVE Good
  OBVIOUS
<1>1. CreatedNames' = {} /\ disk' = disk /\ pc = "Finished"
  BY DEF Rerun, CreatedNames
<1>2. Held
  BY <1>1 DEF Held, Kept
<1> QED BY <1>2 DEF Rerun, Good, TargetsFound, Dealt

(* The end of a process.                                                   *)
LEMMA LeftIsSafe ==
  ASSUME pc' \notin BeforeCreate, disk' = disk, CreatedNames' = CreatedNames
  PROVE  Good
BY UntouchedIsKept DEF Good, TargetsFound

LEMMA OpenTargetIsSafe ==
  ASSUME SInv, NEW f \in File, OpenTarget(f), ~OpenFails \/ ~faulted'
  PROVE  Good
<1>1. /\ pc = "VerifySourceFiles" /\ pc' = pc /\ todo' = todo \ {f} /\ disk' = disk /\ f \in todo
      /\ MapAgrees /\ AsOpened /\ Known(targetfile) /\ TargetsFound
  BY OInvFacts DEF OpenTarget, SInv, OInv, IInv, Running, BeforeVerify, Working
<1>2. CASE f \notin DOMAIN disk /\ UNCHANGED <<files, targetfile>>
  BY <1>1, <1>2, UntouchedIsKept DEF Good, TargetsFound, Dealt, BeforeCreate, CreatedNames, files
<1>3. CASE targetfile' = [targetfile EXCEPT ![f] = Opened(f)]
           /\ filename' = With(filename, Opened(f), f)
  <2>1. Opened(f) \notin Objects
    BY <1>1 DEF AsOpened, MapAgrees, Opened
  <2>2. Opened(f) # None
    BY ObjectsAreNotNone
  <2>3. TargetsFound'
    BY <1>1, <1>3, <2>2 DEF TargetsFound, Known, BeforeCreate, Dealt
  <2> QED BY <1>1, <1>3, <2>1, <2>3, OpenedIsNotCreated DEF Good
<1> QED BY <1>2, <1>3 DEF OpenTarget, Fault

LEMMA OpenExtraIsSafe ==
  ASSUME SInv, NEW name \in todo, OpenExtra(name)
  PROVE  Good
<1>1. /\ pc = "VerifyExtraFiles" /\ pc' = pc /\ disk' = disk /\ targetfile' = targetfile
      /\ MapAgrees /\ AsOpened /\ TargetsFound
  BY OInvFacts DEF OpenExtra, SInv, OInv, IInv, Running, BeforeVerify, Working
<1>2. TargetsFound'
  BY <1>1 DEF TargetsFound, Dealt, BeforeCreate
<1>3. CASE UNCHANGED files
  BY <1>1, <1>2, <1>3, UntouchedIsKept DEF Good, CreatedNames, files
<1>4. CASE name \notin DOMAIN diskFileMap /\ filename' = With(filename, Opened(name), name)
  <2>1. Opened(name) \notin Objects
    BY <1>1, <1>4 DEF AsOpened, MapAgrees, Opened
  <2> QED BY <1>1, <1>2, <1>4, <2>1, OpenedIsNotCreated DEF Good
<1> QED BY <1>3, <1>4 DEF OpenExtra

LEMMA StageIsSafe ==
  ASSUME SInv,
         \/ VerifiedSourceFiles \/ VerifiedExtraFiles \/ CheckVerificationResults
         \/ RenamedDamaged \/ RenamedComplete \/ CreatedTargetFiles \/ ProcessedData
  PROVE  Good
<1> USE DEF VerifiedSourceFiles, VerifiedExtraFiles, CheckVerificationResults, RenamedDamaged,
            RenamedComplete, CreatedTargetFiles, ProcessedData, Enter, Finish, Succeed
<1>1. UNCHANGED <<disk, files, targetfile>>
  OBVIOUS
<1>2. TargetsFound'
  BY <1>1 DEF SInv, TargetsFound, Dealt, BeforeCreate
<1> QED BY <1>1, <1>2, UntouchedIsKept DEF Good, CreatedNames, files

(* The name of a backup is free, on the disk and in the map.               *)
LEMMA DamagedIsInserted ==
  ASSUME NamesApart, OInv, RenameDamaged, NEW f, f = FirstOf({g \in File : Damaged(g)})
  PROVE  BackupName(f) \notin File /\ ~InsertFails(targetfile[f], BackupName(f))
<1>1. /\ f \in File /\ BackupName(f) \notin DOMAIN disk
      /\ \E k \in Nat : BackupName(f) = Append(f, k)
  BY DamagedFacts
<1>2. MapAgrees
  BY OInvFacts DEF RenameDamaged, Working
<1> QED BY <1>1, <1>2 DEF NamesApart, InsertFails, MapAgrees, Without, Restrict

LEMMA RenameDamagedIsSafe ==
  ASSUME NamesApart, SInv, RenameDamaged
  PROVE  Good
<1> DEFINE f == FirstOf({g \in File : Damaged(g)})
           id == targetfile[f]
           new == BackupName(f)
<1>1. /\ f \in File /\ id \in Objects /\ filename[id] = f /\ new \notin DOMAIN disk
  BY DamagedFacts DEF SInv
<1>2. /\ pc = "RenameDamaged" /\ Known(targetfile) /\ TargetsFound
      /\ (\A o \in Objects : o[1] # "created")
  BY OInvFacts DEF RenameDamaged, SInv, OInv, NoneCreated, BeforeVerify, BeforeCreate
<1>3. new \notin File /\ ~InsertFails(id, new)
  BY DamagedIsInserted DEF SInv
<1>4. \/ pc' = "Finished" /\ UNCHANGED <<disk, filename>>
      \/ /\ f \in DOMAIN disk /\ MoveFile(f, new) /\ RenameInMap(id, new)
         /\ targetfile' = [targetfile EXCEPT ![f] = None] /\ pc' = pc
  BY <1>1, <1>3 DEF RenameDamaged, RenameFailed, Finish, control
<1> HIDE DEF f, id, new
<1>5. CASE pc' = "Finished" /\ UNCHANGED <<disk, filename>>
  BY <1>5, LeftIsSafe DEF CreatedNames, BeforeCreate
<1>6. CASE /\ f \in DOMAIN disk /\ MoveFile(f, new) /\ RenameInMap(id, new)
           /\ targetfile' = [targetfile EXCEPT ![f] = None] /\ pc' = pc
  <2>1. Objects' = Objects
    BY <1>6 DEF RenameInMap, Objects
  <2>2. Held /\ DOMAIN disk' = (DOMAIN disk \ {f}) \union {new}
    BY <1>1, <1>2, <1>6, <2>1, RenameIsSafe
  <2>3. TargetsFound'
    BY <1>1, <1>2, <1>3, <1>6, <2>2 DEF TargetsFound, BeforeCreate, Known, Dealt
  <2> QED BY <2>2, <2>3 DEF Good
<1> QED BY <1>4, <1>5, <1>6

(* The name of a target that is missing is free.                           *)
LEMMA CompleteIsInserted ==
  ASSUME SInv, RenameComplete, NEW f, f = FirstOf({g \in File : Misnamed(g)})
  PROVE  f \notin DOMAIN disk /\ ~InsertFails(found.complete[f], f)
<1>1. f \in File /\ targetfile[f] = None
  BY MisnamedFacts DEF SInv
<1>2. pc = "RenameComplete" /\ MapAgrees
  BY OInvFacts DEF SInv, RenameComplete, Working
<1>3. f \notin DOMAIN disk
  BY <1>1, <1>2 DEF SInv, TargetsFound, BeforeCreate, Dealt
<1> QED BY <1>2, <1>3 DEF InsertFails, MapAgrees, Without, Restrict

LEMMA RenameCompleteIsSafe ==
  ASSUME SInv, RenameComplete
  PROVE  Good
<1> DEFINE f == FirstOf({g \in File : Misnamed(g)})
           id == found.complete[f]
<1>1. /\ f \in File /\ id \in Objects /\ targetfile[f] = None /\ id # None
  BY MisnamedFacts DEF SInv, Misnamed
<1>2. /\ pc = "RenameComplete" /\ Known(targetfile) /\ TargetsFound
      /\ (\A o \in Objects : o[1] # "created")
  BY OInvFacts DEF RenameComplete, SInv, OInv, NoneCreated, BeforeVerify, BeforeCreate
<1>3. f \notin DOMAIN disk /\ ~InsertFails(id, f)
  BY CompleteIsInserted
<1>4. \/ pc' = "Finished" /\ UNCHANGED <<disk, filename>>
      \/ /\ filename[id] \in DOMAIN disk /\ MoveFile(filename[id], f) /\ RenameInMap(id, f)
         /\ targetfile' = [targetfile EXCEPT ![f] = id] /\ pc' = pc
  BY <1>3 DEF RenameComplete, RenameFailed, Finish, control
<1> HIDE DEF f, id
<1>5. CASE pc' = "Finished" /\ UNCHANGED <<disk, filename>>
  BY <1>5, LeftIsSafe DEF CreatedNames, BeforeCreate
<1>6. CASE /\ filename[id] \in DOMAIN disk /\ MoveFile(filename[id], f) /\ RenameInMap(id, f)
           /\ targetfile' = [targetfile EXCEPT ![f] = id] /\ pc' = pc
  <2>1. Objects' = Objects
    BY <1>6 DEF RenameInMap, Objects
  <2>2. /\ Held
        /\ DOMAIN disk' = (DOMAIN disk \ {filename[id]}) \union {f}
    BY <1>2, <1>3, <1>6, <2>1, RenameIsSafe
  <2>3. TargetsFound'
    BY <1>1, <1>2, <1>6, <2>2 DEF TargetsFound, BeforeCreate, Known, Dealt
  <2> QED BY <2>2, <2>3 DEF Good
<1> QED BY <1>4, <1>5, <1>6

(* A target is created where no file is.                                   *)
LEMMA CreateTargetIsSafe ==
  ASSUME OInv, CreateTarget
  PROVE  Good
<1> DEFINE f == FirstOf({g \in File : targetfile[g] = None})
<1>1. f \in File /\ targetfile[f] = None
  BY FirstOfIsOf DEF CreateTarget
<1>2. /\ pc = "CreateTargetFiles"
      /\ \A g \in File : Created(g) \in Objects => targetfile[g] # None
  BY DEF CreateTarget, OInv, IInv, Running, CreatedOnce
<1>3. \/ pc' = "Finished" /\ UNCHANGED <<disk, filename>>
      \/ /\ f \notin DOMAIN disk /\ pc' = pc
         /\ disk' = With(disk, f, [i \in 1 .. BlockCount[f] |-> Junk])
         /\ filename' = With(filename, Created(f), f)
  BY DEF CreateTarget, Finish, control, files
<1> HIDE DEF f
<1>4. CASE pc' = "Finished" /\ UNCHANGED <<disk, filename>>
  BY <1>4, LeftIsSafe DEF CreatedNames, BeforeCreate
<1>5. CASE /\ f \notin DOMAIN disk /\ pc' = pc
           /\ disk' = With(disk, f, [i \in 1 .. BlockCount[f] |-> Junk])
           /\ filename' = With(filename, Created(f), f)
  <2>1. Created(f) \notin Objects
    BY <1>1, <1>2
  <2>2. /\ Objects' = Objects \union {Created(f)} /\ filename'[Created(f)] = f
        /\ \A o \in Objects : filename'[o] = filename[o]
    BY <1>5, <2>1 DEF With, Objects
  <2>3. CreatedNames' = CreatedNames \union {f}
    BY <2>2 DEF CreatedNames, Objects, Created
  <2>4. /\ DOMAIN disk' = DOMAIN disk \union {f}
        /\ \A name \in DOMAIN disk : disk'[name] = disk[name]
    BY <1>5 DEF With
  <2>5. Held
    BY <1>5, <2>3, <2>4 DEF Held, Kept
  <2> QED BY <1>2, <1>5, <2>5 DEF Good, TargetsFound, BeforeCreate
<1> QED BY <1>3, <1>4, <1>5

(* Only new targets are deleted when a repair fails.                       *)
LEMMA DeleteIsSafe ==
  ASSUME VerifyListCreated, Working, DeleteIncompleteTargetFiles
  PROVE  Good
<1> DEFINE incomplete == {f \in verifylist : targetfile[f] # None}
           deleted == {targetfile[f] : f \in incomplete}
           names == {filename[id] : id \in deleted}
<1>1. \A name \in names : name \in CreatedNames
  <2> SUFFICES ASSUME NEW f \in incomplete PROVE filename[targetfile[f]] \in CreatedNames
    OBVIOUS
  <2>1. targetfile[f] = Created(f) /\ Created(f) \in DOMAIN filename
    BY DEF VerifyListCreated, IsNewTarget, Objects
  <2>2. Created(f)[1] = "created"
    BY DEF Created
  <2> QED BY <2>1, <2>2 DEF CreatedNames
<1>2. /\ DOMAIN disk' = DOMAIN disk \ names
      /\ \A name \in DOMAIN disk \ names : disk'[name] = disk[name]
      /\ Objects' \subseteq Objects
      /\ \A id \in Objects' : filename'[id] = filename[id]
      /\ \A id \in Objects \ Objects' : filename[id] \in names
      /\ pc' = "Finished"
  BY DEF DeleteIncompleteTargetFiles, Without, Restrict, Objects, Finish
<1> HIDE DEF names, deleted, incomplete
<1>3. /\ CreatedNames' \subseteq CreatedNames
      /\ \A name \in CreatedNames \ names : name \in CreatedNames'
  BY <1>2 DEF CreatedNames, Objects
<1>4. Held
  BY <1>1, <1>2, <1>3 DEF Held, Kept
<1> QED BY <1>2, <1>4 DEF Good, TargetsFound, BeforeCreate

LEMMA RepairStepIsSafe ==
  ASSUME OInv,
         \/ ComputeRSmatrix \/ VerifiedTargetFiles \/ \E f \in File : VerifyTarget(f)
  PROVE  Good
<1>1. pc \in {"ComputeRSmatrix", "VerifyTargetFiles"} /\ Working /\ VerifyListCreated
  BY DEF ComputeRSmatrix, VerifyTarget, VerifiedTargetFiles, OInv, Working
<1>2. \/ DeleteIncompleteTargetFiles
      \/ pc' \notin BeforeCreate /\ UNCHANGED <<disk, files>>
  BY <1>1 DEF ComputeRSmatrix, VerifyTarget, VerifiedTargetFiles, Finish, Succeed, BeforeCreate
<1> QED BY <1>1, <1>2, DeleteIsSafe, LeftIsSafe DEF CreatedNames, files

LEMMA ProcessDataIsSafe ==
  ASSUME OInv, ProcessData
  PROVE  Good
<1>1. /\ pc = "ProcessData" /\ VerifyListCreated /\ Working /\ MapAgrees
  BY OInvFacts DEF ProcessData, OInv, Working
<1>2. CASE DeleteIncompleteTargetFiles
  BY <1>1, <1>2, DeleteIsSafe
<1>3. CASE /\ pc' = pc /\ UNCHANGED files
           /\ \/ disk' = disk
              \/ disk' = [name \in DOMAIN disk \union verifylist |->
                           IF name \in verifylist
                           THEN [i \in 1 .. BlockCount[name] |-> Restored(<<name, i>>)]
                           ELSE disk[name]]
  <2>1. verifylist \subseteq CreatedNames /\ verifylist \subseteq DOMAIN disk
    BY <1>1 DEF VerifyListCreated, IsNewTarget, CreatedNames, Objects, Created, MapAgrees
  <2>2. CreatedNames' = CreatedNames
    BY <1>3 DEF CreatedNames, files
  <2>3. /\ DOMAIN disk' = DOMAIN disk
        /\ \A name \in DOMAIN disk \ verifylist : disk'[name] = disk[name]
    BY <1>3, <2>1
  <2>4. Held
    BY <2>1, <2>2, <2>3 DEF Held, Kept
  <2> QED BY <1>1, <1>3, <2>4 DEF Good, TargetsFound, BeforeCreate
<1> QED BY <1>2, <1>3 DEF ProcessData

(* The purge, and a kill.                                                  *)
LEMMA LeavingIsSafe ==
  ASSUME RemoveBackupFiles \/ RemoveParFiles \/ Kill
  PROVE  Good
<1>1. CASE RemoveBackupFiles
  BY <1>1 DEF RemoveBackupFiles, Good, Held, TargetsFound, BeforeCreate
<1>2. CASE RemoveParFiles \/ Kill
  BY <1>2, LeftIsSafe DEF RemoveParFiles, Kill, Finish, CreatedNames, BeforeCreate, files
<1> QED BY <1>1, <1>2

LEMMA StutterIsSafe ==
  ASSUME SInv, UNCHANGED vars
  PROVE  Good
BY DEF Good, SInv, Held, Kept, CreatedNames, TargetsFound, Dealt, vars, files, control

-----------------------------------------------------------------------------

LEMMA StepIsGood ==
  ASSUME NamesApart, SInv, [Next]_vars, ~OpenFails \/ ~faulted'
  PROVE  Good
BY OpenTargetIsSafe, OpenExtraIsSafe, StageIsSafe, RenameDamagedIsSafe, RenameCompleteIsSafe,
   CreateTargetIsSafe, RepairStepIsSafe, ProcessDataIsSafe, LeavingIsSafe, RerunIsSafe,
   StutterIsSafe DEF Next, Process, SInv

THEOREM StepsAreSafe == ASSUME Setting PROVE SInv /\ [Next]_vars => SInv' /\ Held
BY StepIsGood, ObjectsStep DEF Good, SInv, Setting

(* The invariant holds in every state.                                     *)
THEOREM SafeInvariance == ASSUME Setting PROVE Spec => []SInv
<1>1. SInv /\ [Next]_vars => SInv'
  BY StepsAreSafe
<1> QED BY <1>1, InitIsSafe, PTL DEF Spec

(* Until a repair has succeeded, and the backups are purged, no step takes *)
(* away or overwrites what the program did not make itself (rename, create,*)
(* ProcessData, DeleteIncompleteTargetFiles).                              *)
THEOREM RepairLosesNothing ==
  ASSUME Setting
  PROVE  Spec => [][NothingLost]_vars
<1>1. SInv /\ [Next]_vars => [NothingLost]_vars
  BY StepsAreSafe DEF Held, NothingLost, RemoveBackupFiles
<1> QED BY <1>1, SafeInvariance, PTL DEF Spec

(* The assertion after each rename holds: the new name was free            *)
(* (RenameTargetFiles, assert(success)).                                   *)
THEOREM RenamesAreInserted ==
  ASSUME Setting
  PROVE  Spec => []InsertSucceeds
<1>1. Init => InsertSucceeds
  BY NoneAssumption DEF Init, InsertSucceeds
<1>2. SInv /\ InsertSucceeds /\ [Next]_vars => InsertSucceeds'
  <2> SUFFICES ASSUME SInv, InsertSucceeds, [Next]_vars PROVE InsertSucceeds'
    OBVIOUS
  <2>1. CASE RenameDamaged
    <3> DEFINE f == FirstOf({g \in File : Damaged(g)})
    <3>1. ~InsertFails(targetfile[f], BackupName(filename[targetfile[f]]))
      <4>1. filename[targetfile[f]] = f
        BY <2>1, DamagedFacts DEF SInv
      <4>2. ~InsertFails(targetfile[f], BackupName(f))
        BY <2>1, DamagedIsInserted DEF SInv, Setting
      <4> QED BY <4>1, <4>2
    <3> QED BY <2>1, <3>1 DEF RenameDamaged, RenameFailed, Finish, control, InsertSucceeds
  <2>2. CASE RenameComplete
    <3> DEFINE f == FirstOf({g \in File : Misnamed(g)})
    <3>1. ~InsertFails(found.complete[f], f)
      BY <2>2, CompleteIsInserted
    <3> QED BY <2>2, <3>1 DEF RenameComplete, RenameFailed, Finish, control, InsertSucceeds
  <2>3. CASE ~RenameDamaged /\ ~RenameComplete
    BY <2>3, NoneAssumption DEF Next, Process, OpenTarget, VerifyTarget, OpenExtra, VerifiedSourceFiles,
       VerifiedExtraFiles, CheckVerificationResults, RenamedDamaged, RenamedComplete, CreateTarget,
       CreatedTargetFiles, ComputeRSmatrix, ProcessData, ProcessedData, VerifiedTargetFiles,
       DeleteIncompleteTargetFiles, RemoveBackupFiles, RemoveParFiles, Kill, Rerun, Enter, Finish,
       Succeed, vars, control, InsertSucceeds
  <2> QED BY <2>1, <2>2, <2>3
<1> QED BY <1>1, <1>2, SafeInvariance, PTL DEF Spec

LEMMA AbsentStep ==
  ASSUME SInv, SInv', MissingTargetIsAbsent, [Next]_vars
  PROVE  MissingTargetIsAbsent'
<1>1. CASE CreateTarget
  <2> DEFINE f == FirstOf({g \in File : targetfile[g] = None})
  <2>1. f \in File /\ pc = "CreateTargetFiles" /\ Known(targetfile)
    BY <1>1, FirstOfIsOf, OInvFacts DEF CreateTarget, SInv, BeforeVerify
  <2>2. \/ pc' = "Finished"
        \/ /\ disk' = With(disk, f, [i \in 1 .. BlockCount[f] |-> Junk])
           /\ targetfile' = [targetfile EXCEPT ![f] = Created(f)] /\ Created(f) # None
    BY <1>1, <2>1, ObjectsAreNotNone DEF CreateTarget, Finish
  <2> HIDE DEF f
  <2> QED BY <2>1, <2>2 DEF MissingTargetIsAbsent, With, Known
<1>2. CASE RenamedComplete
  BY <1>2 DEF RenamedComplete, Enter, Succeed, MissingTargetIsAbsent, SInv
<1>3. CASE pc' = "RenameComplete"
  BY <1>3 DEF SInv, TargetsFound, Dealt, BeforeCreate, MissingTargetIsAbsent
<1>4. CASE ~CreateTarget /\ ~RenamedComplete /\ pc' # "RenameComplete"
  BY <1>4 DEF Next, Process, OpenTarget, VerifyTarget, OpenExtra, VerifiedSourceFiles,
     VerifiedExtraFiles, CheckVerificationResults, RenameDamaged, RenamedDamaged, RenameComplete,
     RenameFailed, AssertFailed, CreatedTargetFiles, ComputeRSmatrix, ProcessData, ProcessedData,
     VerifiedTargetFiles, DeleteIncompleteTargetFiles, RemoveBackupFiles, RemoveParFiles, Kill,
     Rerun, Enter, Finish, Succeed, vars, control, MissingTargetIsAbsent
<1> QED BY <1>1, <1>2, <1>3, <1>4

(* A target that is taken to be missing is not on the disk, up to the end  *)
(* of the creation of targets (VerifySourceFiles, "The file does not       *)
(* exist.").                                                               *)
THEOREM MissingTargetsAreAbsent ==
  ASSUME Setting
  PROVE  Spec => []MissingTargetIsAbsent
<1>1. Init => MissingTargetIsAbsent
  BY DEF Init, MissingTargetIsAbsent
<1>2. SInv /\ SInv' /\ MissingTargetIsAbsent /\ [Next]_vars => MissingTargetIsAbsent'
  BY AbsentStep
<1> QED BY <1>1, <1>2, SafeInvariance, PTL DEF Spec


-----------------------------------------------------------------------------
(* What is on the disk is enough to repair from, as long as what was first *)
(* on it was: all of it is still there, until all the data of the set is.  *)

KeptData == UNION {ToSet(content) : content \in Kept}
AllData == {BlockData[e] : e \in Entry}
DataIsThere ==
  \/ DataOn(disk0) \subseteq KeptData
  \/ AllData \subseteq KeptData
  \/ pc \in {"RemoveParFiles", "Finished"} /\ AllData \subseteq DataOn(disk)
ParFilesAreThere == parfiles \/ (pc = "Finished" /\ AllData \subseteq DataOn(disk))

LEMMA KeptIsOnDisk == KeptData \subseteq DataOn(disk)
BY DEF KeptData, Kept, DataOn

LEMMA RepairedIsAllData ==
  ASSUME NEW d, \A f \in File : f \in DOMAIN d /\ d[f] = Original(f)
  PROVE  AllData \subseteq DataOn(d)
<1> SUFFICES ASSUME NEW e \in Entry PROVE BlockData[e] \in DataOn(d)
  BY DEF AllData
<1> DEFINE f == FileOf(e)
<1>1. f \in File /\ e = <<f, e[2]>> /\ e[2] \in 1 .. BlockCount[f]
  BY EntryFacts DEF FileOf
<1>2. f \in DOMAIN d /\ d[f] = Original(f)
  BY <1>1
<1> HIDE DEF f
<1>3. e[2] \in DOMAIN d[f] /\ d[f][e[2]] = BlockData[e]
  BY <1>1, <1>2 DEF Original
<1>4. BlockData[e] \in ToSet(d[f])
  BY <1>3 DEF ToSet
<1> QED BY <1>2, <1>4 DEF DataOn

LEMMA ThereInit == Init => DataIsThere /\ ParFilesAreThere
<1> SUFFICES ASSUME Init PROVE DataIsThere /\ ParFilesAreThere
  OBVIOUS
<1>1. CreatedNames = {} /\ disk0 = disk
  BY DEF Init, CreatedNames
<1>2. DataOn(disk0) \subseteq KeptData
  BY <1>1 DEF DataOn, KeptData, Kept
<1> QED BY <1>2 DEF DataIsThere, ParFilesAreThere, Init

LEMMA ThereStep ==
  ASSUME Held, SuccessInv, SuccessInv', DataIsThere, ParFilesAreThere, [Next]_vars
  PROVE  DataIsThere' /\ ParFilesAreThere'
<1>1. disk0' = disk0
  BY DEF Next, Process, OpenTarget, VerifyTarget, OpenExtra, VerifiedSourceFiles, VerifiedExtraFiles,
     CheckVerificationResults, RenameDamaged, RenamedDamaged, RenameComplete, RenamedComplete,
     CreateTarget, CreatedTargetFiles, ComputeRSmatrix, ProcessData, ProcessedData, VerifiedTargetFiles,
     RemoveBackupFiles, RemoveParFiles, Kill, Rerun, vars, command
<1>2. CASE RemoveBackupFiles
  <2>1. pc = "RemoveBackupFiles" /\ pc' = "RemoveParFiles" /\ result' = result /\ parfiles' = parfiles
    BY <1>2 DEF RemoveBackupFiles
  <2>2. AllData \subseteq DataOn(disk')
    BY <2>1, RepairedIsAllData DEF SuccessInv, Repaired
  <2> QED BY <2>1, <2>2 DEF DataIsThere, ParFilesAreThere, AllData, DataOn
<1>3. CASE RemoveParFiles
  <2>1. pc = "RemoveParFiles" /\ pc' = "Finished" /\ disk' = disk
    BY <1>3 DEF RemoveParFiles
  <2>2. AllData \subseteq DataOn(disk)
    BY <2>1, RepairedIsAllData DEF SuccessInv, Repaired
  <2> QED BY <2>1, <2>2 DEF DataIsThere, ParFilesAreThere, AllData, DataOn
<1>4. CASE ~RemoveBackupFiles /\ ~RemoveParFiles
  <2>1. KeptData \subseteq KeptData' /\ AllData' = AllData
    BY <1>4 DEF Held, KeptData, AllData
  <2>2. parfiles' = parfiles
    BY <1>4 DEF Next, Process, OpenTarget, VerifyTarget, OpenExtra, VerifiedSourceFiles,
     VerifiedExtraFiles, CheckVerificationResults, RenameDamaged, RenamedDamaged, RenameComplete,
     RenamedComplete, CreateTarget, CreatedTargetFiles, ComputeRSmatrix, ProcessData, ProcessedData,
     VerifiedTargetFiles, Kill, Rerun, vars, command
  <2>3. CASE pc \notin {"RemoveParFiles", "Finished"}
    BY <1>1, <2>1, <2>2, <2>3 DEF DataIsThere, ParFilesAreThere
  <2>4. CASE Rerun
    <3>1. CreatedNames' = {} /\ disk' = disk /\ parfiles
      BY <2>4 DEF Rerun, CreatedNames
    <3>2. DataOn(disk) = KeptData'
      BY <3>1 DEF DataOn, KeptData, Kept
    <3> QED BY <1>1, <2>1, <2>2, <3>1, <3>2 DEF DataIsThere, ParFilesAreThere
  <2>5. CASE pc \in {"RemoveParFiles", "Finished"} /\ ~Rerun
    <3>1. disk' = disk /\ pc' \in {"RemoveParFiles", "Finished"} /\ (pc = "Finished" => pc' = "Finished")
      BY <1>4, <2>5 DEF Next, Process, OpenTarget, VerifyTarget, OpenExtra, VerifiedSourceFiles,
         VerifiedExtraFiles, CheckVerificationResults, RenameDamaged, RenamedDamaged, RenameComplete,
         RenamedComplete, CreateTarget, CreatedTargetFiles, ComputeRSmatrix, ProcessData, ProcessedData,
         VerifiedTargetFiles, RemoveBackupFiles, Kill, Finish, vars, control
    <3> QED BY <1>1, <2>1, <2>2, <3>1 DEF DataIsThere, ParFilesAreThere, DataOn
  <2> QED BY <2>3, <2>4, <2>5
<1> QED BY <1>2, <1>3, <1>4

LEMMA NoneMissing ==
  ASSUME NEW data, AllData \subseteq data
  PROVE  Cardinality({e \in Entry : BlockData[e] \notin data}) = 0
<1>1. {e \in Entry : BlockData[e] \notin data} = {}
  BY DEF AllData
<1> QED BY <1>1, FS_EmptySet

LEMMA FewerMissing ==
  ASSUME NEW data, NEW more, data \subseteq more
  PROVE  Cardinality({e \in Entry : BlockData[e] \notin more})
           <= Cardinality({e \in Entry : BlockData[e] \notin data})
<1> DEFINE S == {e \in Entry : BlockData[e] \notin more}
           T == {e \in Entry : BlockData[e] \notin data}
<1>1. IsFiniteSet(T) /\ S \subseteq T
  BY EntriesAreFinite, FS_Subset
<1> HIDE DEF S, T
<1>2. Cardinality(S) <= Cardinality(T)
  BY <1>1, FS_Subset
<1> QED BY <1>2 DEF S, T

LEMMA ThereIsEnough == DataIsThere /\ ParFilesAreThere => StaysRecoverable
<1> SUFFICES ASSUME DataIsThere, ParFilesAreThere, Recoverable(disk0, RecoveryBlocks)
             PROVE  Recoverable(disk, IF parfiles THEN RecoveryBlocks ELSE 0)
  BY DEF StaysRecoverable
<1>1. RecoveryBlocks \in Nat
  BY RepairAssumption
<1>2. CASE AllData \subseteq DataOn(disk)
  BY <1>1, <1>2, NoneMissing DEF Recoverable
<1>3. CASE parfiles /\ DataOn(disk0) \subseteq DataOn(disk)
  <2> DEFINE is == Cardinality({e \in Entry : BlockData[e] \notin DataOn(disk)})
             was == Cardinality({e \in Entry : BlockData[e] \notin DataOn(disk0)})
  <2>1. is <= was
    BY <1>3, FewerMissing
  <2>2. is \in Nat /\ was \in Nat
    BY EntriesAreFinite, FS_Subset, FS_CardinalityType
  <2>3. was <= RecoveryBlocks
    BY DEF Recoverable
  <2> HIDE DEF is, was
  <2>4. is <= RecoveryBlocks
    BY <1>1, <2>1, <2>2, <2>3
  <2> QED BY <1>3, <2>4 DEF Recoverable, is
<1> QED BY <1>2, <1>3, KeptIsOnDisk DEF DataIsThere, ParFilesAreThere

THEOREM ThereInvariance ==
  ASSUME Setting, PurgeIsSafe
  PROVE  Spec => [](DataIsThere /\ ParFilesAreThere)
<1>1. SInv /\ SuccessInv /\ SuccessInv' /\ DataIsThere /\ ParFilesAreThere /\ [Next]_vars
        => DataIsThere' /\ ParFilesAreThere'
  BY StepsAreSafe, ThereStep
<1> QED BY <1>1, ThereInit, SafeInvariance, SuccessInvariance, PTL DEF Spec

(* No failure, kill, rename, deletion or purge takes away what the next    *)
(* run needs (all of Process).                                             *)
THEOREM RepairStaysPossible ==
  ASSUME Setting, PurgeIsSafe
  PROVE  Spec => []StaysRecoverable
BY ThereIsEnough, ThereInvariance, PTL

-----------------------------------------------------------------------------
(* A run that meets no fault repairs what it found it can.  What it goes   *)
(* by: a target is there or was found to be absent, those that are not new *)
(* are complete, and the new ones are found to be when they are verified.  *)

TargetsKept ==
  pc \in {"CreateTargetFiles", "ComputeRSmatrix", "ProcessData"} =>
    \A f \in File \ verifylist : targetfile[f] \in {None, found.complete[f]}
TargetsMade ==
  pc \in {"ComputeRSmatrix", "ProcessData", "VerifyTargetFiles"} =>
    \A f \in File : targetfile[f] # None
TargetsVerified ==
  pc = "VerifyTargetFiles" => \A f \in File \ todo : found.complete[f] = targetfile[f]
EndsWell ==
  /\ Working => finalresult
  /\ pc \in {"RemoveBackupFiles", "RemoveParFiles"} => result = "Success"
  /\ pc = "Finished" /\ dorepair => result \in {"Success", "RepairNotPossible"}
TargetsWell == TargetsKept /\ TargetsMade /\ TargetsVerified /\ EndsWell

GoesWell == ~faulted => TargetsFound /\ MissingTargetIsAbsent /\ TargetsWell

LEMMA FaultsLast ==
  ASSUME [Next]_vars, ~faulted'
  PROVE  ~faulted \/ Rerun
BY DEF Next, Process, OpenTarget, VerifyTarget, OpenExtra, Scan, VerifiedSourceFiles,
   VerifiedExtraFiles, CheckVerificationResults, RenameDamaged, RenamedDamaged, RenameComplete,
   RenamedComplete, CreateTarget, CreatedTargetFiles, ComputeRSmatrix, ProcessData, ProcessedData,
   VerifiedTargetFiles, RemoveBackupFiles, RemoveParFiles, Kill, Fault, NoFault, environment, vars

(* A scan that can be read, of a file that is right and of which nothing   *)
(* was found, finds that it is.                                            *)
LEMMA ScanOfTarget ==
  ASSUME NEW before, NEW diskfile, NEW content, NEW f \in File, NEW onlyrenames \in BOOLEAN,
         Scan(before, diskfile, content, f, onlyrenames), ~faulted',
         before.location = [e \in Entry |-> before.location[e]],
         before.complete = [g \in File |-> before.complete[g]], before.complete[f] = None,
         \A i \in 1 .. BlockCount[f] : CanMatch(before.location, <<f, i>>, diskfile),
         content = Original(f)
  PROVE  /\ finalresult' = finalresult /\ found'.complete[f] = diskfile
         /\ \A g \in File \ {f} : found'.complete[g] = before.complete[g]
<1>1. PICK workers :
        found' = VerifyDataFile(before, diskfile, content, Len(content), f, workers, onlyrenames)
  BY DEF Scan, Fault
<1>2. finalresult' = finalresult
  BY DEF Scan, Fault
<1>3. found'.complete = [before.complete EXCEPT ![f] = diskfile]
  BY <1>1, PerfectFileIsComplete
<1> QED BY <1>2, <1>3

LEMMA WellVerified ==
  ASSUME TargetsWell, ~faulted',
         \/ \E f \in File : OpenTarget(f)
         \/ \E name \in todo : OpenExtra(name)
         \/ VerifiedSourceFiles \/ VerifiedExtraFiles \/ CheckVerificationResults
  PROVE  TargetsWell'
<1> USE DEF TargetsWell, TargetsKept, TargetsMade, TargetsVerified, EndsWell, Working
<1>1. CASE \E f \in File : OpenTarget(f)
  <2>1. pc' = "VerifySourceFiles" /\ finalresult' = finalresult /\ pc = "VerifySourceFiles"
    BY <1>1 DEF OpenTarget, Scan, Fault
  <2> QED BY <2>1
<1>2. CASE \E name \in todo : OpenExtra(name)
  <2>1. pc' = "VerifyExtraFiles" /\ finalresult' = finalresult /\ pc = "VerifyExtraFiles"
    BY <1>2 DEF OpenExtra, Scan, Fault
  <2> QED BY <2>1
<1>3. CASE VerifiedSourceFiles \/ VerifiedExtraFiles
  <2>1. finalresult
    BY <1>3 DEF VerifiedSourceFiles, VerifiedExtraFiles
  <2>2. pc' \in {"VerifyExtraFiles", "CheckVerificationResults"} /\ finalresult'
    BY <1>3, <2>1 DEF VerifiedSourceFiles, VerifiedExtraFiles, Enter
  <2> QED BY <2>2
<1>4. CASE CheckVerificationResults
  <2>1. finalresult /\ dorepair' = dorepair
    BY <1>4 DEF CheckVerificationResults, command
  <2>2. \/ pc' = "Finished" /\ result' = "RepairNotPossible"
        \/ pc' \in {"RemoveBackupFiles", "Finished"} /\ result' = "Success"
        \/ pc' = "RenameDamaged" /\ finalresult' = finalresult
        \/ pc' = "Finished" /\ ~dorepair
    BY <1>4 DEF CheckVerificationResults, Enter, Finish, Succeed
  <2> QED BY <2>1, <2>2
<1> QED BY <1>1, <1>2, <1>3, <1>4

(* No rename fails: the file is there, and its new name is free.           *)
LEMMA WellRenamed ==
  ASSUME NamesApart, SInv, DInv, TargetsWell, ~faulted',
         RenameDamaged \/ RenamedDamaged \/ RenameComplete \/ RenamedComplete
  PROVE  TargetsWell'
<1> USE DEF TargetsWell, TargetsKept, TargetsMade, TargetsVerified, EndsWell, Working
<1>1. CASE RenameDamaged
  <2> DEFINE f == FirstOf({g \in File : Damaged(g)})
  <2>1. targetfile[f] \in Objects /\ filename[targetfile[f]] = f
    BY <1>1, DamagedFacts DEF SInv
  <2>2. ~InsertFails(targetfile[f], BackupName(f))
    BY <1>1, DamagedIsInserted DEF SInv
  <2>3. f \in DOMAIN disk
    BY <1>1, <2>1, OInvFacts DEF SInv, RenameDamaged, MapAgrees
  <2> QED BY <1>1, <2>1, <2>2, <2>3 DEF RenameDamaged, Fault, control
<1>2. CASE RenameComplete
  <2> DEFINE f == FirstOf({g \in File : Misnamed(g)})
  <2>1. found.complete[f] \in Objects
    BY <1>2, MisnamedFacts DEF SInv
  <2>2. ~InsertFails(found.complete[f], f)
    BY <1>2, CompleteIsInserted
  <2>3. filename[found.complete[f]] \in DOMAIN disk
    BY <1>2, <2>1, OInvFacts DEF SInv, RenameComplete, MapAgrees
  <2> QED BY <1>2, <2>1, <2>2, <2>3 DEF RenameComplete, Fault, control
<1>3. CASE RenamedDamaged
  BY <1>3 DEF RenamedDamaged, Enter
<1>4. CASE RenamedComplete
  <2>1. \A f \in File : targetfile[f] \in {None, found.complete[f]}
    BY <1>4 DEF RenamedComplete, SInv, OInv, DamagedAreGone, Damaged
  <2> QED BY <1>4, <2>1 DEF RenamedComplete, Enter, Succeed
<1> QED BY <1>1, <1>2, <1>3, <1>4

(* No target that is created is there already.                             *)
LEMMA WellCreated ==
  ASSUME OInv, MissingTargetIsAbsent, TargetsWell, ~faulted', CreateTarget \/ CreatedTargetFiles
  PROVE  TargetsWell'
<1> USE DEF TargetsWell, TargetsKept, TargetsMade, TargetsVerified, EndsWell, Working
<1>1. CASE CreateTarget
  <2> DEFINE f == FirstOf({g \in File : targetfile[g] = None})
  <2>1. f \in File /\ targetfile[f] = None /\ Known(targetfile) /\ pc = "CreateTargetFiles"
    BY <1>1, FirstOfIsOf, OInvFacts DEF CreateTarget, BeforeVerify
  <2>2. f \notin DOMAIN disk
    BY <2>1 DEF MissingTargetIsAbsent
  <2>3. /\ targetfile' = [targetfile EXCEPT ![f] = Created(f)] /\ verifylist' = verifylist \union {f}
        /\ UNCHANGED <<control, found>>
    BY <1>1, <2>2 DEF CreateTarget, Fault
  <2> HIDE DEF f
  <2> QED BY <2>1, <2>3 DEF Known, control
<1>2. CASE CreatedTargetFiles
  BY <1>2 DEF CreatedTargetFiles, Enter, lists
<1> QED BY <1>1, <1>2

(* All blocks can be read where they were found.                           *)
LEMMA WellProcessed ==
  ASSUME OInv, DInv, TargetsWell, ~faulted', ComputeRSmatrix \/ ProcessData \/ ProcessedData
  PROVE  TargetsWell'
<1> USE DEF TargetsWell, TargetsKept, TargetsMade, TargetsVerified, EndsWell, Working
<1>1. CASE ComputeRSmatrix
  BY <1>1 DEF ComputeRSmatrix, Fault, lists
<1>2. CASE ProcessData
  <2>1. LocationsTrue
    BY FoundAreThere
  <2>2. \A e \in InputBlocks : Readable(e)
    BY <1>2, <2>1 DEF LocationsTrue, InputBlocks, ProcessData, BeforeVerify
  <2>3. pc = "ProcessData" /\ UNCHANGED <<pc, targetfile, found, verifylist, finalresult>>
    BY <1>2, <2>2 DEF ProcessData, Fault, lists
  <2> QED BY <2>3
<1>3. CASE ProcessedData
  BY <1>3 DEF ProcessedData, Enter
<1> QED BY <1>1, <1>2, <1>3

LEMMA WellTargets ==
  ASSUME OInv, DInv, TargetsWell, ~faulted', NEW f \in File, VerifyTarget(f)
  PROVE  TargetsWell'
<1>1. /\ pc = "VerifyTargetFiles" /\ pc' = pc /\ f \in todo /\ todo' = todo \ {f}
      /\ targetfile' = targetfile /\ Working /\ todo \subseteq verifylist
      /\ \A g \in verifylist : disk[g] = Original(g) /\ IsNewTarget(g)
      /\ FoundIn(found, Contents(Objects))
  BY DEF VerifyTarget, Working, OInv, DInv, Rebuilt, FoundTrue, VerifyListCreated
<1>2. disk[filename[targetfile[f]]] = Original(f)
  BY <1>1 DEF IsNewTarget
<1> DEFINE before == Forget(f)
<1>3. /\ before.location = [e \in Entry |-> before.location[e]]
      /\ before.complete = [g \in File |-> before.complete[g]] /\ before.complete[f] = None
      /\ \A g \in File \ {f} : before.complete[g] = found.complete[g]
  BY <1>1 DEF Forget, FoundIn, CompleteTrue
<1>4. \A i \in 1 .. BlockCount[f] : CanMatch(before.location, <<f, i>>, targetfile[f])
  BY MakeEntry DEF Forget, CanMatch, FileOf
<1> DEFINE onlyrenames == FALSE
<1>5. Scan(before, targetfile[f], disk[filename[targetfile[f]]], f, onlyrenames)
  BY DEF VerifyTarget, Fault
<1>6. onlyrenames \in BOOLEAN
  OBVIOUS
<1> HIDE DEF onlyrenames, before
<1>7. /\ finalresult' = finalresult /\ found'.complete[f] = targetfile[f]
      /\ \A g \in File \ {f} : found'.complete[g] = before.complete[g]
  BY <1>2, <1>3, <1>4, <1>5, <1>6, ScanOfTarget
<1> QED BY <1>1, <1>3, <1>7
     DEF TargetsWell, TargetsKept, TargetsMade, TargetsVerified, EndsWell, Working

LEMMA WellEnded ==
  ASSUME TargetsWell, ~faulted', VerifiedTargetFiles \/ RemoveBackupFiles \/ RemoveParFiles
  PROVE  TargetsWell'
<1> USE DEF TargetsWell, TargetsKept, TargetsMade, TargetsVerified, EndsWell, Working
<1>1. CASE VerifiedTargetFiles
  <2>1. pc = "VerifyTargetFiles" /\ todo = {} /\ finalresult /\ UpdateVerificationResults
    BY <1>1 DEF VerifiedTargetFiles
  <2>2. {f \in File : found.complete[f] # None /\ found.complete[f] = targetfile[f]} = File
    BY <2>1
  <2>3. completefilecount' = Cardinality(File)
    BY <2>1, <2>2 DEF UpdateVerificationResults
  <2>4. completefilecount' = Total /\ Total \in Nat
    BY <2>3, FilesAreFinite
  <2>5. ~(completefilecount' < Total)
    BY <2>4
  <2>6. pc' \in {"RemoveBackupFiles", "Finished"} /\ result' = "Success"
    BY <1>1, <2>1, <2>5 DEF VerifiedTargetFiles, Succeed
  <2> QED BY <2>6
<1>2. CASE RemoveBackupFiles
  BY <1>2 DEF RemoveBackupFiles, command
<1>3. CASE RemoveParFiles
  BY <1>3 DEF RemoveParFiles
<1> QED BY <1>1, <1>2, <1>3

LEMMA WellStep ==
  ASSUME NamesApart, OInv, OInv', DInv, GoesWell, [Next]_vars
  PROVE  GoesWell'
<1> SUFFICES ASSUME ~faulted' PROVE TargetsFound' /\ MissingTargetIsAbsent' /\ TargetsWell'
  BY DEF GoesWell
<1>1. CASE Rerun
  <2>1. pc' = "VerifySourceFiles" /\ todo' = File /\ finalresult'
    BY <1>1 DEF Rerun
  <2>2. TargetsFound' /\ MissingTargetIsAbsent'
    BY <2>1 DEF TargetsFound, Dealt, MissingTargetIsAbsent
  <2>3. TargetsWell'
    BY <2>1 DEF TargetsWell, TargetsKept, TargetsMade, TargetsVerified, EndsWell
  <2> QED BY <2>2, <2>3
<1>2. CASE ~faulted
  <2>1. SInv /\ MissingTargetIsAbsent /\ TargetsWell
    BY <1>2 DEF GoesWell, SInv
  <2>2. TargetsFound'
    <3>1. Good
      BY <2>1, StepIsGood
    <3> QED BY <3>1 DEF Good
  <2>3. MissingTargetIsAbsent'
    BY <2>1, <2>2, AbsentStep DEF SInv
  <2> SUFFICES TargetsWell'
    BY <2>2, <2>3
  <2>4. CASE UNCHANGED vars
    BY <2>1, <2>4 DEF TargetsWell, TargetsKept, TargetsMade, TargetsVerified, EndsWell, Working,
       vars, lists, control, command
  <2>5. ~Kill
    BY DEF Kill, Fault
  <2>6. CASE Process
    <3>1. CASE \/ \E f \in File : OpenTarget(f)
               \/ \E name \in todo : OpenExtra(name)
               \/ VerifiedSourceFiles \/ VerifiedExtraFiles \/ CheckVerificationResults
      BY <2>1, <3>1, WellVerified
    <3>2. CASE RenameDamaged \/ RenamedDamaged \/ RenameComplete \/ RenamedComplete
      BY <2>1, <3>2, WellRenamed
    <3>3. CASE CreateTarget \/ CreatedTargetFiles
      BY <2>1, <3>3, WellCreated
    <3>4. CASE ComputeRSmatrix \/ ProcessData \/ ProcessedData
      BY <2>1, <3>4, WellProcessed
    <3>5. CASE \E f \in File : VerifyTarget(f)
      BY <2>1, <3>5, WellTargets
    <3>6. CASE VerifiedTargetFiles \/ RemoveBackupFiles \/ RemoveParFiles
      BY <2>1, <3>6, WellEnded
    <3> QED BY <2>6, <3>1, <3>2, <3>3, <3>4, <3>5, <3>6 DEF Process
  <2>7. CASE Rerun
    BY <1>1, <2>7
  <2> QED BY <2>4, <2>5, <2>6, <2>7 DEF Next
<1> QED BY <1>1, <1>2, FaultsLast

LEMMA WellInit == Init => GoesWell
BY DEF Init, GoesWell, TargetsFound, Dealt, MissingTargetIsAbsent, TargetsWell, TargetsKept,
       TargetsMade, TargetsVerified, EndsWell, Working

THEOREM WellInvariance == ASSUME NamesApart PROVE Spec => []GoesWell
<1>1. OInv /\ OInv' /\ DInv /\ GoesWell /\ [Next]_vars => GoesWell'
  BY WellStep
<1> QED BY <1>1, WellInit, ObjectsInvariance, DataInvariance, PTL DEF Spec

(* A run that may repair, and meets no fault, ends with every target       *)
(* repaired unless it found that there is too little to repair from (all   *)
(* of Process; the renames, the creation, the repair and the verification  *)
(* of the new targets cannot go wrong by themselves).                      *)
THEOREM PossibleIsRepaired ==
  ASSUME NamesApart
  PROVE  Spec => []PossibleMeansRepaired
<1>1. GoesWell => PossibleMeansRepaired
  BY DEF GoesWell, TargetsWell, EndsWell, PossibleMeansRepaired
<1> QED BY <1>1, WellInvariance, PTL

-----------------------------------------------------------------------------
(* A verification that meets no fault overlooks nothing, in a set of which *)
(* no two blocks have the same data: the finding of the run twin_perfect   *)
(* shows that it may overlook a complete target where two have.            *)

Verifying == pc \in {"VerifySourceFiles", "VerifyExtraFiles", "CheckVerificationResults"}
Searched(name) == SeenIsFound(found.location, disk[name], 1 .. Len(disk[name]))

PerfectFound == Verifying => \A f \in Dealt : Repaired(f) => found.complete[f] # None
OpenedSearched == Verifying /\ ~renameonly => \A name \in DOMAIN diskFileMap : Searched(name)

(* The files that are still to be opened.                                  *)
AllGiven ==
  everything =>
    /\ pc = "VerifySourceFiles" => DOMAIN disk \subseteq extrafiles \union DOMAIN diskFileMap
    /\ pc = "VerifyExtraFiles" => DOMAIN disk \subseteq todo \union DOMAIN diskFileMap
    /\ pc = "CheckVerificationResults" =>
         (\A e \in Entry : IsSet(found, e)) \/ DOMAIN disk \subseteq DOMAIN diskFileMap

OverlooksNothing == PerfectFound /\ OpenedSearched /\ AllGiven
NothingOverlooked == ~faulted => OverlooksNothing

LEMMA SeenStays ==
  ASSUME NEW location, NEW later, NEW content, NEW seen, SeenIsFound(location, content, seen),
         \A e \in Entry : location[e] # None => later[e] # None
  PROVE  SeenIsFound(later, content, seen)
BY DEF SeenIsFound

(* A scan that can be read keeps what was found, and finds all that is in  *)
(* the file.                                                               *)
LEMMA ScanSearches ==
  ASSUME NoTwinBlocks, NEW contents, FoundIn(found, contents),
         NEW diskfile, diskfile # None, \A q \in Nat : <<diskfile, q>> # None,
         NEW content \in Seq(Data), NEW sourcefile \in File \union {None},
         NEW onlyrenames \in BOOLEAN, Scan(found, diskfile, content, sourcefile, onlyrenames), ~faulted'
  PROVE  /\ \A e \in Entry : found.location[e] # None => found'.location[e] # None
         /\ \A f \in File : found.complete[f] # None => found'.complete[f] # None
         /\ ~onlyrenames => SeenIsFound(found'.location, content, 1 .. Len(content))
<1>1. PICK workers : found' = VerifyDataFile(found, diskfile, content, Len(content),
                                            sourcefile, workers, onlyrenames)
  BY DEF Scan, Fault
<1>2. /\ found.location = [e \in Entry |-> found.location[e]]
      /\ found.complete = [f \in File |-> found.complete[f]]
      /\ \A e \in Entry : found.complete[FileOf(e)] # None => found.location[e] # None
  BY EntryFacts DEF FoundIn, PlacesTrue, CompleteTrue, FileOf
<1>3. Len(content) \in 0 .. Len(content)
  OBVIOUS
<1>4. Located(found'.location, found.location, diskfile, content)
  BY <1>1, <1>2, <1>3, VerifyDataFileFinds
<1>5. \A e \in Entry : found.location[e] # None => found'.location[e] # None
  <2> SUFFICES ASSUME NEW e \in Entry, found.location[e] # None PROVE found'.location[e] # None
    OBVIOUS
  <2>1. \/ found'.location[e] = found.location[e]
        \/ \E q \in 1 .. Len(content) : found'.location[e] = <<diskfile, q>>
    BY <1>4 DEF Located
  <2>2. \A q \in 1 .. Len(content) : q \in Nat
    OBVIOUS
  <2> QED BY <2>1, <2>2
<1>6. PICK f : found'.complete \in {found.complete, [found.complete EXCEPT ![f] = diskfile]}
  BY <1>1, VerifyDataFileCompletes
<1>7. \A g \in File : found.complete[g] # None => found'.complete[g] # None
  BY <1>2, <1>6
<1>8. ASSUME ~onlyrenames PROVE SeenIsFound(found'.location, content, 1 .. Len(content))
  BY <1>1, <1>2, <1>8, ScanMissesNothing
<1> QED BY <1>5, <1>7, <1>8

(* What was found is in files that were opened before.                     *)
LEMMA UnopenedCanMatch ==
  ASSUME NoTwinBlocks, NEW contents, FoundIn(found, contents), NEW diskfile,
         diskfile \notin DOMAIN contents, NEW f \in File
  PROVE  \A i \in 1 .. BlockCount[f] : CanMatch(found.location, <<f, i>>, diskfile)
<1> SUFFICES ASSUME NEW i \in 1 .. BlockCount[f], found.location[<<f, i>>] # None
             PROVE  HasNoTwin(<<f, i>>) /\ found.location[<<f, i>>][1] # diskfile
  BY DEF CanMatch
<1>1. <<f, i>> \in Entry
  BY MakeEntry
<1>2. IsAt(found.location[<<f, i>>], BlockData[<<f, i>>], contents)
  BY <1>1 DEF FoundIn, PlacesTrue
<1> QED BY <1>1, <1>2 DEF IsAt, NoTwinBlocks

LEMMA OpenTargetMissesNothing ==
  ASSUME NoTwinBlocks, OInv, DInv, OverlooksNothing, ~faulted', NEW f \in File, OpenTarget(f)
  PROVE  OverlooksNothing'
<1>1. /\ pc = "VerifySourceFiles" /\ pc' = pc /\ disk' = disk /\ f \in todo /\ todo' = todo \ {f}
      /\ extrafiles' = extrafiles \ {f} /\ renameonly' = renameonly /\ everything' = everything
      /\ MapAgrees /\ AsOpened /\ DiskIsData /\ f \in Name
      /\ FoundIn(found, Contents(OpenedObjects))
  BY OInvFacts, ObjectsAreNotNone
     DEF OpenTarget, OInv, IInv, Running, DInv, FoundTrue, BeforeVerify
<1>2. CASE f \notin DOMAIN disk /\ UNCHANGED <<files, found>>
  <2>1. PerfectFound'
    BY <1>1, <1>2 DEF OverlooksNothing, PerfectFound, Verifying, Dealt, Repaired
  <2>2. OpenedSearched'
    BY <1>1, <1>2 DEF OverlooksNothing, OpenedSearched, Verifying, Searched, files
  <2>3. AllGiven'
    BY <1>1, <1>2 DEF OverlooksNothing, AllGiven, files
  <2> QED BY <2>1, <2>2, <2>3 DEF OverlooksNothing
<1>3. CASE /\ f \in DOMAIN disk
           /\ diskFileMap' = With(diskFileMap, f, Opened(f))
           /\ Scan(found, Opened(f), disk[f], f, FALSE)
  <2>1. DOMAIN Contents(OpenedObjects) \subseteq Objects /\ Opened(f) \notin Objects
    BY <1>1 DEF Contents, OpenedObjects, AsOpened, MapAgrees, Opened
  <2>2. /\ Opened(f) # None /\ \A q \in Nat : <<Opened(f), q>> # None
        /\ disk[f] \in Seq(Data)
    BY <1>1, <1>3, ObjectsAreNotNone DEF DiskIsData
  <2> DEFINE onlyrenames == FALSE
             diskfile == Opened(f)
             contents == Contents(OpenedObjects)
  <2>3. /\ onlyrenames \in BOOLEAN /\ ~onlyrenames /\ Scan(found, diskfile, disk[f], f, onlyrenames)
        /\ FoundIn(found, contents) /\ diskfile \notin DOMAIN contents /\ diskfile # None
        /\ \A q \in Nat : <<diskfile, q>> # None
    BY <1>1, <1>3, <2>1, <2>2
  <2> HIDE DEF onlyrenames, diskfile, contents
  <2>4. /\ \A e \in Entry : found.location[e] # None => found'.location[e] # None
        /\ \A g \in File : found.complete[g] # None => found'.complete[g] # None
        /\ SeenIsFound(found'.location, disk[f], 1 .. Len(disk[f]))
    BY <2>2, <2>3, ScanSearches
  <2>5. ASSUME disk[f] = Original(f), found.complete[f] = None PROVE found'.complete[f] # None
    <3>1. \A i \in 1 .. BlockCount[f] : CanMatch(found.location, <<f, i>>, diskfile)
      BY <2>3, UnopenedCanMatch
    <3>2. /\ found.location = [e \in Entry |-> found.location[e]]
          /\ found.complete = [g \in File |-> found.complete[g]]
      BY <2>3 DEF FoundIn, PlacesTrue, CompleteTrue
    <3>3. found'.complete[f] = diskfile
      BY <2>3, <2>5, <3>1, <3>2, ScanOfTarget
    <3> QED BY <2>3, <3>3
  <2>6. PerfectFound'
    BY <1>1, <2>4, <2>5 DEF OverlooksNothing, PerfectFound, Verifying, Dealt, Repaired
  <2>7. DOMAIN diskFileMap' = DOMAIN diskFileMap \union {f}
    BY <1>3 DEF With
  <2>8. OpenedSearched'
    <3> SUFFICES ASSUME ~renameonly, NEW name \in DOMAIN diskFileMap'
                 PROVE  SeenIsFound(found'.location, disk[name], 1 .. Len(disk[name]))
      BY <1>1 DEF OpenedSearched, Searched
    <3>1. CASE name \in DOMAIN diskFileMap
      <4>1. SeenIsFound(found.location, disk[name], 1 .. Len(disk[name]))
        BY <1>1, <3>1 DEF OverlooksNothing, OpenedSearched, Verifying, Searched
      <4> QED BY <2>4, <4>1, SeenStays
    <3> QED BY <2>4, <2>7, <3>1
  <2>9. AllGiven'
    BY <1>1, <2>7 DEF OverlooksNothing, AllGiven
  <2> QED BY <2>6, <2>8, <2>9 DEF OverlooksNothing
<1> QED BY <1>2, <1>3 DEF OpenTarget, Fault

LEMMA OpenExtraMissesNothing ==
  ASSUME NoTwinBlocks, OInv, DInv, OverlooksNothing, ~faulted', NEW name \in todo, OpenExtra(name)
  PROVE  OverlooksNothing'
<1>1. /\ pc = "VerifyExtraFiles" /\ pc' = pc /\ disk' = disk /\ todo' = todo \ {name}
      /\ renameonly' = renameonly /\ everything' = everything /\ renameonly \in BOOLEAN
      /\ MapAgrees /\ AsOpened /\ DiskIsData /\ NamesKnown
      /\ FoundIn(found, Contents(OpenedObjects))
  BY OInvFacts DEF OpenExtra, OInv, IInv, Running, DInv, FoundTrue, BeforeVerify, ControlTyped, command
<1>2. CASE name \in DOMAIN diskFileMap /\ UNCHANGED <<files, found>>
  <2>1. PerfectFound'
    BY <1>1, <1>2 DEF OverlooksNothing, PerfectFound, Verifying, Dealt, Repaired
  <2>2. OpenedSearched'
    BY <1>1, <1>2 DEF OverlooksNothing, OpenedSearched, Verifying, Searched, files
  <2>3. AllGiven'
    BY <1>1, <1>2 DEF OverlooksNothing, AllGiven, files
  <2> QED BY <2>1, <2>2, <2>3 DEF OverlooksNothing
<1>3. CASE /\ name \notin DOMAIN diskFileMap
           /\ diskFileMap' = With(diskFileMap, name, Opened(name))
           /\ Scan(found, Opened(name), disk[name], None, renameonly)
  <2>1. name \in DOMAIN disk /\ name \in Name
    BY <1>1 DEF AsOpened, NamesKnown
  <2> DEFINE diskfile == Opened(name)
             contents == Contents(OpenedObjects)
  <2>2. /\ diskfile # None /\ \A q \in Nat : <<diskfile, q>> # None
        /\ disk[name] \in Seq(Data) /\ FoundIn(found, contents)
        /\ Scan(found, diskfile, disk[name], None, renameonly)
    BY <1>1, <1>3, <2>1, ObjectsAreNotNone DEF DiskIsData
  <2> HIDE DEF diskfile, contents
  <2>3. None \in File \union {None}
    OBVIOUS
  <2>4. /\ \A e \in Entry : found.location[e] # None => found'.location[e] # None
        /\ \A g \in File : found.complete[g] # None => found'.complete[g] # None
        /\ ~renameonly => SeenIsFound(found'.location, disk[name], 1 .. Len(disk[name]))
    BY <1>1, <2>2, <2>3, ScanSearches
  <2>5. PerfectFound'
    BY <1>1, <2>4 DEF OverlooksNothing, PerfectFound, Verifying, Dealt, Repaired
  <2>6. DOMAIN diskFileMap' = DOMAIN diskFileMap \union {name}
    BY <1>3 DEF With
  <2>7. OpenedSearched'
    <3> SUFFICES ASSUME ~renameonly, NEW other \in DOMAIN diskFileMap'
                 PROVE  SeenIsFound(found'.location, disk[other], 1 .. Len(disk[other]))
      BY <1>1 DEF OpenedSearched, Searched
    <3>1. CASE other \in DOMAIN diskFileMap
      <4>1. SeenIsFound(found.location, disk[other], 1 .. Len(disk[other]))
        BY <1>1, <3>1 DEF OverlooksNothing, OpenedSearched, Verifying, Searched
      <4> QED BY <2>4, <4>1, SeenStays
    <3> QED BY <2>4, <2>6, <3>1
  <2>8. AllGiven'
    BY <1>1, <2>6 DEF OverlooksNothing, AllGiven
  <2> QED BY <2>5, <2>7, <2>8 DEF OverlooksNothing
<1> QED BY <1>2, <1>3 DEF OpenExtra, Fault

(* When every file was found to be complete, every block was found.        *)
LEMMA StageMissesNothing ==
  ASSUME OInv, DInv, OverlooksNothing, VerifiedSourceFiles \/ VerifiedExtraFiles
  PROVE  OverlooksNothing'
<1>1. /\ UNCHANGED <<disk, diskFileMap, found, renameonly, everything>> /\ todo = {}
      /\ BeforeVerify /\ FoundIn(found, Contents(OpenedObjects))
  BY DEF VerifiedSourceFiles, VerifiedExtraFiles, files, command, DInv, FoundTrue, BeforeVerify
<1>2. \/ pc = "VerifySourceFiles" /\ pc' = "VerifyExtraFiles" /\ todo' = extrafiles
      \/ pc = "VerifyExtraFiles" /\ pc' = "CheckVerificationResults"
      \/ pc = "VerifySourceFiles" /\ pc' = "Finished"
      \/ /\ pc = "VerifySourceFiles" /\ pc' = "CheckVerificationResults"
         /\ ~(completefilecount' < Total) /\ UpdateVerificationResults
  BY DEF VerifiedSourceFiles, VerifiedExtraFiles, Enter, Finish
<1>3. PerfectFound'
  BY <1>1, <1>2 DEF OverlooksNothing, PerfectFound, Verifying, Dealt, Repaired
<1>4. OpenedSearched'
  BY <1>1, <1>2 DEF OverlooksNothing, OpenedSearched, Verifying, Searched
<1>5. ASSUME ~(completefilecount' < Total), UpdateVerificationResults
      PROVE  \A e \in Entry : IsSet(found, e)
  <2> DEFINE right == {f \in File : found.complete[f] # None /\ found.complete[f] = targetfile[f]}
  <2>1. completefilecount' = Cardinality(right) /\ right \in SUBSET File
    BY <1>5 DEF UpdateVerificationResults
  <2> HIDE DEF right
  <2>2. Cardinality(right) \in Nat /\ Total \in Nat
    BY <2>1, FilesAreFinite, FS_Subset, FS_CardinalityType
  <2>3. right = File
    BY <1>5, <2>1, <2>2, AllOfFile
  <2> QED BY <1>1, <2>3, EntryFacts DEF right, FoundIn, CompleteTrue, IsSet, FileOf
<1>6. AllGiven'
  BY <1>1, <1>2, <1>5 DEF OverlooksNothing, AllGiven, IsSet
<1> QED BY <1>3, <1>4, <1>6 DEF OverlooksNothing

LEMMA MissesNothingStep ==
  ASSUME NoTwinBlocks, OInv, DInv, NothingOverlooked, [Next]_vars
  PROVE  NothingOverlooked'
<1> SUFFICES ASSUME ~faulted' PROVE OverlooksNothing'
  BY DEF NothingOverlooked
<1>1. CASE Rerun
  <2>1. /\ pc' = "VerifySourceFiles" /\ todo' = File /\ diskFileMap' = <<>> /\ disk' = disk
        /\ everything' => extrafiles' = DOMAIN disk
    BY <1>1 DEF Rerun
  <2> QED BY <2>1 DEF OverlooksNothing, PerfectFound, OpenedSearched, AllGiven, Dealt
<1>2. CASE ~faulted /\ ~Rerun
  <2>1. OverlooksNothing
    BY <1>2 DEF NothingOverlooked
  <2>2. CASE \E f \in File : OpenTarget(f)
    BY <2>1, <2>2, OpenTargetMissesNothing
  <2>3. CASE \E name \in todo : OpenExtra(name)
    BY <2>1, <2>3, OpenExtraMissesNothing
  <2>4. CASE VerifiedSourceFiles \/ VerifiedExtraFiles
    BY <2>1, <2>4, StageMissesNothing
  <2>5. CASE UNCHANGED vars
    BY <2>1, <2>5 DEF OverlooksNothing, PerfectFound, OpenedSearched, AllGiven, Verifying, Dealt,
       Repaired, Searched, IsSet, vars, files, control, command
  <2>6. CASE /\ ~VerifiedSourceFiles /\ ~VerifiedExtraFiles /\ Process
             /\ ~\E f \in File : OpenTarget(f)
             /\ ~\E name \in todo : OpenExtra(name)
    <3>1. pc' \notin {"VerifySourceFiles", "VerifyExtraFiles", "CheckVerificationResults"}
      BY <2>6 DEF Process, CheckVerificationResults, RenameDamaged, RenamedDamaged, RenameComplete,
         RenamedComplete, RenameFailed, AssertFailed, CreateTarget, CreatedTargetFiles,
         ComputeRSmatrix, ProcessData, ProcessedData, VerifyTarget, VerifiedTargetFiles,
         DeleteIncompleteTargetFiles, RemoveBackupFiles, RemoveParFiles, Enter, Finish, Succeed, control
    <3> QED BY <3>1 DEF OverlooksNothing, PerfectFound, OpenedSearched, AllGiven, Verifying
  <2>7. ~Kill
    BY DEF Kill, Fault
  <2> QED BY <1>2, <2>2, <2>3, <2>4, <2>5, <2>6, <2>7 DEF Next
<1> QED BY <1>1, <1>2, FaultsLast

LEMMA MissesNothingInit == Init => NothingOverlooked
BY DEF Init, NothingOverlooked, OverlooksNothing, PerfectFound, OpenedSearched, AllGiven, Dealt

THEOREM MissesNothing == ASSUME NoTwinBlocks PROVE Spec => []NothingOverlooked
<1>1. OInv /\ DInv /\ NothingOverlooked /\ [Next]_vars => NothingOverlooked'
  BY MissesNothingStep
<1> QED BY <1>1, MissesNothingInit, ObjectsInvariance, DataInvariance, PTL DEF Spec

(* A target that is right is found to be complete, whatever was found      *)
(* before in other files (VerifySourceFiles, ScanDataFile, the lookups of  *)
(* verificationhashtable.h).                                               *)
THEOREM PerfectTargetsAreFound ==
  ASSUME NoTwinBlocks
  PROVE  Spec => []PerfectTargetFound
<1>1. NothingOverlooked => PerfectTargetFound
  BY DEF NothingOverlooked, OverlooksNothing, PerfectFound, Verifying, Dealt, PerfectTargetFound
<1> QED BY <1>1, MissesNothing, PTL

(* After a look at all the files the blocks that were not found are the    *)
(* ones no file has.                                                       *)
LEMMA MissingAreNowhere ==
  ASSUME OInv, DInv, OverlooksNothing, pc = "CheckVerificationResults", everything, ~renameonly
  PROVE  missingblockcount = Cardinality({e \in Entry : BlockData[e] \notin DataOn(disk)})
<1>1. MapAgrees /\ DiskIsData /\ BeforeVerify /\ FoundIn(found, Contents(OpenedObjects))
  BY OInvFacts DEF DInv, FoundTrue, BeforeVerify
<1>2. ASSUME NEW e \in Entry, IsSet(found, e) PROVE BlockData[e] \in DataOn(disk)
  <2>1. Readable(e) /\ ReadData(e) = BlockData[e]
    BY <1>1, <1>2, FoundAreThere DEF LocationsTrue
  <2> QED BY <2>1 DEF Readable, ReadData, DataOn, ToSet
<1>3. ASSUME NEW e \in Entry, BlockData[e] \in DataOn(disk) PROVE IsSet(found, e)
  <2>1. PICK name \in DOMAIN disk : BlockData[e] \in ToSet(disk[name])
    BY <1>3 DEF DataOn
  <2>2. \E q \in 1 .. Len(disk[name]) : disk[name][q] = BlockData[e]
    BY <1>1, <2>1 DEF DiskIsData, ToSet
  <2>3. CASE DOMAIN disk \subseteq DOMAIN diskFileMap
    <3>1. SeenIsFound(found.location, disk[name], 1 .. Len(disk[name]))
      BY <2>3 DEF OverlooksNothing, OpenedSearched, Verifying, Searched
    <3> QED BY <2>2, <3>1 DEF SeenIsFound, IsSet
  <2> QED BY <2>3 DEF OverlooksNothing, AllGiven
<1> DEFINE located == {e \in Entry : IsSet(found, e)}
           nowhere == {e \in Entry : BlockData[e] \notin DataOn(disk)}
<1>4. nowhere = Entry \ located /\ located \in SUBSET Entry
  BY <1>2, <1>3
<1>5. availableblockcount = Cardinality(located)
  BY <1>1 DEF DInv, AvailableCounted
<1> HIDE DEF located, nowhere
<1>6. Cardinality(nowhere) = Cardinality(Entry) - Cardinality(Entry \intersect located)
  BY <1>4, EntriesAreFinite, FS_Difference
<1>7. Entry \intersect located = located
  BY <1>4
<1> QED BY <1>5, <1>6, <1>7 DEF missingblockcount, SourceBlockCount, nowhere

(* The blocks reported missing are the ones no file has, once all files    *)
(* were looked through and not only for renames (FindMatch, ScanDataFile,  *)
(* UpdateVerificationResults).                                             *)
THEOREM MissingAreMissing ==
  ASSUME NoTwinBlocks, TRUE \notin RenameOnly
  PROVE  Spec => []MissingIsMissing
<1>1. Init => ~renameonly
  BY DEF Init
<1>2. ~renameonly /\ [Next]_vars => ~renameonly'
  BY DEF Next, Process, OpenTarget, VerifyTarget, OpenExtra, VerifiedSourceFiles, VerifiedExtraFiles,
     CheckVerificationResults, RenameDamaged, RenamedDamaged, RenameComplete, RenamedComplete,
     CreateTarget, CreatedTargetFiles, ComputeRSmatrix, ProcessData, ProcessedData, VerifiedTargetFiles,
     RemoveBackupFiles, RemoveParFiles, Kill, Rerun, vars, command
<1>3. OInv /\ DInv /\ NothingOverlooked /\ ~renameonly => MissingIsMissing
  BY MissingAreNowhere DEF NothingOverlooked, MissingIsMissing
<1> QED BY <1>1, <1>2, <1>3, ObjectsInvariance, DataInvariance, MissesNothing, PTL DEF Spec

(* A run gives up only when what was first on the disk is not enough.      *)
GivesUpRightly ==
  pc = "Finished" /\ result = "RepairNotPossible" /\ ~faulted /\ ~renameonly /\ everything
    => ~Recoverable(disk0, RecoveryBlocks)

LEMMA GivesUpStep ==
  ASSUME OInv, DInv, SuccessInv, NothingOverlooked, DataIsThere, ParFilesAreThere, GivesUpRightly,
         [Next]_vars
  PROVE  GivesUpRightly'
<1>1. CASE CheckVerificationResults
  <2>1. /\ pc = "CheckVerificationResults" /\ UNCHANGED <<renameonly, everything, disk0, faulted>>
        /\ result' = "RepairNotPossible" => RecoveryBlocks < missingblockcount \/ pc' # "Finished"
    BY <1>1 DEF CheckVerificationResults, Enter, Finish, Succeed, command, environment
  <2> SUFFICES ASSUME RecoveryBlocks < missingblockcount, ~faulted, ~renameonly, everything,
                      Recoverable(disk0, RecoveryBlocks)
               PROVE  FALSE
    BY <2>1 DEF GivesUpRightly, Recoverable, DataOn
  <2> DEFINE nowhere == {e \in Entry : BlockData[e] \notin DataOn(disk)}
  <2>2. missingblockcount = Cardinality(nowhere)
    BY <2>1, MissingAreNowhere DEF NothingOverlooked
  <2>3. Recoverable(disk, RecoveryBlocks)
    BY <2>1, ThereIsEnough DEF StaysRecoverable, ParFilesAreThere
  <2>4. Cardinality(nowhere) <= RecoveryBlocks
    BY <2>3 DEF Recoverable
  <2>5. Cardinality(nowhere) \in Nat /\ RecoveryBlocks \in Nat
    BY RepairAssumption, EntriesAreFinite, FS_Subset, FS_CardinalityType
  <2> HIDE DEF nowhere
  <2> QED BY <2>2, <2>4, <2>5
<1>2. CASE ~CheckVerificationResults
  <2>1. disk0' = disk0
    BY DEF Next, Process, OpenTarget, VerifyTarget, OpenExtra, VerifiedSourceFiles, VerifiedExtraFiles,
     CheckVerificationResults, RenameDamaged, RenamedDamaged, RenameComplete, RenamedComplete,
     CreateTarget, CreatedTargetFiles, ComputeRSmatrix, ProcessData, ProcessedData, VerifiedTargetFiles,
     RemoveBackupFiles, RemoveParFiles, Kill, Rerun, vars, command
  <2>2. CASE pc' = "Finished" /\ result' = "RepairNotPossible"
    <3>1. \/ pc = "Finished" /\ result = "RepairNotPossible"
             /\ UNCHANGED <<faulted, renameonly, everything>>
          \/ pc = "RemoveParFiles" /\ result = "RepairNotPossible"
      BY <1>2, <2>2 DEF Next, Process, OpenTarget, VerifyTarget, OpenExtra, VerifiedSourceFiles,
         VerifiedExtraFiles, RenameDamaged, RenamedDamaged, RenameComplete, RenamedComplete,
         RenameFailed, AssertFailed, CreateTarget, CreatedTargetFiles, ComputeRSmatrix, ProcessData,
         ProcessedData, VerifiedTargetFiles, DeleteIncompleteTargetFiles, RemoveBackupFiles,
         RemoveParFiles, Kill, Rerun, Enter, Finish, Succeed, vars, control, command, environment
    <3> QED BY <2>1, <3>1 DEF GivesUpRightly, SuccessInv, Recoverable, DataOn
  <2> QED BY <2>2 DEF GivesUpRightly
<1> QED BY <1>1, <1>2

(* Whatever the runs before it were stopped at and left behind, a run over *)
(* all the files that meets no fault repairs what could be repaired from   *)
(* the first disk (all of Process).                                        *)
THEOREM RetriesRepair ==
  ASSUME Setting, PurgeIsSafe, NoTwinBlocks
  PROVE  Spec => []RetryRepairs
<1>1. Init => GivesUpRightly
  BY DEF Init, GivesUpRightly
<1>2. OInv /\ DInv /\ SuccessInv /\ NothingOverlooked /\ DataIsThere /\ ParFilesAreThere
        /\ GivesUpRightly /\ [Next]_vars => GivesUpRightly'
  BY GivesUpStep
<1>3. SuccessInv /\ PossibleMeansRepaired /\ GivesUpRightly => RetryRepairs
  BY DEF SuccessInv, PossibleMeansRepaired, GivesUpRightly, RetryRepairs
<1>4. NamesApart
  BY DEF Setting
<1> QED BY <1>1, <1>2, <1>3, <1>4, ObjectsInvariance, DataInvariance, MissesNothing,
     ThereInvariance, SuccessInvariance, PossibleIsRepaired, PTL DEF Spec

-----------------------------------------------------------------------------
(* The program does what SafeRepair promises.                              *)

LEMMA RefinesInit == Init => Safe!Init
<1> SUFFICES ASSUME Init PROVE Safe!Init
  OBVIOUS
<1>1. IsFiniteSet(DOMAIN disk) /\ CreatedNames = {} /\ pc = "VerifySourceFiles"
  BY StartsAssumption DEF Init, CreatedNames
<1> DEFINE kept == {disk[name] : name \in DOMAIN disk \ CreatedNames}
<1>2. kept = {disk[name] : name \in DOMAIN disk}
  BY <1>1
<1> HIDE DEF kept
<1>3. IsFiniteSet(kept)
  BY <1>1, <1>2, ImageIsFinite
<1> QED BY <1>1, <1>3 DEF Safe!Init, Safe!IsFiniteSet, IsFiniteSet, kept

LEMMA RefinesStep ==
  ASSUME Held, SuccessInv, SuccessInv', [Next]_vars
  PROVE  [Safe!Next]_(Safe!vars)
<1> USE DEF Safe!Next, Safe!vars, Safe!Work, Safe!Succeed, Safe!Purge, Safe!Stop, Safe!Again
<1>1. CASE Working
  <2>1. Kept' = Kept
    BY <1>1 DEF Held, RemoveBackupFiles, Working
  <2>2. CASE Working'
    BY <1>1, <2>1, <2>2 DEF Kept, Working
  <2>3. CASE ~Working' /\ result' # "Success"
    BY <1>1, <2>1, <2>3 DEF Kept, Working
  <2>4. CASE ~Working' /\ result' = "Success"
    <3>1. disk' = disk
      BY <1>1, <2>4 DEF Next, Process, OpenTarget, VerifyTarget, OpenExtra, VerifiedSourceFiles,
     VerifiedExtraFiles, CheckVerificationResults, RenameDamaged, RenamedDamaged, RenameComplete,
     RenamedComplete, RenameFailed, AssertFailed, CreateTarget, CreatedTargetFiles, ComputeRSmatrix,
     ProcessData, ProcessedData, VerifiedTargetFiles, DeleteIncompleteTargetFiles, RemoveBackupFiles,
     RemoveParFiles, Kill, Rerun, Enter, Finish, Succeed, vars, control, Working, SuccessInv
    <3>2. \A f \in File : Repaired(f) /\ Repaired(f)'
      BY <2>4, <3>1 DEF SuccessInv, Repaired
    <3> QED BY <1>1, <2>1, <2>4, <3>2 DEF Kept, Working
  <2> QED BY <2>2, <2>3, <2>4
<1>2. CASE RemoveBackupFiles
  <2>1. /\ pc = "RemoveBackupFiles" /\ pc' = "RemoveParFiles" /\ result' = result /\ result = "Success"
    BY <1>2 DEF RemoveBackupFiles, SuccessInv
  <2>2. \A f \in File : Repaired(f) /\ Repaired(f)'
    BY <2>1 DEF SuccessInv
  <2>3. Kept' \subseteq Kept
    BY <1>2 DEF RemoveBackupFiles, Kept, CreatedNames, Without, Restrict, files
  <2> QED BY <2>1, <2>2, <2>3 DEF Kept
<1>3. CASE RemoveParFiles \/ Kill \/ UNCHANGED vars
  BY <1>3 DEF RemoveParFiles, Kill, Finish, vars, files, control, SuccessInv, Repaired, CreatedNames
<1>4. CASE Rerun
  <2>1. pc = "Finished" /\ pc' = "VerifySourceFiles" /\ disk' = disk /\ CreatedNames' = {}
    BY <1>4 DEF Rerun, CreatedNames
  <2>2. Kept \subseteq Kept'
    BY <2>1 DEF Kept
  <2> QED BY <2>1, <2>2 DEF Kept, Repaired
<1>5. CASE ~Working /\ ~RemoveBackupFiles /\ ~RemoveParFiles /\ Process
  BY <1>5 DEF Working, Process, OpenTarget, VerifyTarget, OpenExtra, VerifiedSourceFiles,
     VerifiedExtraFiles, CheckVerificationResults, RenameDamaged, RenamedDamaged, RenameComplete,
     RenamedComplete, CreateTarget, CreatedTargetFiles, ComputeRSmatrix,
     ProcessData, ProcessedData, VerifiedTargetFiles
<1> QED BY <1>1, <1>2, <1>3, <1>4, <1>5 DEF Next

(* All of Process, with its failures, kills and further runs, implements   *)
(* SafeRepair.                                                             *)
THEOREM RepairImplementsSafeRepair ==
  ASSUME Setting, PurgeIsSafe
  PROVE  Spec => RepairIsSafe
<1>1. SInv /\ SuccessInv /\ SuccessInv' /\ [Next]_vars => [Safe!Next]_(Safe!vars)
  BY StepsAreSafe, RefinesStep
<1> QED BY <1>1, RefinesInit, SafeInvariance, SuccessInvariance, PTL DEF Spec, RepairIsSafe, Safe!Spec

=============================================================================
