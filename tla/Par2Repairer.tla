---------------------------- MODULE Par2Repairer ----------------------------
(***************************************************************************)
(* The stages of Par2Repairer::Process (src/src/par2repairer.cpp) once the *)
(* packets are loaded: verify the source files and the extra files, rename *)
(* the damaged and the misnamed ones, create the missing targets, rebuild  *)
(* and re-verify them, and purge.  The disk outlives the process: a run    *)
(* may be killed between any two calls, and the user may run it again.     *)
(*                                                                         *)
(* A name is a sequence: Append(name, k) is the name with ".k" added.      *)
(* A DiskFile object is <<"opened", the name it was opened by>> or         *)
(* <<"created", the source file it is the new target of>>.                 *)
(***************************************************************************)
EXTENDS ScanDataFile

CONSTANTS
  Starts,          \* [disk, purgefiles]: what the first run may find, a disk being
                   \* a function name -> pieces of data; whether to purge
  RecoveryBlocks,  \* the number of recovery packets loaded
  Workers,         \* the numbers of threads a scan may have for one file
  Chunks,          \* blocksize / chunksize, the passes of ProcessData
  Operations,      \* the values of dorepair: TRUE to repair, FALSE to verify
  RenameOnly,      \* the values of renameonly
  OpenFails,       \* whether opening a file that is there may fail
  MaxFaults,       \* bound: calls that fail, and kills, over all the runs
  MaxRuns          \* bound: how often the user runs it

ASSUME RepairAssumption ==
  /\ RecoveryBlocks \in Nat /\ MaxFaults \in Nat
  /\ Chunks \in Nat \ {0} /\ MaxRuns \in Nat \ {0}
  /\ Workers \subseteq Nat
  /\ Operations \union RenameOnly \union {OpenFails} \subseteq BOOLEAN

(* Names are made of letters, and the numbers of the backups.              *)
Names == File \union UNION {DOMAIN s.disk : s \in Starts}
Letter == Nat \union UNION {ToSet(name) : name \in Names}
Name == Seq(Letter)

ASSUME StartsAssumption ==
  /\ Names \subseteq Name
  /\ \A s \in Starts :
       /\ IsFiniteSet(DOMAIN s.disk) /\ s.purgefiles \in BOOLEAN
       /\ \A name \in DOMAIN s.disk : s.disk[name] \in Seq(Data)

DiskFileObject == {"opened", "created"} \X Name

ASSUME NoneAssumption ==
  /\ None \notin DiskFileObject /\ None \notin DiskFileObject \X Nat
  /\ None \notin {"Success", "Aborted"}

VARIABLES
  disk, parfiles,         \* the files on disk; whether the par2 files are there
  filename, diskFileMap,  \* DiskFile -> its name; name -> DiskFile
  targetfile, found,      \* of each source file; of each block
  verifylist, backuplist,
  completefilecount, availableblockcount,
  dorepair, purgefiles, renameonly, extrafiles,  \* the command
  pc, todo, blockoffset, finalresult, result,
  disk0, everything,      \* the first disk; whether all files on it were given
  faults, faulted, runs

files == <<filename, diskFileMap>>
lists == <<verifylist, backuplist>>
counts == <<completefilecount, availableblockcount>>
control == <<pc, todo, blockoffset, finalresult, result>>
environment == <<faults, faulted>>
command == <<dorepair, purgefiles, renameonly, extrafiles, everything, disk0, runs>>
vars == <<disk, parfiles, files, targetfile, found, lists, counts, control,
          environment, command>>

Opened(name) == <<"opened", name>>
Created(f) == <<"created", f>>
With(f, key, value) == [k \in DOMAIN f \union {key} |-> IF k = key THEN value ELSE f[k]]
Without(f, keys) == Restrict(f, DOMAIN f \ keys)
Total == Len(SourceFiles)
SourceBlockCount == Cardinality(Entry)
missingblockcount == SourceBlockCount - availableblockcount
Incomplete == completefilecount < Total

(* The files are dealt with in the order of the main packet.               *)
FirstOf(files_) == CHOOSE f \in files_ : \A g \in files_ : Number[f] <= Number[g]

NoTarget == [f \in File |-> None]

Init ==
  /\ \E s \in Starts : disk = s.disk /\ purgefiles = s.purgefiles
  /\ parfiles = TRUE
  /\ disk0 = disk /\ faults = 0 /\ runs = 1
  /\ filename = <<>> /\ diskFileMap = <<>>
  /\ targetfile = NoTarget /\ found = NothingFound
  /\ verifylist = {} /\ backuplist = {}
  /\ completefilecount = 0 /\ availableblockcount = 0
  /\ dorepair \in Operations /\ renameonly \in RenameOnly /\ everything \in BOOLEAN
  /\ extrafiles = IF everything THEN DOMAIN disk ELSE {}
  /\ pc = "VerifySourceFiles" /\ todo = File /\ blockoffset = 0
  /\ finalresult = TRUE /\ result = None
  /\ faulted = FALSE

(* A call to the system fails.                                             *)
Fault == faults < MaxFaults /\ faults' = faults + 1 /\ faulted' = TRUE
NoFault == UNCHANGED environment

Finish(res) == pc' = "Finished" /\ result' = res /\ UNCHANGED <<todo, blockoffset, finalresult>>
Enter(stage, work) == pc' = stage /\ todo' = work /\ UNCHANGED <<blockoffset, finalresult, result>>

-----------------------------------------------------------------------------
(* Verification.                                                           *)

(* A slip: a file that is complete under another name counts as complete.  *)
CountRenamedComplete ==
  /\ completefilecount' = Cardinality({f \in File : found.complete[f] # None})
  /\ availableblockcount' = Cardinality({e \in Entry :
       found.complete[FileOf(e)] # None \/ IsSet(found, e)})

(* A slip: all the blocks of a damaged target count as available.          *)
CountDamagedWhole ==
  /\ completefilecount' = Cardinality({f \in File :
       found.complete[f] # None /\ found.complete[f] = targetfile[f]})
  /\ availableblockcount' = Cardinality({e \in Entry :
       targetfile[FileOf(e)] # None \/ IsSet(found, e)})

UpdateVerificationResults ==
  /\ completefilecount' = Cardinality({f \in File :
       found.complete[f] # None /\ found.complete[f] = targetfile[f]})
  /\ availableblockcount' = Cardinality({e \in Entry :
       found.complete[FileOf(e)] # None \/ IsSet(found, e)})

(* One file is scanned by any of the threads, and a read of it may fail; a *)
(* single thread takes the files in the order of their names.              *)
Scan(before, diskfile, content, sourcefile, onlyrenames) ==
  \E workers \in Workers :
    \/ /\ found' = VerifyDataFile(before, diskfile, content, Len(content),
                                  sourcefile, workers, onlyrenames)
       /\ NoFault /\ UNCHANGED finalresult
    \/ /\ Fault
       /\ Aligned(before, sourcefile, content, workers) # DOMAIN content
       /\ \E readable \in 0 .. Len(content) - 1 :
            found' = VerifyDataFile(before, diskfile, content, readable,
                                    sourcefile, workers, onlyrenames)
       /\ finalresult' = (sourcefile = None)

(* A target that cannot be opened is taken to be missing.                  *)
OpenTarget(f) ==
  /\ pc = "VerifySourceFiles" /\ f \in todo
  /\ todo' = todo \ {f}
  /\ extrafiles' = extrafiles \ {f}
  /\ \/ /\ (OpenFails /\ Fault) \/ (f \notin DOMAIN disk /\ NoFault)
        /\ UNCHANGED <<files, targetfile, found, finalresult>>
     \/ /\ f \in DOMAIN disk
        /\ targetfile' = [targetfile EXCEPT ![f] = Opened(f)]
        /\ filename' = With(filename, Opened(f), f)
        /\ diskFileMap' = With(diskFileMap, f, Opened(f))
        /\ Scan(found, Opened(f), disk[f], f, FALSE)
  /\ UNCHANGED <<disk, parfiles, lists, counts, pc, blockoffset, result,
                 dorepair, purgefiles, renameonly, everything, disk0, runs>>

VerifiedSourceFiles ==
  /\ pc = "VerifySourceFiles" /\ todo = {}
  /\ UpdateVerificationResults
  /\ IF ~finalresult THEN Finish("FileIOError")
     ELSE IF completefilecount' < Total THEN Enter("VerifyExtraFiles", extrafiles)
     ELSE Enter("CheckVerificationResults", {})
  /\ UNCHANGED <<disk, parfiles, files, targetfile, found, lists, environment, command>>

OpenExtra(name) ==
  /\ pc = "VerifyExtraFiles" /\ name \in todo
  /\ todo' = todo \ {name}
  /\ \/ /\ \/ name \in DOMAIN diskFileMap /\ NoFault
           \/ name \notin DOMAIN diskFileMap /\ OpenFails /\ Fault
        /\ UNCHANGED <<files, found, finalresult>>
     \/ /\ name \notin DOMAIN diskFileMap
        /\ filename' = With(filename, Opened(name), name)
        /\ diskFileMap' = With(diskFileMap, name, Opened(name))
        /\ Scan(found, Opened(name), disk[name], None, renameonly)
  /\ UNCHANGED <<disk, parfiles, targetfile, lists, counts, pc, blockoffset, result, command>>

VerifiedExtraFiles ==
  /\ pc = "VerifyExtraFiles" /\ todo = {}
  /\ UpdateVerificationResults
  /\ Enter("CheckVerificationResults", {})
  /\ UNCHANGED <<disk, parfiles, files, targetfile, found, lists, environment, command>>

(* The end of Process: the purge, if it was asked for.                     *)
Succeed ==
  /\ pc' = IF purgefiles THEN "RemoveBackupFiles" ELSE "Finished"
  /\ result' = "Success" /\ UNCHANGED <<todo, blockoffset, finalresult>>

CheckVerificationResults ==
  /\ pc = "CheckVerificationResults"
  /\ \/ RecoveryBlocks < missingblockcount /\ Finish("RepairNotPossible")
     \/ /\ RecoveryBlocks >= missingblockcount
        /\ \/ ~Incomplete /\ Succeed
           \/ Incomplete /\ dorepair /\ Enter("RenameDamaged", {})
           \/ Incomplete /\ ~dorepair /\ Finish("RepairPossible")
  /\ UNCHANGED <<disk, parfiles, files, targetfile, found, lists, counts, environment, command>>

-----------------------------------------------------------------------------
(* Repair.                                                                 *)

(* RenameTargetFiles, its two loops: a target that exists and is not the   *)
(* complete version of its file, and a complete version that is not yet    *)
(* the target.                                                             *)
DamagedUnlessFound(f) == targetfile[f] # None /\ found.complete[f] = None  \* a slip
Damaged(f) == targetfile[f] # None /\ targetfile[f] # found.complete[f]
Misnamed(f) == targetfile[f] = None /\ found.complete[f] # None

(* DiskFile::Rename(): the first free suffix.                              *)
FirstSuffix(name) == Append(name, 1)  \* a slip: whether it is free is not asked
BackupName(name) ==
  Append(name, CHOOSE k \in 1 .. Cardinality(DOMAIN disk) + 1 :
                 /\ Append(name, k) \notin DOMAIN disk
                 /\ \A j \in 1 .. k - 1 : Append(name, j) \in DOMAIN disk)

(* rename(2) replaces the file that has the new name.                      *)
CopyFile(old, new) == disk' = With(disk, new, disk[old])  \* a slip
MoveFile(old, new) == disk' = With(Without(disk, {old}), new, disk[old])

(* DiskFileMap::Remove, DiskFile::Rename and DiskFileMap::Insert.          *)
RenameKeepingName(id, new) ==  \* a slip: the object keeps its old name
  /\ diskFileMap' = With(Without(diskFileMap, {filename[id]}), new, id)
  /\ UNCHANGED filename

RenameLeavingEntry(id, new) ==  \* a slip: no DiskFileMap::Remove
  /\ filename' = [filename EXCEPT ![id] = new]
  /\ diskFileMap' = With(diskFileMap, new, id)

RenameInMap(id, new) ==
  /\ filename' = [filename EXCEPT ![id] = new]
  /\ diskFileMap' = With(Without(diskFileMap, {filename[id]}), new, id)

(* Whether DiskFileMap::Insert, called for the new name, will find that    *)
(* another file has it.                                                    *)
InsertFails(id, new) == new \in DOMAIN Without(diskFileMap, {filename[id]})

(* A rename that fails has already taken the file out of the map.          *)
RenameFailed(id) ==
  /\ diskFileMap' = Without(diskFileMap, {filename[id]})
  /\ Finish("FileIOError")
  /\ UNCHANGED <<disk, filename, targetfile, lists, counts>>

(* A failed assert() ends the process.                                     *)
AssertFailed(id, new) ==
  /\ MoveFile(filename[id], new)
  /\ filename' = [filename EXCEPT ![id] = new]
  /\ diskFileMap' = Without(diskFileMap, {filename[id]})
  /\ Finish("Aborted")
  /\ UNCHANGED <<targetfile, completefilecount>>

RenameDamaged ==
  /\ pc = "RenameDamaged"
  /\ \E g \in File : Damaged(g)
  /\ LET f == FirstOf({g \in File : Damaged(g)})
         id == targetfile[f]
         new == BackupName(filename[id])
     IN  \/ /\ Fault \/ (filename[id] \notin DOMAIN disk /\ NoFault)
            /\ RenameFailed(id)
         \/ /\ filename[id] \in DOMAIN disk /\ NoFault
            /\ backuplist' = backuplist \union {id}
            /\ IF InsertFails(id, new) THEN AssertFailed(id, new)
               ELSE /\ MoveFile(filename[id], new)
                    /\ RenameInMap(id, new)
                    /\ targetfile' = [targetfile EXCEPT ![f] = None]
                    /\ UNCHANGED <<completefilecount, control>>
            /\ UNCHANGED <<verifylist, availableblockcount>>
  /\ UNCHANGED <<parfiles, found, command>>

RenamedDamaged ==
  /\ pc = "RenameDamaged" /\ \A f \in File : ~Damaged(f)
  /\ Enter("RenameComplete", {})
  /\ UNCHANGED <<disk, parfiles, files, targetfile, found, lists, counts, environment, command>>

RenameComplete ==
  /\ pc = "RenameComplete"
  /\ \E g \in File : Misnamed(g)
  /\ LET f == FirstOf({g \in File : Misnamed(g)})
         id == found.complete[f]
     IN  \/ /\ Fault \/ (filename[id] \notin DOMAIN disk /\ NoFault)
            /\ RenameFailed(id)
         \/ /\ filename[id] \in DOMAIN disk /\ NoFault
            /\ IF InsertFails(id, f) THEN AssertFailed(id, f)
               ELSE /\ MoveFile(filename[id], f)
                    /\ RenameInMap(id, f)
                    /\ targetfile' = [targetfile EXCEPT ![f] = id]
                    /\ completefilecount' = completefilecount + 1
                    /\ UNCHANGED control
            /\ UNCHANGED <<lists, availableblockcount>>
  /\ UNCHANGED <<parfiles, found, command>>

RenamedComplete ==
  /\ pc = "RenameComplete" /\ \A f \in File : ~Misnamed(f)
  /\ IF Incomplete THEN Enter("CreateTargetFiles", {}) ELSE Succeed
  /\ UNCHANGED <<disk, parfiles, files, targetfile, found, lists, counts, environment, command>>

(* CreateTargetFiles, for one file: O_EXCL fails if there is one.  The     *)
(* targets created before stay on disk.  No data block can be missing a    *)
(* target: those of the file are its target blocks.                        *)
CreateTarget ==
  /\ pc = "CreateTargetFiles"
  /\ \E g \in File : targetfile[g] = None
  /\ LET f == FirstOf({g \in File : targetfile[g] = None})
     IN  \/ /\ Fault \/ (f \in DOMAIN disk /\ NoFault)
            /\ Finish("FileIOError")
            /\ UNCHANGED <<disk, files, targetfile, verifylist>>
         \/ /\ f \notin DOMAIN disk /\ NoFault
            /\ disk' = With(disk, f, [i \in 1 .. BlockCount[f] |-> Junk])
            /\ filename' = With(filename, Created(f), f)
            /\ diskFileMap' = With(diskFileMap, f, Created(f))
            /\ targetfile' = [targetfile EXCEPT ![f] = Created(f)]
            /\ verifylist' = verifylist \union {f}
            /\ UNCHANGED control
  /\ UNCHANGED <<parfiles, found, backuplist, counts, command>>

CreatedTargetFiles ==
  /\ pc = "CreateTargetFiles" /\ \A f \in File : targetfile[f] # None
  /\ Enter("ComputeRSmatrix", {})
  /\ UNCHANGED <<disk, parfiles, files, targetfile, found, lists, counts, environment, command>>

(* A slip: it deletes the targets that were complete all along, too.       *)
DeleteTargetFiles ==
  LET deleted == {targetfile[f] : f \in File} \ {None}
      names == {filename[id] : id \in deleted}
  IN  /\ disk' = Without(disk, names)
      /\ diskFileMap' = Without(diskFileMap, names)
      /\ filename' = Without(filename, deleted)
      /\ targetfile' = NoTarget
      /\ Finish("FileIOError")

(* A slip: a deleted object stays in the map.                              *)
DeleteLeavingEntries ==
  LET deleted == {targetfile[f] : f \in verifylist} \ {None}
  IN  /\ disk' = Without(disk, {filename[id] : id \in deleted})
      /\ filename' = Without(filename, deleted)
      /\ targetfile' = [f \in File |-> IF f \in verifylist THEN None ELSE targetfile[f]]
      /\ UNCHANGED diskFileMap
      /\ Finish("FileIOError")

DeleteIncompleteTargetFiles ==
  LET incomplete == {f \in verifylist : targetfile[f] # None}
      deleted == {targetfile[f] : f \in incomplete}
      names == {filename[id] : id \in deleted}
  IN  /\ disk' = Without(disk, names)
      /\ diskFileMap' = Without(diskFileMap, names)
      /\ filename' = Without(filename, deleted)
      /\ targetfile' = [f \in File |-> IF f \in incomplete THEN None ELSE targetfile[f]]
      /\ Finish("FileIOError")

(* The matrix that solves for the missing blocks may be singular.          *)
ComputeRSmatrix ==
  /\ pc = "ComputeRSmatrix"
  /\ \/ missingblockcount > 0 /\ Fault /\ DeleteIncompleteTargetFiles
     \/ /\ NoFault /\ pc' = "ProcessData" /\ blockoffset' = 0
        /\ UNCHANGED <<disk, files, targetfile, todo, finalresult, result>>
  /\ UNCHANGED <<parfiles, found, lists, counts, command>>

(* The blocks that are read: all that were found if one has to be          *)
(* reconstructed, and otherwise the ones to copy.                          *)
InputBlocks == {e \in Entry : IsSet(found, e) /\ (missingblockcount > 0 \/ FileOf(e) \in verifylist)}

Readable(e) ==
  LET name == filename[found.location[e][1]]
  IN  name \in DOMAIN disk /\ found.location[e][2] \in DOMAIN disk[name]
ReadData(e) == disk[filename[found.location[e][1]]][found.location[e][2]]

(* A block that was found is copied, and one that was not is what the      *)
(* matrix makes of all the blocks read.                                    *)
Restored(e) ==
  IF IsSet(found, e) THEN ReadData(e)
  ELSE IF \A in \in InputBlocks : ReadData(in) = BlockData[in] THEN BlockData[e] ELSE Junk

SameOffset == blockoffset  \* a slip: chunks of no bytes

NextOffset == blockoffset + 1

(* One chunk of every block is read, and written to the new targets, whose *)
(* blocks have their data when the last chunk is there.                    *)
ProcessData ==
  /\ pc = "ProcessData" /\ blockoffset < Chunks
  /\ \/ /\ Fault \/ (NoFault /\ \E e \in InputBlocks : ~Readable(e))
        /\ DeleteIncompleteTargetFiles
     \/ /\ NoFault /\ \A e \in InputBlocks : Readable(e)
        /\ blockoffset' = NextOffset
        /\ IF blockoffset' < Chunks THEN UNCHANGED disk
           ELSE disk' = [name \in DOMAIN disk \union verifylist |->
                           IF name \in verifylist
                           THEN [i \in 1 .. BlockCount[name] |-> Restored(<<name, i>>)]
                           ELSE disk[name]]
        /\ UNCHANGED <<files, targetfile, pc, todo, finalresult, result>>
  /\ UNCHANGED <<parfiles, found, lists, counts, command>>

ProcessedData ==
  /\ pc = "ProcessData" /\ blockoffset >= Chunks
  /\ Enter("VerifyTargetFiles", verifylist)
  /\ UNCHANGED <<disk, parfiles, files, targetfile, found, lists, counts, environment, command>>

(* VerifyTargetFiles, for one file: nothing is known of it any more, and   *)
(* it is scanned again.                                                    *)
RememberAll(f) == found  \* a slip

Forget(f) ==
  [location |-> [e \in Entry |-> IF FileOf(e) = f THEN None ELSE found.location[e]],
   complete |-> [found.complete EXCEPT ![f] = None]]

VerifyTarget(f) ==
  /\ pc = "VerifyTargetFiles" /\ f \in todo
  /\ todo' = todo \ {f}
  /\ \/ OpenFails /\ Fault /\ found' = Forget(f) /\ finalresult' = FALSE
     \/ Scan(Forget(f), targetfile[f], disk[filename[targetfile[f]]], f, FALSE)
  /\ UNCHANGED <<disk, parfiles, files, targetfile, lists, counts, pc, blockoffset,
                 result, command>>

VerifiedTargetFiles ==
  /\ pc = "VerifyTargetFiles" /\ todo = {}
  /\ UpdateVerificationResults
  /\ \/ ~finalresult /\ DeleteIncompleteTargetFiles
     \/ /\ finalresult
        /\ IF completefilecount' < Total THEN Finish("RepairFailed") ELSE Succeed
        /\ UNCHANGED <<disk, files, targetfile>>
  /\ UNCHANGED <<parfiles, found, lists, environment, command>>

-----------------------------------------------------------------------------
(* Purge; a file that cannot be deleted is left.                           *)

RemoveBackupFiles ==
  /\ pc = "RemoveBackupFiles"
  /\ disk' = Without(disk, {filename[id] : id \in backuplist})
  /\ pc' = "RemoveParFiles"
  /\ UNCHANGED <<parfiles, files, targetfile, found, lists, counts, todo, blockoffset,
                 finalresult, result, environment, command>>

RemoveParFiles ==
  /\ pc = "RemoveParFiles"
  /\ parfiles' = FALSE
  /\ pc' = "Finished"
  /\ UNCHANGED <<disk, files, targetfile, found, lists, counts, todo, blockoffset,
                 finalresult, result, environment, command>>

(* The process is killed; what it had in memory is gone.                   *)
Kill ==
  /\ pc # "Finished" /\ Fault
  /\ Finish("Killed")
  /\ UNCHANGED <<disk, parfiles, files, targetfile, found, lists, counts, command>>

(* The user runs it again on what is on the disk.                          *)
Rerun ==
  /\ pc = "Finished" /\ runs < MaxRuns /\ parfiles
  /\ runs' = runs + 1
  /\ filename' = <<>> /\ diskFileMap' = <<>>
  /\ targetfile' = NoTarget /\ found' = NothingFound
  /\ verifylist' = {} /\ backuplist' = {}
  /\ completefilecount' = 0 /\ availableblockcount' = 0
  /\ dorepair' \in Operations /\ renameonly' \in RenameOnly /\ everything' \in BOOLEAN
  /\ extrafiles' = IF everything' THEN DOMAIN disk ELSE {}
  /\ pc' = "VerifySourceFiles" /\ todo' = File /\ blockoffset' = 0
  /\ finalresult' = TRUE /\ result' = None
  /\ faulted' = FALSE
  /\ UNCHANGED <<disk, parfiles, purgefiles, disk0, faults>>

Process ==
  \/ \E f \in File : OpenTarget(f) \/ VerifyTarget(f)
  \/ \E name \in todo : OpenExtra(name)
  \/ VerifiedSourceFiles \/ VerifiedExtraFiles \/ CheckVerificationResults
  \/ RenameDamaged \/ RenamedDamaged \/ RenameComplete \/ RenamedComplete
  \/ CreateTarget \/ CreatedTargetFiles \/ ComputeRSmatrix
  \/ ProcessData \/ ProcessedData \/ VerifiedTargetFiles
  \/ RemoveBackupFiles \/ RemoveParFiles

Next == Process \/ Kill \/ Rerun

Spec == Init /\ [][Next]_vars

(* A process that is not killed goes on.                                   *)
FairSpec == Spec /\ WF_vars(Process)

-----------------------------------------------------------------------------
(* Properties.                                                             *)

Running == pc # "Finished"
BeforeVerify == pc \in {"VerifySourceFiles", "VerifyExtraFiles", "CheckVerificationResults",
                        "RenameDamaged", "RenameComplete", "CreateTargetFiles",
                        "ComputeRSmatrix", "ProcessData"}
DataOn(d) == UNION {ToSet(d[name]) : name \in DOMAIN d}
Repaired(f) == f \in DOMAIN disk /\ disk[f] = Original(f)

(* The blocks that are nowhere on the disk can be reconstructed.           *)
Recoverable(d, recoveryblocks) ==
  Cardinality({e \in Entry : BlockData[e] \notin DataOn(d)}) <= recoveryblocks

CreatedNames == {filename[id] : id \in {i \in DOMAIN filename : i[1] = "created"}}

(* The state stays within its types: objects are known DiskFiles, names    *)
(* and lists refer to source files, counts stay within the set.            *)
TypeOK ==
  /\ \A name \in DOMAIN disk : disk[name] \in Seq(DataOn(disk))
  /\ \A id \in DOMAIN filename : id[1] \in {"opened", "created"}
  /\ \A name \in DOMAIN diskFileMap : diskFileMap[name] \in DOMAIN filename
  /\ targetfile \in [File -> DOMAIN filename \union {None}]
  /\ found.complete \in [File -> DOMAIN filename \union {None}] \/ ~BeforeVerify
  /\ verifylist \subseteq File /\ backuplist \subseteq DOMAIN filename
  /\ completefilecount \in 0 .. Total /\ availableblockcount \in 0 .. SourceBlockCount
  /\ blockoffset \in 0 .. Chunks
  /\ {parfiles, dorepair, purgefiles, renameonly, finalresult, faulted} \subseteq BOOLEAN
  /\ faults \in 0 .. MaxFaults /\ runs \in 1 .. MaxRuns

(* Wherever verification said it found a block, the block is still there   *)
(* when ProcessData reads it, whatever was renamed in between.             *)
LocationsTrue ==
  BeforeVerify =>
    \A e \in Entry : IsSet(found, e) => Readable(e) /\ ReadData(e) = BlockData[e]

(* diskFileMap, by which a file is known to have been used, names the      *)
(* objects by the names they have, each object once, and no name that is   *)
(* not on disk.                                                            *)
DiskFileMapAgrees ==
  (Running /\ pc \notin {"RemoveParFiles"}) =>
    /\ \A name \in DOMAIN diskFileMap :
         filename[diskFileMap[name]] = name /\ name \in DOMAIN disk
    /\ \A id \in DOMAIN filename :
         filename[id] \in DOMAIN diskFileMap /\ diskFileMap[filename[id]] = id

(* ComputeRSmatrix gives copyblocks the size availableblockcount, in which *)
(* all blocks of a complete file are counted, and fills it with the blocks *)
(* whose location is set: the two are the same number.                     *)
BlocksCounted ==
  pc \in {"ComputeRSmatrix", "ProcessData"} =>
    availableblockcount = Cardinality({e \in Entry : IsSet(found, e)})

(* When all files were scanned, the blocks reported missing are the ones   *)
(* no file has: none is overlooked behind others, in a file of another     *)
(* name, or because the file it is in was matched to another.              *)
MissingIsMissing ==
  (pc = "CheckVerificationResults" /\ ~faulted /\ everything) =>
    missingblockcount = Cardinality({e \in Entry : BlockData[e] \notin DataOn(disk)})

(* A target that is right is found to be complete, or another file that is *)
(* the same was: verificationhashtable.h, "we can find a perfect match for *)
(* a target file even if some of the blocks had already been found".       *)
PerfectTargetFound ==
  (pc = "CheckVerificationResults" /\ ~faulted) =>
    \A f \in File : Repaired(f) => found.complete[f] # None

(* assert(success) after the renames: the new name was free, with whatever *)
(* backups an earlier run left.                                            *)
InsertSucceeds == result # "Aborted"

(* A target is "missing" only when "the file does not exist", after the    *)
(* first renames too; the name it has is then free for the file that is    *)
(* renamed or created.                                                     *)
MissingTargetIsAbsent ==
  pc \in {"RenameComplete", "CreateTargetFiles"} =>
    \A f \in File : targetfile[f] = None => f \notin DOMAIN disk

(* Success is reported only when every target has the data it should.      *)
SuccessMeansRepaired == result = "Success" => \A f \in File : Repaired(f)

(* No failure, kill, rename, deletion or purge takes away what the next    *)
(* run needs: while the set could be repaired from what was on the disk it *)
(* can be from what is, and without the par2 files once they are purged.   *)
StaysRecoverable ==
  Recoverable(disk0, RecoveryBlocks) =>
    Recoverable(disk, IF parfiles THEN RecoveryBlocks ELSE 0)

(* A run that finds repair possible and meets no fault repairs.            *)
PossibleMeansRepaired ==
  (pc = "Finished" /\ ~faulted /\ dorepair) => result \in {"Success", "RepairNotPossible"}

(* When what was first on the disk is enough, a run over all the files     *)
(* that meets no fault repairs them, whatever earlier runs were stopped    *)
(* at and left behind.                                                     *)
RetryRepairs ==
  (/\ pc = "Finished" /\ ~faulted /\ dorepair /\ ~renameonly /\ everything
   /\ Recoverable(disk0, RecoveryBlocks))
  => result = "Success" /\ \A f \in File : Repaired(f)

(* All of Process with its failures, kills and further runs implements     *)
(* SafeRepair: before success is reported nothing that a run did not       *)
(* create itself is overwritten or deleted, under whatever name it is, and *)
(* when it is reported, and after the purge, every target is right.        *)
Safe == INSTANCE SafeRepair WITH
  SourceFiles <- File,
  kept <- {disk[name] : name \in DOMAIN disk \ CreatedNames},
  repaired <- {f \in File : Repaired(f)},
  stage <- IF pc \notin {"RemoveBackupFiles", "RemoveParFiles", "Finished"} THEN "working"
           ELSE IF result = "Success" THEN "repaired" ELSE "stopped"

RepairIsSafe == Safe!Spec

(* A run ends.                                                             *)
RunEnds == (pc # "Finished") ~> (pc = "Finished")

=============================================================================
