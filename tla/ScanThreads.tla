----------------------------- MODULE ScanThreads -----------------------------
(***************************************************************************)
(* Verification with a thread for each disk file: the loops of             *)
(* VerifySourceFiles and VerifyExtraFiles (src/src/par2repairer.cpp) are   *)
(* OpenMP loops, and their scans share the blocks' locations and the       *)
(* complete files without a lock.                                          *)
(*                                                                         *)
(* A step of a thread is a look for a match of one piece of data, one of   *)
(* the two stores of DataBlock::SetLocation, or the end of its scan.  With *)
(* a thread for each file there is one worker for it, so that no block is  *)
(* looked for where it is expected first (ScanDataFileAligned).            *)
(***************************************************************************)
EXTENDS ScanDataFile

CONSTANTS
  DiskFiles,   \* the files that are scanned at once
  Contents     \* what each of them may hold, a set of sequences of pieces

VARIABLES
  disk,              \* disk file -> its pieces of data
  diskfile, offset,  \* the two halves of each block's location
  complete,          \* source file -> the disk file that is complete
  scans,             \* disk file -> the state of its scan
  place,             \* disk file -> the piece that is looked at
  match,             \* disk file -> the entry that is being recorded
  pc

vars == <<disk, diskfile, offset, complete, scans, place, match, pc>>

(* What a thread sees of the others' results.                              *)
Found == [location |-> [e \in Entry |-> IF diskfile[e] = None THEN None ELSE <<diskfile[e], offset[e]>>],
          complete |-> complete]

(* The target of a source file is expected to be that file.                *)
Expected(d) == IF d \in File THEN d ELSE None

Init ==
  /\ disk \in [DiskFiles -> Contents]
  /\ diskfile = [e \in Entry |-> None] /\ offset = [e \in Entry |-> 0]
  /\ complete = [f \in File |-> None]
  /\ scans = [d \in DiskFiles |-> [nextentry |-> None, sourcefile |-> Expected(d),
                                   count |-> 0, full |-> TRUE, stopped |-> FALSE]]
  /\ place = [d \in DiskFiles |-> 1]
  /\ match = [d \in DiskFiles |-> None]
  /\ pc = [d \in DiskFiles |-> "look"]

(* FindMatch, and what ScanDataFile makes of it; the record is later.      *)
Look(d) ==
  /\ pc[d] = "look" /\ place[d] <= Len(disk[d])
  /\ LET e == FindMatch(Found, scans[d].nextentry, scans[d].sourcefile, d,
                        disk[d][place[d]], place[d] = 1)
     IN /\ scans' = [scans EXCEPT ![d] = Advance(@, e, place[d], FALSE)]
        /\ match' = [match EXCEPT ![d] = e]
        /\ pc' = [pc EXCEPT ![d] = IF e = None THEN "look" ELSE "diskfile"]
        /\ place' = [place EXCEPT ![d] = IF e = None THEN @ + 1 ELSE @]
  /\ UNCHANGED <<disk, diskfile, offset, complete>>

(* DataBlock::SetLocation: the file, then the offset.                      *)
StoreDiskFile(d) ==
  /\ pc[d] = "diskfile"
  /\ diskfile' = [diskfile EXCEPT ![match[d]] = d]
  /\ pc' = [pc EXCEPT ![d] = "offset"]
  /\ UNCHANGED <<disk, offset, complete, scans, place, match>>

StoreOffset(d) ==
  /\ pc[d] = "offset"
  /\ offset' = [offset EXCEPT ![match[d]] = place[d]]
  /\ pc' = [pc EXCEPT ![d] = "look"]
  /\ place' = [place EXCEPT ![d] = @ + 1]
  /\ UNCHANGED <<disk, diskfile, complete, scans, match>>

(* The end of the scan, and VerifyDataFile's SetCompleteFile.              *)
Finish(d) ==
  /\ pc[d] = "look" /\ place[d] > Len(disk[d])
  /\ complete' = IF IsFullMatch(scans[d], disk[d])
                 THEN [complete EXCEPT ![scans[d].sourcefile] = d] ELSE complete
  /\ pc' = [pc EXCEPT ![d] = "done"]
  /\ UNCHANGED <<disk, diskfile, offset, scans, place, match>>

Verify(d) == Look(d) \/ StoreDiskFile(d) \/ StoreOffset(d) \/ Finish(d)

Next == \E d \in DiskFiles : Verify(d)

Spec == Init /\ [][Next]_vars

-----------------------------------------------------------------------------

(* Whatever the order of the threads, a file that is said to be the        *)
(* complete version of a source file has all of its data.                  *)
CompleteIsWhole ==
  \A f \in File : complete[f] # None =>
    complete[f] \in DiskFiles /\ disk[complete[f]] = Original(f)

(* "A Data Block is a block of data of a specific length at a specific     *)
(* offset in a specific file" (DataBlock): when the scans are done, the    *)
(* data of each block that was found is where its location says, so that   *)
(* the repair copies and computes with the right data.                     *)
LocationsTrue ==
  (\A d \in DiskFiles : pc[d] = "done") =>
    \A e \in Entry : diskfile[e] # None =>
      /\ offset[e] \in 1 .. Len(disk[diskfile[e]])
      /\ disk[diskfile[e]][offset[e]] = BlockData[e]

=============================================================================
