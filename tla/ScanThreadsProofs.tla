-------------------------- MODULE ScanThreadsProofs --------------------------
(***************************************************************************)
(* Threads that scan files at once and record what they find without a     *)
(* lock never take a file for complete that is not, for any number of      *)
(* threads, source files and blocks: a scan decides it by the data it has  *)
(* looked at itself.                                                       *)
(***************************************************************************)
EXTENDS ScanThreads, ScanDataFileProofs

(* Files hold pieces of data.                                              *)
ContentsAreData == Contents \subseteq Seq(Data)

(* How many pieces a scan has looked at.                                   *)
Seen(d) == IF pc[d] \in {"diskfile", "offset"} THEN place[d] ELSE place[d] - 1

Scans == [nextentry : Entry \union {None}, sourcefile : File \union {None}, count : Nat,
          full : BOOLEAN, stopped : {FALSE}]

ScansHaveTypes ==
  /\ disk \in [DiskFiles -> Seq(Data)]
  /\ complete \in [File -> DiskFiles \union {None}]
  /\ scans \in [DiskFiles -> Scans]
  /\ place \in [DiskFiles -> Nat \ {0}]
  /\ pc \in [DiskFiles -> {"look", "diskfile", "offset", "done"}]
  /\ match \in [DiskFiles -> Entry \union {None}]

ThreadFacts(d) ==
  /\ pc[d] # "done" => Seen(d) <= Len(disk[d])
  /\ pc[d] # "done" /\ scans[d].full => MatchesSoFar(scans[d], disk[d], Seen(d))

IInv == ScansHaveTypes /\ (\A d \in DiskFiles : ThreadFacts(d)) /\ CompleteIsWhole

-----------------------------------------------------------------------------

LEMMA InitEstablishes == ASSUME ContentsAreData PROVE Init => IInv
<1> SUFFICES ASSUME Init PROVE IInv
  OBVIOUS
<1>1. ScansHaveTypes
  BY ContentsAreData DEF Init, ScansHaveTypes, Scans, Expected, ContentsAreData
<1>2. \A d \in DiskFiles : ThreadFacts(d)
  BY <1>1 DEF Init, ThreadFacts, Seen, MatchesSoFar, ScansHaveTypes
<1>3. CompleteIsWhole
  BY DEF Init, CompleteIsWhole
<1> QED BY <1>1, <1>2, <1>3 DEF IInv

(* A piece that was matched to e goes on with the match.                   *)
LEMMA LookAdvances ==
  ASSUME NEW scan \in Scans, NEW content \in Seq(Data), NEW n \in 1 .. Len(content),
         NEW e \in Entry \union {None},
         scan.full => MatchesSoFar(scan, content, n - 1),
         e # None => BlockData[e] = content[n],
         NEW after, after = Advance(scan, e, n, FALSE)
  PROVE  after \in Scans /\ (after.full => e # None /\ MatchesSoFar(after, content, n))
<1>1. HasTypes(scan)
  BY DEF Scans, HasTypes, ScanFields
<1>2. after.full => e # None /\ MatchesSoFar(after, content, n)
  <2>1. after.full => e # None
    BY <1>1, AdvanceFields
  <2> QED BY <2>1, <1>1, AdvanceMatches
<1>3. after \in Scans
  <2> DEFINE full == /\ scan.full /\ e # None
                     /\ IF scan.count = 0 THEN FirstBlock(e) /\ n = 1 ELSE e = scan.nextentry
             source == IF e # None /\ scan.count = 0 THEN FileOf(e) ELSE scan.sourcefile
  <2>1. \/ after = [scan EXCEPT !.full = FALSE, !.nextentry = None]
        \/ /\ e # None
           /\ after = [scan EXCEPT !.nextentry = NextEntry(e), !.sourcefile = source,
                                  !.count = @ + 1, !.full = full]
    BY DEF Advance
  <2>2. full \in BOOLEAN /\ source \in File \union {None}
    BY EntryFacts DEF Scans, FileOf
  <2>3. e # None => NextEntry(e) \in Entry \union {None}
    BY NextEntryFacts
  <2> HIDE DEF full, source
  <2>4. after = [nextentry |-> after.nextentry, sourcefile |-> after.sourcefile,
                 count |-> after.count, full |-> after.full, stopped |-> after.stopped]
    BY <2>1 DEF Scans
  <2>5. after.nextentry \in Entry \union {None} /\ after.sourcefile \in File \union {None}
    BY <2>1, <2>2, <2>3 DEF Scans
  <2>6. after.count \in Nat
    <3>1. scan.count \in Nat
      BY DEF Scans
    <3>2. after.count = scan.count \/ after.count = scan.count + 1
      BY <2>1 DEF Scans
    <3>3. scan.count + 1 \in Nat
      BY <3>1
    <3> QED BY <3>1, <3>2, <3>3, Zenon
  <2>7. after.full \in BOOLEAN
    BY <2>1, <2>2 DEF Scans
  <2>8. after.stopped = FALSE
    BY <2>1 DEF Scans
  <2> QED BY <2>4, <2>5, <2>6, <2>7, <2>8, Zenon DEF Scans
<1> QED BY <1>2, <1>3

-----------------------------------------------------------------------------
(* Each action preserves the invariant.                                    *)

LEMMA OtherScansKeep ==
  ASSUME NEW d \in DiskFiles, NEW o \in DiskFiles, o # d, ThreadFacts(o),
         disk' = disk, scans'[o] = scans[o], place'[o] = place[o], pc'[o] = pc[o]
  PROVE  ThreadFacts(o)'
BY DEF ThreadFacts, Seen, MatchesSoFar, NextEntry, FileOf

LEMMA LookKeeps ==
  ASSUME IInv, NEW d \in DiskFiles, Look(d)
  PROVE  IInv'
<1> DEFINE data == disk[d][place[d]]
           e == FindMatch(Found, scans[d].nextentry, scans[d].sourcefile, d, data, place[d] = 1)
           after == Advance(scans[d], e, place[d], FALSE)
<1>1. /\ scans[d] \in Scans /\ disk[d] \in Seq(Data) /\ place[d] \in 1 .. Len(disk[d])
      /\ data \in Data /\ scans[d].nextentry \in Entry \union {None}
  <2>1. scans[d] \in Scans /\ disk[d] \in Seq(Data) /\ place[d] \in Nat \ {0}
    BY DEF IInv, ScansHaveTypes
  <2>2. place[d] \in 1 .. Len(disk[d])
    BY <2>1 DEF Look
  <2>3. data \in Data
    BY <2>1, <2>2
  <2>4. scans[d].nextentry \in Entry \union {None}
    BY <2>1 DEF Scans
  <2> QED BY <2>1, <2>2, <2>3, <2>4
<1>2. e = None \/ (e \in Entry /\ BlockData[e] = data)
  BY <1>1, FindMatchFindsData
<1>3. /\ scans' = [scans EXCEPT ![d] = after]
      /\ match' = [match EXCEPT ![d] = e]
      /\ pc' = [pc EXCEPT ![d] = IF e = None THEN "look" ELSE "diskfile"]
      /\ place' = [place EXCEPT ![d] = IF e = None THEN @ + 1 ELSE @]
      /\ disk' = disk /\ complete' = complete
  BY DEF Look
<1> HIDE DEF data, e, after
<1>4. scans[d].full => MatchesSoFar(scans[d], disk[d], place[d] - 1)
  BY <1>1 DEF IInv, ThreadFacts, Seen, Look
<1>5. after \in Scans /\ (after.full => e # None /\ MatchesSoFar(after, disk[d], place[d]))
  BY <1>1, <1>2, <1>4, LookAdvances DEF after, data
<1>6. ScansHaveTypes'
  BY <1>1, <1>2, <1>3, <1>5 DEF IInv, ScansHaveTypes
<1>7. ThreadFacts(d)'
  <2>1. /\ scans'[d] = after /\ disk'[d] = disk[d] /\ Seen(d)' = place[d]
        /\ pc'[d] # "done"
    BY <1>1, <1>3 DEF Seen, IInv, ScansHaveTypes
  <2>2. ThreadFacts(d)' <=> /\ pc'[d] # "done" => Seen(d)' <= Len(disk'[d])
                            /\ pc'[d] # "done" /\ scans'[d].full =>
                                 MatchesSoFar(scans'[d], disk'[d], Seen(d)')
    BY DEF ThreadFacts, MatchesSoFar
  <2> QED BY <2>1, <2>2, <1>1, <1>5
<1>8. \A o \in DiskFiles : o # d => ThreadFacts(o)'
  BY <1>3, OtherScansKeep DEF IInv, ScansHaveTypes
<1>9. CompleteIsWhole'
  BY <1>3 DEF IInv, CompleteIsWhole, Original
<1> QED BY <1>6, <1>7, <1>8, <1>9 DEF IInv

LEMMA StoreKeeps ==
  ASSUME IInv, NEW d \in DiskFiles, StoreDiskFile(d) \/ StoreOffset(d)
  PROVE  IInv'
<1>1. ScansHaveTypes'
  <2>1. CASE StoreDiskFile(d)
    BY <2>1 DEF IInv, ScansHaveTypes, StoreDiskFile
  <2>2. CASE StoreOffset(d)
    BY <2>2 DEF IInv, ScansHaveTypes, StoreOffset
  <2> QED BY <2>1, <2>2
<1>2. ThreadFacts(d)'
  <2>1. /\ scans'[d] = scans[d] /\ disk'[d] = disk[d] /\ Seen(d)' = Seen(d)
        /\ pc[d] # "done"
    BY DEF IInv, ScansHaveTypes, StoreDiskFile, StoreOffset, Seen
  <2> QED BY <2>1 DEF IInv, ThreadFacts, MatchesSoFar, NextEntry, FileOf
<1>3. \A o \in DiskFiles : o # d => ThreadFacts(o)'
  BY OtherScansKeep DEF IInv, ScansHaveTypes, StoreDiskFile, StoreOffset
<1>4. CompleteIsWhole'
  BY DEF IInv, CompleteIsWhole, Original, StoreDiskFile, StoreOffset
<1> QED BY <1>1, <1>2, <1>3, <1>4 DEF IInv

(* The end of a scan, where the file may be said to be complete.           *)
LEMMA FinishKeeps ==
  ASSUME IInv, NEW d \in DiskFiles, Finish(d)
  PROVE  IInv'
<1>1. ScansHaveTypes'
  BY DEF IInv, ScansHaveTypes, Finish
<1>2. ThreadFacts(d)'
  BY DEF IInv, ScansHaveTypes, Finish, ThreadFacts
<1>3. \A o \in DiskFiles : o # d => ThreadFacts(o)'
  BY OtherScansKeep DEF IInv, ScansHaveTypes, Finish
<1>4. ASSUME IsFullMatch(scans[d], disk[d])
      PROVE  scans[d].sourcefile \in File /\ disk[d] = Original(scans[d].sourcefile)
  <2> DEFINE f == scans[d].sourcefile
  <2>1. /\ scans[d].full /\ scans[d].count > 0 /\ scans[d].count \in Nat
        /\ Len(disk[d]) = BlockCount[f] /\ scans[d].count = BlockCount[f]
        /\ disk[d] \in Seq(Data)
    BY <1>4 DEF IsFullMatch, IInv, ScansHaveTypes, Scans
  <2>2. MatchesSoFar(scans[d], disk[d], place[d] - 1)
    BY <2>1 DEF IInv, ThreadFacts, Seen, Finish
  <2>3. /\ f \in File
        /\ \A i \in 1 .. BlockCount[f] : disk[d][i] = BlockData[<<f, i>>]
    BY <2>1, <2>2 DEF MatchesSoFar
  <2>4. disk[d] = [i \in 1 .. BlockCount[f] |-> disk[d][i]]
    BY <2>1
  <2> QED BY <2>3, <2>4 DEF Original
<1>5. CompleteIsWhole'
  BY <1>4 DEF IInv, CompleteIsWhole, ScansHaveTypes, Finish, Original
<1> QED BY <1>1, <1>2, <1>3, <1>5 DEF IInv

THEOREM Invariance == ASSUME ContentsAreData PROVE Spec => []IInv
<1>1. Init => IInv
  BY ContentsAreData, InitEstablishes
<1>2. IInv /\ [Next]_vars => IInv'
  <2> SUFFICES ASSUME IInv, [Next]_vars PROVE IInv'
    OBVIOUS
  <2>1. CASE UNCHANGED vars
    BY <2>1 DEF vars, IInv, ScansHaveTypes, ThreadFacts, Seen, MatchesSoFar, NextEntry, FileOf,
                CompleteIsWhole, Original
  <2>2. CASE Next
    BY <2>2, LookKeeps, StoreKeeps, FinishKeeps DEF Next, Verify
  <2> QED BY <2>1, <2>2
<1> QED BY <1>1, <1>2, PTL DEF Spec

(* A file is never taken for complete that is not, in any interleaving of  *)
(* any number of scans (VerifyDataFile).                                   *)
THEOREM CompleteFilesAreWhole == ASSUME ContentsAreData PROVE Spec => []CompleteIsWhole
<1>1. IInv => CompleteIsWhole
  BY DEF IInv
<1> QED BY <1>1, Invariance, ContentsAreData, PTL

=============================================================================
