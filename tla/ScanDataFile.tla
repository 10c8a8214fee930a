---------------------------- MODULE ScanDataFile ----------------------------
(***************************************************************************)
(* What a scan of a disk file finds (ScanDataFile, ScanDataFileAligned and *)
(* VerifyDataFile of src/src/par2repairer.cpp, FindMatch of                *)
(* verificationhashtable.h), a block at a time.                            *)
(*                                                                         *)
(* A disk file is the sequence of the block-sized pieces of data in it.    *)
(* Two pieces are the same data when their CRC and MD5 are, and data that  *)
(* is no block of the set is Junk.  A source file is called by its target  *)
(* name, and an entry of the hash table is <<file, number of the block>>.  *)
(***************************************************************************)
EXTENDS Integers, FiniteSets, SequencesExt

CONSTANTS
  SourceFiles,  \* the source files, in the order of the main packet
  BlockCount,   \* the number of blocks of each
  BlockData,    \* the data of each entry; entries may have the same data
  Junk,         \* data of no block
  None          \* the null pointer

File == ToSet(SourceFiles)

ASSUME FilesAssumption ==
  /\ SourceFiles \in Seq(File) /\ IsInjective(SourceFiles)
  /\ BlockCount \in [File -> Nat \ {0}]

Entry == UNION {{<<f, i>> : i \in 1 .. BlockCount[f]} : f \in File}

ASSUME DataAssumption ==
  /\ DOMAIN BlockData = Entry
  /\ \A e \in Entry : BlockData[e] # Junk
  /\ None \notin Entry \union File

FileOf(e) == e[1]
FirstBlock(e) == e[2] = 1
NextEntry(e) == IF e[2] < BlockCount[FileOf(e)] THEN <<e[1], e[2] + 1>> ELSE None

Original(f) == [i \in 1 .. BlockCount[f] |-> BlockData[<<f, i>>]]

(* Load puts the entries into the hash table in the order of the main      *)
(* packet, and of the blocks in the file.                                  *)
Number == [f \in File |-> CHOOSE n \in DOMAIN SourceFiles : SourceFiles[n] = f]
Before == {pair \in Entry \X Entry :
            \/ Number[FileOf(pair[1])] < Number[FileOf(pair[2])]
            \/ FileOf(pair[1]) = FileOf(pair[2]) /\ pair[1][2] <= pair[2][2]}
First(chain) == CHOOSE e \in chain : \A o \in chain : <<e, o>> \in Before

Data == {BlockData[e] : e \in Entry} \union {Junk}

(* The chain of the entries with some data.                                *)
Same == [data \in Data |-> {e \in Entry : BlockData[e] = data}]

(***************************************************************************)
(* What verification has found so far: for each entry the disk file and    *)
(* the place in it where its data is, and for each source file the disk    *)
(* file that is a complete version of it.                                  *)
(***************************************************************************)
NothingFound == [location |-> [e \in Entry |-> None], complete |-> [f \in File |-> None]]

IsSet(found, e) == found.location[e] # None

(* The first entry of the chain that is unused, of the file preferred.     *)
FirstUnused(found, chain, preferred) ==
  LET unused == {e \in chain : ~IsSet(found, e)}
      own == {e \in unused : FileOf(e) = preferred}
  IN  IF own # {} THEN First(own) ELSE IF unused # {} THEN First(unused) ELSE None

(* A slip: an entry that was found is never matched again.                 *)
OnlyUnusedEntry(found, e, suggested, diskfile, atstart) ==
  IF found.complete[FileOf(e)] # None \/ IsSet(found, e) THEN None ELSE e

(* The single entry with the data, unless its file is complete or it was   *)
(* found already: that does not count when it is the first block and at    *)
(* the start of the file, or was expected and found in another file.       *)
OnlyEntry(found, e, suggested, diskfile, atstart) ==
  IF /\ found.complete[FileOf(e)] = None
     /\ \/ FirstBlock(e) /\ atstart
        \/ ~IsSet(found, e)
        \/ e = suggested /\ found.location[e][1] # diskfile
  THEN e ELSE None

(* A suggested last block is returned though it may have been found, any   *)
(* other suggested one only when it has not been.                          *)
Suggested(found, suggested, data) ==
  /\ suggested # None
  /\ BlockData[suggested] = data
  /\ NextEntry(suggested) = None \/ ~IsSet(found, suggested)

(* A slip: the source file that is preferred is required.                  *)
FindOwnMatch(found, suggested, sourcefile, diskfile, data, atstart) ==
  LET chain == {e \in Same[data] : sourcefile \in {None, FileOf(e)}}
  IN  IF Suggested(found, suggested, data) THEN suggested
      ELSE IF chain = {} THEN None
      ELSE IF Cardinality(chain) = 1
      THEN OnlyEntry(found, First(chain), suggested, diskfile, atstart)
      ELSE FirstUnused(found, chain, sourcefile)

(* The entry the data is matched to: the one that was expected, the only   *)
(* one, or one that has not been found.                                    *)
FindMatch(found, suggested, sourcefile, diskfile, data, atstart) ==
  LET chain == Same[data]
  IN  IF Suggested(found, suggested, data) THEN suggested
      ELSE IF chain = {} THEN None
      ELSE IF Cardinality(chain) = 1
      THEN OnlyEntry(found, First(chain), suggested, diskfile, atstart)
      ELSE FirstUnused(found, chain, sourcefile)

-----------------------------------------------------------------------------
(* The state of a scan: what was located, the entry expected next, the     *)
(* source file the data is taken to be of, the number of matches, whether  *)
(* it may still be a full match, and whether a rename-only scan has        *)
(* stopped because it may not.                                             *)

(* After a look at a piece that was matched to e.                          *)
Advance(scan, e, place, renameonly) ==
  LET full == /\ scan.full /\ e # None
              /\ IF scan.count = 0 THEN FirstBlock(e) /\ place = 1 ELSE e = scan.nextentry
      stop == ~full /\ renameonly
      source == IF e # None /\ scan.count = 0 THEN FileOf(e) ELSE scan.sourcefile
  IN  CASE stop -> [scan EXCEPT !.full = FALSE, !.stopped = TRUE, !.sourcefile = source]
        [] ~stop /\ e = None -> [scan EXCEPT !.full = FALSE, !.nextentry = None]
        [] ~stop /\ e # None -> [scan EXCEPT !.nextentry = NextEntry(e), !.sourcefile = source,
                                             !.count = @ + 1, !.full = full]

ScanPiece(scan, complete, diskfile, data, place, renameonly) ==
  LET found == [location |-> scan.location, complete |-> complete]
      e == FindMatch(found, scan.nextentry, scan.sourcefile, diskfile, data, place = 1)
      after == Advance(scan, e, place, renameonly)
  IN  IF scan.stopped THEN scan
      ELSE IF e = None \/ after.stopped THEN after
      ELSE [after EXCEPT !.location[e] = <<diskfile, place>>]

(* ScanDataFileAligned: the pieces that are where the source file has      *)
(* them; it runs when there are workers to spare for the file, and not for *)
(* a file that cannot be a perfect match.                                  *)
Aligned(found, sourcefile, content, workers) ==
  IF /\ workers >= 2 /\ sourcefile # None
     /\ found.complete[sourcefile] = None
     /\ Len(content) = BlockCount[sourcefile]
  THEN {i \in 1 .. Len(content) : content[i] = BlockData[<<sourcefile, i>>]}
  ELSE {}

TheOnly(S) == CHOOSE s \in S : TRUE

(* The aligned blocks are recorded first.                                  *)
StartOfScan(found, diskfile, content, sourcefile, aligned, renameonly) ==
  [location |-> [e \in Entry |-> IF FileOf(e) = sourcefile /\ e[2] \in aligned
                                 THEN <<diskfile, e[2]>> ELSE found.location[e]],
   nextentry |-> None, sourcefile |-> sourcefile, count |-> Cardinality(aligned),
   full |-> aligned \in {{}, 1 .. Len(content)},
   stopped |-> renameonly /\ aligned \notin {{}, 1 .. Len(content)}]

(* The runs of pieces between them are searched one after the other.       *)
ScanOn(scan, complete, diskfile, content, aligned, place, renameonly) ==
  IF place \in aligned THEN [scan EXCEPT !.nextentry = None]
  ELSE ScanPiece(scan, complete, diskfile, content[place], place, renameonly)

(* The scan of a file of which the first "readable" pieces can be read.    *)
ScanDataFile(found, diskfile, content, readable, sourcefile, workers, renameonly) ==
  LET aligned == Aligned(found, sourcefile, content, workers)
      scan[place \in 0 .. Len(content)] ==
        IF place = 0 THEN StartOfScan(found, diskfile, content, sourcefile, aligned, renameonly)
        ELSE TheOnly({ScanOn(before, found.complete, diskfile, content, aligned, place, renameonly) :
                       before \in {scan[place - 1]}})
  IN  scan[readable]

(* VerifyDataFile: a full match makes the disk file the complete version   *)
(* of the source file it matched; a read that fails ends it before that.   *)
IsFullMatch(scan, content) ==
  /\ scan.full /\ scan.count > 0
  /\ scan.count = BlockCount[scan.sourcefile]
  /\ Len(content) = BlockCount[scan.sourcefile]

VerifyDataFile(found, diskfile, content, readable, sourcefile, workers, renameonly) ==
  TheOnly({[location |-> scan.location,
            complete |-> IF readable = Len(content) /\ IsFullMatch(scan, content)
                         THEN [found.complete EXCEPT ![scan.sourcefile] = diskfile]
                         ELSE found.complete] :
             scan \in {ScanDataFile(found, diskfile, content, readable, sourcefile,
                                     workers, renameonly)}})

=============================================================================
