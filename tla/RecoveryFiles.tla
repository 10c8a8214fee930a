---------------------------- MODULE RecoveryFiles ----------------------------
(***************************************************************************)
(* How the recovery blocks of a set are spread over files, and which       *)
(* packets each file has: ComputeRecoveryFileCount of src/src/libpar2.cpp  *)
(* and Par2Creator::InitialiseOutputFiles of src/src/par2creator.cpp.      *)
(*                                                                         *)
(* A file is allocated a first exponent and a count, which are also its    *)
(* name: name.vol<exponent>+<count>.par2.                                  *)
(***************************************************************************)
EXTENDS Integers, SequencesExt, FiniteSetsExt

CONSTANT None

Schemes == {"Variable", "Uniform", "Limited"}

Ceil(n, d) == (n + d - 1) \div d
Least(m, n) == IF m < n THEN m ELSE n

(* for (t = n; t > 0; t >>= 1) ...++                                       *)
BitCount[t \in Nat] == IF t = 0 THEN 0 ELSE 1 + BitCount[t \div 2]

(* 1 << n                                                                  *)
Bit[n \in Nat] == IF n = 0 THEN 1 ELSE 2 * Bit[n - 1]

(* The sums of the first counts: exponent += count, file after file.       *)
Running(counts) ==
  LET total[n \in 0 .. Len(counts)] == IF n = 0 THEN 0 ELSE total[n - 1] + counts[n]
  IN total

ComputeRecoveryFileCount(scheme, recoveryfilecount, recoveryblockcount, largest) ==
  IF recoveryblockcount = 0 THEN 0
  ELSE IF scheme = "Limited"
  THEN LET whole == Max({0, recoveryblockcount \div largest - 1})
       IN whole + BitCount[recoveryblockcount - whole * largest]
  ELSE IF recoveryfilecount = 0 THEN BitCount[recoveryblockcount]
  ELSE IF recoveryfilecount > recoveryblockcount THEN None ELSE recoveryfilecount

-----------------------------------------------------------------------------
(* The counts of the volumes, in the order of the files.                   *)

(* A slip: the remainder is lost.                                          *)
UniformCut(blocks, files) == [n \in 1 .. files |-> blocks \div files]

Uniform(blocks, files) ==
  [n \in 1 .. files |-> IF n <= blocks % files THEN blocks \div files + 1 ELSE blocks \div files]

(* Twice as many in each file as in the one before, until there are none:  *)
(* the files before the nth have taken low times one bit less one.         *)
Doubling(low, blocks, files) ==
  [n \in 1 .. files |->
    Max({0, Least(low * Bit[n - 1], blocks - low * (Bit[n - 1] - 1))})]

(* The least power of two from which that many files are enough.           *)
Variable(blocks, files) ==
  LET low == Min({Bit[i] : i \in {i \in 0 .. 16 : (Bit[files] - 1) * Bit[i] >= blocks}})
  IN Doubling(low, blocks, files)

(* Files of the largest size, from the end, and doubling ones before them. *)
Limited(blocks, files, largest) ==
  LET top == Least(files, Max({0, blocks \div largest - 1}))
  IN Doubling(1, blocks - top * largest, files - top) \o [n \in 1 .. top |-> largest]

Counts(scheme, blocks, files, largest) ==
  CASE scheme = "Uniform" -> Uniform(blocks, files)
    [] scheme = "Variable" -> Variable(blocks, files)
    [] scheme = "Limited" -> Limited(blocks, files, largest)

(* The last one is the extra file without recovery blocks.                 *)
FileAllocations(scheme, first, blocks, files, largest) ==
  LET counts == Counts(scheme, blocks, files, largest)
  IN [n \in 1 .. files |-> [exponent |-> first + Running(counts)[n - 1], count |-> counts[n]]]
     \o <<[exponent |-> None, count |-> 0]>>

-----------------------------------------------------------------------------
(* The packets of a file.  After each recovery packet come as many         *)
(* critical ones, taken in turn, as its share of all copies; they are      *)
(* copied once for each bit of the count.                                  *)
Volume(allocation, first, criticalpackets) ==
  LET copied == BitCount[allocation.count] * Len(criticalpackets)
      Done(n) == (n * copied) \div allocation.count
      Turn(n) == criticalpackets[((n - 1) % Len(criticalpackets)) + 1]
  IN FlattenSeq([n \in 1 .. allocation.count |->
       <<[type |-> "Recovery", of |-> first + n - 1, exponent |-> allocation.exponent + n - 1]>>
       \o [i \in 1 .. Done(n) - Done(n - 1) |-> Turn(Done(n - 1) + i)]])

(* Recovery packets are numbered through, file after file.                 *)
PacketsOfFiles(allocations, criticalpackets, creatorpacket) ==
  LET before == Running([n \in DOMAIN allocations |-> allocations[n].count])
  IN [n \in DOMAIN allocations |->
       [name |-> <<allocations[n].exponent, allocations[n].count>>,
        packets |-> Append(IF allocations[n].count = 0 THEN criticalpackets
                           ELSE Volume(allocations[n], before[n - 1] + 1, criticalpackets), creatorpacket)]]

=============================================================================
