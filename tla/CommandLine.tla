----------------------------- MODULE CommandLine -----------------------------
(***************************************************************************)
(* The arithmetic of src/src/commandline.cpp: the block size and the       *)
(* number of recovery blocks that a creation is given.  A failure that the *)
(* program reports is None.                                                *)
(*                                                                         *)
(* Sizes are a function from the source files to their sizes in bytes.     *)
(***************************************************************************)
EXTENDS Integers, FiniteSetsExt, RecoveryFiles

CONSTANTS
  Align,           \* 4: block sizes are multiples of it
  TargetBlocks,    \* 2000: how many blocks there are if nothing is asked for
  MaxBlocks,       \* 32768: the most source blocks
  MaxExponents     \* 65536

ASSUME CommandLineAssumption ==
  {Align, TargetBlocks, MaxBlocks, MaxExponents} \subseteq Nat \ {0}

RoundUp(size) == Align * Ceil(size, Align)

Total(sizes) == MapThenSumSet(LAMBDA f : sizes[f], DOMAIN sizes)

SourceBlockCount(sizes, blocksize) ==
  MapThenSumSet(LAMBDA f : Ceil(sizes[f], blocksize), DOMAIN sizes)

(* CheckValuesAndSetDefaults: when neither size nor count is asked for.    *)
DefaultBlockSize(sizes) ==
  LET sized(count) == RoundUp(Max({Align, Ceil(Total(sizes), count)}))
  IN Max({sized(TargetBlocks), sized(MaxBlocks)})

(* A slip: the lower bound moves to the size that was too small.           *)
BisectAgain(words, blockcount) ==
  LET needed(size) == SourceBlockCount(words, size)
      bisect[bounds \in Nat \X Nat] ==
        LET size == (bounds[1] + bounds[2]) \div 2
        IN IF needed(size) > blockcount
           THEN IF size + 1 >= bounds[2] THEN size ELSE bisect[<<size + 1, bounds[2]>>]
           ELSE IF bounds[1] >= size THEN size ELSE bisect[<<bounds[1], size>>]
  IN bisect[<<Total(words) \div blockcount,
              Ceil(Total(words), blockcount - Cardinality(DOMAIN words))>>]

(* The size in words, found between the two bounds.                        *)
Bisect(words, blockcount) ==
  LET needed(size) == SourceBlockCount(words, size)
      bisect[bounds \in Nat \X Nat] ==
        LET size == (bounds[1] + bounds[2]) \div 2
        IN IF needed(size) > blockcount
           THEN IF size + 1 >= bounds[2] THEN size + 1 ELSE bisect[<<size + 1, bounds[2]>>]
           ELSE IF bounds[1] >= size THEN size ELSE bisect[<<bounds[1], size>>]
  IN bisect[<<Total(words) \div blockcount,
              Ceil(Total(words), blockcount - Cardinality(DOMAIN words))>>]

ComputeBlockSize(sizes, blockcount) ==
  LET filecount == Cardinality(DOMAIN sizes)
      words == [f \in DOMAIN sizes |-> Ceil(sizes[f], Align)]
  IN IF blockcount < filecount THEN None
     ELSE IF blockcount = filecount THEN RoundUp(Max({sizes[f] : f \in DOMAIN sizes}))
     ELSE IF blockcount > Total(words) THEN Align
     ELSE LET size == Bisect(words, blockcount)
          IN IF SourceBlockCount(words, size) \in 1 .. MaxBlocks THEN Align * size ELSE None

(* The number of recovery blocks that fit into the size asked for: 21 and  *)
(* 70 are the bytes taken for the packets of a block and a header.         *)
RecoveryBlocksInSize(redundancysize, sourceblockcount, blocksize, recoveryfilecount) ==
  LET overhead == recoveryfilecount * sourceblockcount * 21
  IN IF overhead > redundancysize THEN 1 ELSE (redundancysize - overhead) \div (blocksize + 70)

(* ask is what the command line asks for, largest the number of blocks of  *)
(* the largest file.  With a size to fill and no number of files, that     *)
(* number is estimated as the one of a creation with 15.                   *)
ComputeRecoveryBlockCount(ask, sourceblockcount, blocksize, largest) ==
  LET InSize(files) == RecoveryBlocksInSize(ask.redundancysize, sourceblockcount, blocksize, files)
      files == IF ask.recoveryfilecount # 0 THEN ask.recoveryfilecount
               ELSE ComputeRecoveryFileCount(ask.scheme, 0, InSize(15), largest)
      number == IF ask.recoveryblockcount # None THEN ask.recoveryblockcount
                ELSE IF ask.redundancy > 0
                THEN Max({1, (sourceblockcount * ask.redundancy + 50) \div 100})
                ELSE IF ask.redundancysize = 0 \/ files = None THEN None
                ELSE InSize(files)
  IN IF number = None \/ number > MaxExponents \/ ask.firstblock + number >= MaxExponents
     THEN None ELSE number

=============================================================================
