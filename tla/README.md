# A TLA+ model of par2cmdline

par2cmdline verifies and repairs files with PAR 2.0 recovery data. This
directory holds TLA+ modules that model its core, TLC configurations that check
them on small instances, and TLAPS proofs. Paths of source files below are those
of the repository; `PROJECT.json` maps each definition to the lines it stands
for.

## 1. The system

| part | source | state | operations | correct when |
|---|---|---|---|---|
| sliding window | `filechecksummer` | a buffer of two blocks, three pointers into it, two file offsets, the rolling CRC, two MD5 contexts | Start, Step, Jump, Fill | the window always shows the file at the current offset, CRC and hashes are of the right bytes, no block is passed over |
| block matching | `verificationhashtable`, `datablock` | a tree of entries by CRC and MD5, chains of entries with the same data; the location (disk file, offset) of each block | Load, FindMatch, SetBlock | what is there is found, once, whatever was found before |
| file scanning | `par2repairer` (ScanDataFile, ScanDataFileAligned, VerifyDataFile) | the entry expected next, the match type and count; the complete file of each source file | one scan per disk file, several at a time | a perfect file is recognised |
| repair | `par2repairer` (the rest), `par2repairersourcefile` | target and complete file of each source file, verify list, backup list, counts, the map of disk files | verify, rename, create, rebuild, re-verify, purge | success means that the files are right, and failure loses nothing |
| disk files | `diskfile` | a name and a handle; the map from names to objects; cached sizes | Create, Open, Read, Write, Rename, Delete | names in memory are the names on disk |
| packet loading | `par2repairer` (Load...), the packet classes | packets by exponent and file id, the set id | scan PAR2 files for packets, check that they are consistent | packets in any order, damaged or duplicated, give the same set |
| creation | `par2creator`, `par2creatorsourcefile` | source blocks, recovery packets, critical packets, deferred hashes | chunk passes, writing headers, finishing hashes | what is written can be verified and repaired with |
| recovery arithmetic | `reedsolomon`, `galois`, `crc` | matrices and tables | set input and output, eliminate, process | the blocks computed are the blocks lost |
| PAR 1 repair | `par1repairer` | as repair, for whole files | the same stages | the same |
| front end | `commandline`, `libpar2` | options | parse, compute block size and redundancy | options are passed on as documented |

The parts call one another; there are no messages. A scan moves a
FileCheckSummer along a DiskFile and asks the VerificationHashTable for a match
at each place. Source files are scanned by a pool of threads which share the
table's entries, the block locations and the DiskFileMap. The repair uses the
locations which the scans left behind after it has renamed the files
they point to. The disk is shared with earlier and later runs.

What is hard here: the buffer arithmetic at its boundaries; matches that depend
on the order of the scans; names, objects and the map through two rounds of
renames; calls that fail halfway; a process killed at any point, and the user
running it again on what is left; the purge. `PROJECT.json` lists these as
hazards, line by line, with the properties that cover each, or why none does.

## 2. Modules

| module | stands for | form |
|---|---|---|
| `FileCheckSummer` | the sliding window | state machine |
| `ScanDataFile` | the hash table and the scan of one disk file | operators |
| `Par2Repairer` | `Process` from `VerifySourceFiles` on; composes `ScanDataFile` | state machine |
| `SafeRepair` | what a repair promises | abstract state machine |
| `ScanThreads` | several scans at once; composes `ScanDataFile` | state machine |
| `PacketLoading` | `Process` up to `VerifySourceFiles` | state machine |
| `CommandLine` | block size and number of recovery blocks | operators |
| `RecoveryFiles` | volumes, their exponents and packets | operators |
| `ReedSolomon` | field, matrix, elimination | operators |
| `Par2Creator` | a creation; composes the last three | state machine |
| `MC...` | constants for TLC | |
| `...Proofs` | theorems, section 4 | |

**`FileCheckSummer`** is the window, at the level of bytes and pointers. The
variables are the members of the class; `Start`, `Step` and `Jump` are its
methods, and `Fill` and `UpdateHashes`, which they call, are part of their
steps, with a read that fails as a second outcome. A CRC is
represented by the window it is of and an MD5 context by the bytes it was fed:
`SlideChecksum` gives the right window only if the byte that leaves is the one the
CRC began with. The caller, ScanDataFile, starts at 0 or at the start of each range
it searches, and steps or jumps in between as it likes; a jump of 1 is a step.

**`ScanDataFile`** has no state. It defines what the scan of one disk file
finds, block by block: the chains of entries of equal data in the order they are
inserted in, `FindMatch` with its preferences, the aligned pass that runs when a
file has two or more workers, the walk over the pieces with the entry expected
next (`Advance` is what one look does to the scan), and the decision that the file
is a full match. A disk file is a sequence of block-sized pieces, each the data of a
block or `Junk`.

**`Par2Repairer`**: one action per file that is verified, renamed, created or
verified again, one per chunk of the repair, one per deletion stage of the purge.
`pc` is the stage. A DiskFile is an object that was opened by a name or created for
a source file; `filename` is the name it has now, `diskFileMap` the map by names,
and `found` the block locations and complete files, which refer to objects and not
to names: this is what makes renames dangerous. `disk` outlives the process. `Kill`
ends a run anywhere, any call may fail (`Fault`), and `Rerun` is the user starting
again, with or without all files given as extra files. A name is a sequence, and
`Append(name, k)` is the name with suffix `.k`.

**`SafeRepair`** is the abstract specification: data that the program did not make
itself is kept, any of the files may become right, success is reported only when all
are, and then they stay so while a purge may delete. `Par2Repairer` implements it
(`RepairIsSafe == Safe!Spec`) under the mapping of `kept` to the contents of all
files except those of created targets, `repaired` to the targets with the right
data, and `stage` to the stage and result.

**`ScanThreads`** has a thread for each disk file. A step is one look for a match,
one of the two stores of `DataBlock::SetLocation`, or the end of a scan with
`SetCompleteFile`; locations and complete files are shared without a lock, as the
OpenMP loops share them.

**`PacketLoading`** loads the named PAR2 file, then those with the same stem, then
the extra files. A file is its size and the packets that start at given offsets,
with the length each header claims and whether its hash is right. `Search` is the
scan of a buffer for the magic; its overlaps are those of the code. Each loader's
checks are in `Sound` and its own definition; `CheckPacketConsistency`, `CreateSourceFileList`,
`AllocateSourceBlocks` and `PrepareVerificationHashTable` follow as one action each.

**`Par2Creator`** is `Process` of a creation with the command line's arithmetic
before it: a step opens one source file, reads one block of one pass, writes one
recovery block's chunk, one header, or one critical packet. A packet counts as on disk
once its header is there, so a kill is any state of a behaviour. `SourceChanges` is
another program that writes a source file meanwhile. `CommandLine`, `RecoveryFiles`
and `ReedSolomon` are the pure parts it calls.

## 3. What is checked

| run | question | result |
|---|---|---|
| `checksummer` | is the window right for every file of 1 to 10 bytes, blocks of 3 bytes, every mixture of starts, steps, jumps and failing reads | holds |
| `checksummer_padding` | is the window blank beyond the end of the file | violated |
| `packets` | is what survives in damaged, cut, duplicated and mixed PAR2 files loaded, and nothing else | holds |
| `repair` | verify to purge, on every disk on which each of two source files and an extra file is missing, whole, damaged, misnamed or has a block of another file | holds |
| `repair_twins` | the same with a block of equal data in both files, with files that do not open, verifying and repairing, rename-only and not | holds |
| `purge_misnamed` | does the purge leave repaired files alone when a damaged target is the complete version of another file | violated |
| `twin_perfect` | is a perfect target found when a block of it was found elsewhere and has a twin | violated |
| `backup_name` | is the new name free at `assert(success)` when a source file is named as a backup would be | violated |
| `unreadable_target` | is a target reported missing only if its name is free, when opening may fail | violated |
| `torn_location` | do two threads that find the same block leave a location that is right | violated |
| `create` | one to four files, many sizes, schemes and memory limits, with a failing call or kill anywhere and a source file that changes | holds |
| `singular` | are as many recovery blocks as blocks are lost always enough | violated |

The violated runs each check one statement that a comment, an assertion or the
documentation makes. `PROJECT.json` quotes it under findings.

**FileCheckSummer.** `PointersAgree` relates all five positions. `WindowShowsFile`
and `ChecksumTracksWindow` say what is compared with the table is the file and
its CRC. `HashesCoverFile` is the whole-file and 16k hash at the end of a scan.
`JumpStaysInBuffer` is the assertion in Jump. `MovesAtMostOneBlock` says that a scan
goes forward and never passes over a block, and `ScanEnds` that it ends.

**PacketLoading.** `LoadedIsUnion`: with no failed call, what is loaded is the union
of what survives in the files, stated over packets and files alone and compared with
what the search in overlapping buffers takes. `RecoveryPacketsKept`: a recovery packet that the
repair will read is where the map says, and its DiskFile was not deleted.
`EntriesOwnTheirBlocks`: blocks follow one another without gap or overlap although
inconsistent files are dropped, and no two hash table entries share a block.
`CriticalPacketsSuffice`: if each critical packet survives once, in whichever file,
verification starts, with every recovery block that survives. `LoadingEnds`.

**Par2Repairer.** During verification: `MissingIsMissing` (a block is counted as
missing if and only if no scanned file has it) and `PerfectTargetFound`.
Through the renames: `LocationsTrue` (every located block is still where its
object says, until it is read), `DiskFileMapAgrees`, `BlocksCounted` (the size
and the filling of `copyblocks` agree), `InsertSucceeds` and `MissingTargetIsAbsent`
(a name that is renamed to is free, on the disk and in the map; these two hold in `repair`,
whose names are apart and whose files open, and fail in `backup_name` and
`unreadable_target`). At the end: `SuccessMeansRepaired`,
`PossibleMeansRepaired` (a repair reported possible, with no fault, succeeds) and
`RetryRepairs` (whatever an earlier run was stopped at, a run over all the files
repairs them if the first disk had enough data). At every step:
`StaysRecoverable` (data that could be repaired from the first disk can be from
every later one, and without recovery files once they are purged) and
`RepairIsSafe`, the refinement of `SafeRepair`. `RunEnds` is liveness.

**Par2Creator.** `BlockSizeFits`: the bisection finds the smallest block size that gives
no more blocks than asked for, from bounds that are only estimates. `VolumesFit`: every
exponent once, in the volume whose name says so, under the matrix row computed for it; file names
distinct, no volume empty; critical packets equally often; sizes as the scheme promises. `PacketsOnDiskTrue`: at no moment is a
packet on disk valid and wrong. `HashesAgree`: the hash of a file and of its blocks
are of the same bytes, computed first or deferred. `RecoveryRepairs` composes the
creation with the repairer's elimination: for every set of lost blocks and every choice
of as many recovery packets, if the matrix is solved the result is the lost data.
`SolvableWithoutGaps`: it is solved when the packets that are used have consecutive exponents,
so the finding of `singular` takes a gap between them.
`CreateEnds` is liveness.

### Bounds

* Window: blocks of 3 bytes and files of up to 10 reach a buffer that is full, half
  full, refilled on its last byte, and moved more than once; the bytes of a file
  are all different, so one out of place is seen. The mark of 16384 bytes is at 5,
  not a multiple of the block size, so reads end before, at and beyond it. Jumps are
  of 2 to 4 bytes, so the cap at a block is reached.
* Packets: a header has 4 bytes and the buffer 7, so a magic lies before, across and
  after the end of a buffer for junk of 0 to 7 bytes before it. One packet is damaged in its
  magic, its length (too long, odd, beyond the file, 0) or its body, or the file is cut; other
  disks mix sets, repeat and contradict packets. `MaxU32` is 3, so a file with too
  many blocks occurs.
* Repair: two source files of two blocks and one (or two and two), one extra
  file, one recovery block. This is the least with a file that is partly
  damaged, two that exchange names, and a missing block that can or cannot be
  rebuilt. `MaxFaults = 1` and `MaxRuns = 2`: one failing call or kill, and a run after
  it. `Chunks = 2` passes, so that a fault can come between two chunks.
* In `Par2Repairer` scans of different files come in any order, and one scan is one step.
  `torn_location` interleaves two scans of two pieces each.
* `repair` purges only on disks where no target holds the whole of another source file,
  and lets every open of an existing file succeed, because of the findings of
  `purge_misnamed` and `unreadable_target`; `repair_twins` does not make the second
  restriction, and does not state the properties that finding breaks.
* Creation: the field has 16 elements (`Bits = 4`, `Generator = 19`), so at most 8 source
  blocks and exponents below 16; tables, bases, matrix and elimination are defined for any
  even number of bits. Alignment is 2, the targets of 2000 and 32768 blocks are 4 and 8, the
  first hash is of 3 bytes. One call fails, one source byte changes once.
* `singular` uses the small field; with 16 bits the same happens for bases of
  logarithms 2 and 3857 and exponents that differ by 17, as 3855 * 17 = 65535.

### Fairness

`FileCheckSummer`: weak fairness of `Next`, since the scan loop steps or jumps in
each round and waits for nothing. `PacketLoading` and `Par2Repairer`: weak fairness of
`Process`, and `Par2Creator`: of `Create`; a process that is not killed goes on. Neither
`Kill` nor `Rerun` nor `SourceChanges` is fair. Deadlock is checked for `packets` only: the
other programs end, and after the last run the user does nothing.

## 4. What is proved

Every theorem is for all values of the constants that satisfy the named assumptions of the
modules, and what is said below.

**`FileCheckSummerProofs`**: each of the seven safety properties of the `checksummer` run, for
every block size, file, set of jump distances and place of the 16k mark. A block has at
least a byte, files are non-empty sequences of bytes, jumps are longer than 1, and the
byte that stands for uninitialised memory is none of the file. `WindowShowsFile` is
not inductive: a jump keeps bytes beyond the window, which come into it later. So
`BufferShowsFile` speaks of all that is buffered, from the out pointer to the tail;
`ContextsHold` says what the MD5 contexts hold between reads, for any read offset; and
`EndIsRead` that the window reaches the end of a file only when all of it has been
read, which holds because `Jump` and `Step` move at most to data that is buffered. The
lemmas follow the code: `FillFacts` and `HashFacts` for what a refill and its
hash do, `RefilledWindow` and `SlidWindow` for the buffer after a jump and after a
step, one lemma per action for preservation, and one theorem per property.

**`ScanDataFileProofs`**: what the operators of a scan compute. Induction over data is out of the
provers' reach as a rule of the library, so it is done by sets: the least number exists (from the
library's well-foundedness of the naturals), and a property of the places of a file that holds at 0
and passes from each place to the next has no least place where it fails (`InductionUpTo`). From this:
the recursive walk is defined (`ScanIsDefined`); what it finds is in the file, and a complete file has
all its blocks located (`VerifyDataFileFinds`); a file that is right is recognised, by any number of
workers, if its blocks were not found before, or only in other files and have no twins
(`PerfectFileIsComplete`); and without twins a scan locates every block that is in the file
(`ScanMissesNothing`). `FirstIsOfChain`, `FindMatchFindsData` and `AdvanceFields` are the
facts of single looks.

**`ScanThreadsProofs`**: `CompleteFilesAreWhole`. For any number of threads, files and blocks,
whatever the other threads store, a file recorded as the complete version of a source
file has all its data, although locations can be torn. The invariant counts, for each
scan still in line for a full match, that all it has looked at is the beginning of
its source file. Assumed: contents are sequences of blocks' data or `Junk`.

**`PacketLoadingProofs`**: four invariants on top of one another. `IInv` says that the packet being taken is
there (`ReadingAt`) and that a file with a taken packet is in the map, or is the one open now with a count
that is not 0 (`WillBeKept`), since a file is only kept at its end: `LoadedPacketsAreKept`. `TInv` adds the types,
where each loaded thing comes from, and the layout of the blocks: `TypeCorrect` and `BlocksAreLaidOut`. `NInv` is
about what is not missed: every intact packet before the place of the search was taken
(`NothingIsMissed`); the heart is that the overlap of two buffers leaves no place for a magic. `CInv` is what
the check of consistency keeps, and with the others gives `CriticalPacketsAreEnough`. Where needed it is
assumed that PAR2 files are named as PAR2 programs name them (`PlainNames`), that intact packets do not overlap
(`PacketsApart`), that packets about the same thing are copies (`CopiesAgree`) and that no main packet lists a
file twice (`FilesListedOnce`). `MCPacketLoading` states these of its disks, the one about copies
of those on which a file is damaged and of none that mixes sets, so TLC shows that they can be met.

**`Par2RepairerProofs`**: `MapNamesTheFiles`, the property `DiskFileMapAgrees`, for any
files, starting disks and failures. The invariant `IInv` adds that the map has known objects
only, that files have the name they were opened by until the first rename
(`AsOpened`), that targets and complete files are known objects, and that no target is
created twice. `OInv` strengthens it for the modules below: no created object before the creation,
a file is the complete version of at most one source file, a target has its file's name, no damaged target
is left at the second round of renames, and the verify list is the list of created
targets. A backup name is free by the pigeonhole principle over the finite disk (`BackupNameIsFree`).
What verification found is there: `DInv` says that pieces on the disk are data
(`DiskIsData`), that each location is true of the contents of the objects, which do not change by a rename,
and a complete version is its source file (`FoundTrue`); that the counts are those of what was found
(`FilesCounted`, `AvailableCounted`); and that the last chunk has made the new targets right (`Rebuilt`). From it
`LocationsStayTrue` and `BlocksAreCounted`, with no assumption beyond those of the modules, and `TypeCorrect`.
`SuccessIsRepaired` needs `PurgeIsSafe`, for runs that purge only: backups' names are no source files' names, no two
source files are the same, and no target holds the whole of another source file. The finding of
`purge_misnamed` shows that it fails without the last.

The rest of the module is what a run promises.

* Nothing is destroyed: `RepairLosesNothing` (no step before the purge takes away or
  overwrites what the program did not make), `RenamesAreInserted` (`InsertSucceeds`),
  `MissingTargetsAreAbsent` (`MissingTargetIsAbsent`), `RepairStaysPossible` (`StaysRecoverable`) and
  `RepairImplementsSafeRepair`, the refinement `RepairIsSafe`, every step of it. They need `Setting`: no name with a suffix
  is a source file's name (`NamesApart`), and what is there can be opened. These are what the findings of
  `backup_name` and `unreadable_target` break, and the proofs say that nothing else does. The last two need
  `PurgeIsSafe` too. The invariant `SInv` adds to `OInv` that a target with no object has no file
  on the disk; `DataIsThere` is the inductive form of `StaysRecoverable`: what was first on the disk is in files that
  the program did not make, or all the data of the set is on the disk.
* A run without a fault gets to its end: `PossibleIsRepaired` (`PossibleMeansRepaired`) assumes `NamesApart` only, since a
  file that does not open is a fault. `GoesWell` is the invariant: each rename's new name is free, each creation's too, the
  targets that are not new are complete (`TargetsKept`), and those verified again were found to be complete
  (`TargetsVerified`), by `PerfectFileIsComplete`.
* A verification without a fault overlooks nothing: `PerfectTargetsAreFound` and `MissingAreMissing`
  (`MissingIsMissing`), when no two blocks have the same data (`NoTwinBlocks`; `twin_perfect` is the
  counterexample to the first of them without it). `NothingOverlooked` says that all blocks in the files opened so far are located, and that a
  file that is given and not opened is still to be.
* `RetriesRepair` (`RetryRepairs`) puts these together: whatever earlier runs were stopped at, a run over all files
  that meets no fault finds enough (`GivesUpRightly`) and repairs.

The instance of the run `repair` meets all of these hypotheses, and starts on disks with every mixture of
whole, damaged, misnamed and missing files.

**`Par2CreatorProofs`**: `PacketsAreTrue`, the property `PacketsOnDiskTrue`. A recovery packet whose header is on disk
holds the sums of the blocks that the stored hashes are of, for any files, block size, number of passes,
failures and changes of source files. `IInv` says that what is opened has blocks of the right size
(`Shape`, `Hashed`, `Staged`), that the cursors over files, blocks and passes agree
(`CursorsAgree`), that the sums cover the passes that are done in full and the current one up to the block being read (`Passing`,
`SumsTrue`), that what is written is what was summed (`DataWritten`), and that the hashes are complete when
headers are written (`HashesDone`). With deferred hashes a block's hash is only known as far as the block
has been read, so `SummedUp` speaks of the blocks as they were read. Under it are the
recursive definitions: a function over the numbers up to a bound that is defined step by step exists
(`Recursion`), so the flattened list of blocks (`Flattening`) and the sum of a row (`OutputIsSum`) are
what they are meant to be. The field's operations stay
uninterpreted: that a chunk at a time gives the same as a block at a time needs no algebra.
`HashesAreRight` is the property `HashesAgree`. Its invariant `HInv` adds to `IInv` that the context of a file
holds the bytes of the blocks of it that the pass has read (`ContextsFollow`; `Spells` says that bytes are those of
words one after the other), that all files are complete at the end (`Finished`), and that what is hashed
is the beginning of the file while no other program writes it (`AsOnDisk`).
`BlockSizeIsLeast` is the property `BlockSizeFits`: for any number of files of any sizes, not only those of the run.
The bisection keeps a bracket of its bounds (`Bracketed`): the upper gives few enough blocks, one less
than the lower too many. It needs no monotonicity of the number of blocks in the size; that the
two estimates it starts with are such a bracket is a bound on a sum by its terms (`SumsCompare`,
`UpperFits`, `SmallerFails`), and blocks of words are those of the bytes in them (`CeilOfCeil`).

**`Par2CreatorVolumesProofs`**: `VolumesAreRight`, the property `VolumesFit`, for any number of recovery blocks and
files, each scheme and any source files. The argument has four parts.

* The counts add up (`CountsFill`): with as many files as the number of blocks has bits, the powers of
  two before the last file leave something for it (`BitCountBounds`, `DoublingFills`), so that the doubling scheme starts
  with one block (`VariableIsDoubling`) and the limited one is that scheme for the rest (`LimitedFills`).
* A volume is its recovery packets and its turns of critical ones (`VolumeIsWoven`): the places are known from the
  shares `DoneBy`, which grow to all copies (`DoneFacts`), so each copy comes after exactly one recovery packet
  (`OneShare`) and each critical packet comes as often as the count has bits (`TurnsCount`, `CopiesInWoven`).
* The totals rise, since no volume is empty, so a recovery block is within the reach of one volume (`OneReaches`).
* The plan is kept: `Counted` and `Planned` say that the number of files is computed once and that the files are
  those planned for the order of the source files, until the end. A source file that changes keeps its size.

It rests on a clause of `CreatorAssumption`, that a number of files (`-n`) makes the scheme uniform, as
`commandline.cpp:678` does; a caller of the library who asks for a number of files with the doubling scheme can
get empty volumes of the same name.

**`Par2CreatorRecoveryProofs`**: `SetRepairs`, the property `RecoveryRepairs`, for any source files, options and number
of passes, any blocks lost and any choice of as many recovery packets. If `GaussElim` ends with a matrix, what
`ProcessData` of the repairer makes from the blocks that are left is, byte for byte, what was lost.

* The elements form a field (`TablesAssumption` and what follows from it: `TimesFacts`, and that `Divide` undoes
  `Times`), and finite sums over it can be split, scaled and exchanged.
* `LongTimes`, the table lookups by halves of an element that `InternalProcess` does, is `Times`.
* A matrix stands for equations between the blocks that are read and those that are lost, one for each row and
  each place in a block. `Compute` starts from the equations by which the recovery blocks were made
  (`Matrices`), each step of `Eliminate` keeps them all, and after the last one row is one lost block.
* `MInv` adds to `HInv` that the factors with which a creation sums are those of its exponents' rows (`FactorsTrue`; no block
  is missing, so nothing is eliminated) and that these exponents stay below `MaxExponents` (`ExponentsFit`).

That the matrix may be unsolvable is the finding of `singular`; `ConsecutiveSolve`, the property `SolvableWithoutGaps`,
says that it is not when the exponents of the packets that are used are consecutive, whichever blocks are lost.

* The logs of the bases (`Bases`) differ, so the bases do (`BasesDistinct`), and `Pow`, which adds the bits above the width to
  those in it, multiplies by the base when the exponent rises by 1 (`PowNext`). A row's entries for the lost blocks are
  thus one power of each base times the values of a monomial.
* `Monics` are the polynomials whose first coefficient is 1, by degree. A root is taken out of one as a factor (`MonicRoot`), so it
  has no more roots than its degree (`FewRoots`); and with multiples of those of lower degrees added it is still one of its
  degree (`MonicAdds`), which is what `Eliminate` does to the rows below the pivot (`ClearedRows`).
* So the row that is next has, for the lost blocks, the values of such a polynomial of the degree of the rows before it. Those
  rows have made it zero at as many bases (`UnitUpTo`), and it cannot be zero at one more, its pivot (`PivotIsNotZero`).

`TypeCorrect`, the property `TypeOK` of a creation, is proved there too, as what is summed is in the field only because the field
is closed and the factors are elements of it. `TInv` adds to `MInv` the buffers and the recovery data (`DataTyped`,
`BufferTyped`), that a deferred hash is given no more than its file has (`HashesTyped`), and that files are created in the order
of a plan that is a sequence (`NamesTyped`).

Assumptions of the modules: `FilesAssumption` (source files are distinct, each has a block), `DataAssumption`
(each block has data, that is not `Junk`), `RepairAssumption` (the bounds are numbers), `StartsAssumption`
(names are sequences, starting disks are finite and hold such data), `NoneAssumption` (the null
pointer is no object), `LoadingAssumption` and `PacketsAssumption` (sizes and offsets of packets),
`CreatorAssumption` (source files are sequences over the field, none empty; options are numbers, and a number of files
makes the scheme uniform; exponents have no more bits than elements), `CountAssumption` (the field has elements
besides 0 and 1) and `TablesAssumption` (`Generator` is primitive, and what `galois_test.cpp` tests of the operators: closed,
associative, distributive). TLC evaluates them in the runs, the last for the field of 16 elements.

Every invariant and action property of the passing runs is stated by a theorem. Only model-checked is liveness: temporal
properties under fairness are out of the prover's reach.
`NoneMisplaced` and `NoTwinBlocks` are hypotheses and not proved of the code, which does not
ensure them. Proofs about a torn location stop at `CompleteFilesAreWhole`.

## 5. What is not modelled

* `Par1Repairer`: the same stages for whole files, in code of its own.
* The threads of an aligned scan of one file, and those of the re-verification
  (one clears the locations of its file while another looks entries up).
* Data that is not at a multiple of the block size, and short last blocks, in
  `ScanDataFile`: the window's bytes are `FileCheckSummer`'s part. A short last block
  in the repair's `ReadData` and `WriteData`.
* A kill in the middle of the last chunk: a new target is without data or has all of
  it. A target with a part of it is to the next run one more damaged file. A kill
  inside `CheckBasepath`, which leaves the file it tries.
* Memory that cannot be allocated; non-recoverable files and empty source files in the repair;
  source files without a verification packet; skipping of data (`-N`).
* In `Par2Repairer`, Reed-Solomon rebuilds any missing blocks from as many recovery
  blocks, or fails (a fault); that it may be unable to is `singular`, that it is able to with
  consecutive ones `SolvableWithoutGaps`, and that it gives the right data `RecoveryRepairs`. Recovery
  blocks can be read.
* The files of another set whose names begin like those of this one: `PacketLoading` reads them and
  takes nothing, and what a purge then deletes is left out. The index file is searched only
  when it is named, as its name does not match the pattern of the others.
* The arithmetic of MD5 and of the CRC's tables: equal bytes stand for equal sums.
* Output, path handling, text encodings, options as text, Windows, and the parts marked so in
  `PROJECT.json`.

## 6. What could come next

1. The threads of an aligned scan and of the re-verification, as `ScanThreads` has those of the
   first one.
2. `Par1Repairer` as a second implementation of `SafeRepair`.
3. For which gaps between the exponents the matrix is still solved: two packets fail for two blocks exactly when the
   quotient of their bases, to the power of the difference of the exponents, is 1.
