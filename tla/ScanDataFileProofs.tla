------------------------- MODULE ScanDataFileProofs -------------------------
(***************************************************************************)
(* What the operators of ScanDataFile return, for any set of source files. *)
(***************************************************************************)
EXTENDS ScanDataFile, FiniteSetTheorems, WellFoundedInduction, TLAPS

(* Numbers are well ordered: the theorem of the library on minimal         *)
(* elements, for the order of the natural numbers.                         *)
LEMMA LeastNumber ==
  ASSUME NEW S \in SUBSET Nat, S # {}
  PROVE  \E m \in S : \A n \in S : m <= n
<1>1. IsWellFoundedOn(OpToRel(<, Nat), Nat)
  BY NatLessThanWellFounded
<1>2. \E m \in S : \A n \in S : ~ (<<n, m>> \in OpToRel(<, Nat))
  BY <1>1, WFMin
<1>3. PICK m \in S : \A n \in S : ~ (<<n, m>> \in OpToRel(<, Nat))
  BY <1>2
<1>4. \A n \in S : n \in Nat /\ m \in Nat /\ ~ (n < m)
  BY <1>3 DEF OpToRel
<1> QED BY <1>4

LEMMA NumberIsNatural == \A f \in File : Number[f] \in Nat
BY FilesAssumption DEF Number, File, ToSet

LEMMA EntryFacts ==
  \A e \in Entry : /\ e = <<e[1], e[2]>> /\ e[1] \in File
                   /\ e[2] \in 1 .. BlockCount[e[1]] /\ e # None
BY FilesAssumption, DataAssumption DEF Entry

LEMMA MakeEntry ==
  ASSUME NEW f \in File, NEW i \in 1 .. BlockCount[f]
  PROVE  <<f, i>> \in Entry
BY DEF Entry

LEMMA ImageIsFinite ==
  ASSUME NEW g, IsFiniteSet(DOMAIN g)
  PROVE  IsFiniteSet({g[x] : x \in DOMAIN g})
<1> DEFINE T == {g[x] : x \in DOMAIN g}
           h == [x \in DOMAIN g |-> g[x]]
<1>1. h \in Surjection(DOMAIN g, T)
  BY DEF Surjection
<1> HIDE DEF h, T
<1>2. IsFiniteSet(T)
  BY <1>1, FS_Surjection
<1> QED BY <1>2 DEF T

LEMMA SourceFilesAreFinite ==
  IsFiniteSet(File) /\ Cardinality(File) = Len(SourceFiles) /\ Len(SourceFiles) \in Nat
<1> DEFINE N == Len(SourceFiles)
<1>1. SourceFiles \in Seq(File) /\ \A i, j \in DOMAIN SourceFiles : SourceFiles[i] = SourceFiles[j] => i = j
  BY FilesAssumption DEF IsInjective
<1>2. DOMAIN SourceFiles = 1 .. N /\ N \in Nat
  BY <1>1
<1> HIDE DEF N
<1> DEFINE S == 1 .. N
<1>3. SourceFiles \in Bijection(S, File)
  <2>1. SourceFiles \in [S -> File]
    BY <1>1, <1>2
  <2>2. \A f \in File : \E i \in S : SourceFiles[i] = f
    BY <1>2 DEF File, ToSet
  <2> QED BY <1>1, <1>2, <2>1, <2>2 DEF Bijection, Injection, Surjection, IsInjective
<1>4. IsFiniteSet(S) /\ Cardinality(S) = N
  BY <1>2, FS_Interval
<1> HIDE DEF S
<1>5. IsFiniteSet(File) /\ Cardinality(File) = Cardinality(S)
  BY <1>3, <1>4, FS_Bijection DEF ExistsBijection
<1> QED BY <1>2, <1>4, <1>5 DEF N

LEMMA EntriesAreFinite == IsFiniteSet(Entry)
<1> DEFINE block(f) == [i \in 1 .. BlockCount[f] |-> <<f, i>>]
           blocks == [f \in File |-> {<<f, i>> : i \in 1 .. BlockCount[f]}]
<1>1. \A f \in File : IsFiniteSet(blocks[f])
  <2> SUFFICES ASSUME NEW f \in File PROVE IsFiniteSet(blocks[f])
    OBVIOUS
  <2>1. IsFiniteSet(DOMAIN block(f))
    BY FilesAssumption, FS_Interval
  <2>2. {block(f)[i] : i \in DOMAIN block(f)} = blocks[f]
    OBVIOUS
  <2> HIDE DEF block, blocks
  <2> QED BY <2>1, <2>2, ImageIsFinite
<1>2. DOMAIN blocks = File
  OBVIOUS
<1>3. Entry = UNION {blocks[f] : f \in DOMAIN blocks}
  BY DEF Entry
<1> HIDE DEF blocks
<1>4. IsFiniteSet({blocks[f] : f \in DOMAIN blocks})
  BY <1>2, SourceFilesAreFinite, ImageIsFinite
<1> QED BY <1>1, <1>2, <1>3, <1>4, FS_UNION

LEMMA OriginalIsData == ASSUME NEW f \in File PROVE Original(f) \in Seq(Data)
<1> DEFINE n == BlockCount[f]
           data == Original(f)
<1>1. n \in Nat
  BY FilesAssumption
<1>2. data = [i \in 1 .. n |-> BlockData[<<f, i>>]]
  BY DEF Original
<1>3. \A i \in 1 .. n : BlockData[<<f, i>>] \in Data
  BY <1>1, MakeEntry DEF Data
<1> HIDE DEF n, data
<1>4. data \in Seq(Data)
  BY <1>1, <1>2, <1>3
<1> QED BY <1>4 DEF data

(* There is a first one in every chain of entries.                         *)
LEMMA FirstIsOfChain ==
  ASSUME NEW chain \in SUBSET Entry, chain # {}
  PROVE  First(chain) \in chain /\ \A o \in chain : <<First(chain), o>> \in Before
<1> DEFINE numbers == {Number[FileOf(e)] : e \in chain}
<1>1. numbers \in SUBSET Nat /\ numbers # {}
  BY NumberIsNatural, EntryFacts DEF FileOf
<1>2. PICK n \in numbers : \A m \in numbers : n <= m
  BY <1>1, LeastNumber
<1>3. PICK f \in File : /\ Number[f] = n
                        /\ \E e \in chain : FileOf(e) = f
  BY <1>2, EntryFacts DEF FileOf
<1> DEFINE blocks == {e[2] : e \in {o \in chain : FileOf(o) = f}}
<1>4. blocks \in SUBSET Nat /\ blocks # {}
  BY <1>3, EntryFacts, FilesAssumption DEF FileOf
<1>5. PICK i \in blocks : \A j \in blocks : i <= j
  BY <1>4, LeastNumber
<1>6. PICK e \in chain : FileOf(e) = f /\ e[2] = i
  BY <1>5
<1>7. \A o \in chain : <<e, o>> \in Before
  <2> TAKE o \in chain
  <2>1. e \in Entry /\ o \in Entry
    OBVIOUS
  <2>2. Number[FileOf(o)] \in numbers /\ n <= Number[FileOf(o)]
    BY <1>2
  <2>3. CASE FileOf(o) = f
    BY <2>1, <2>3, <1>5, <1>6 DEF Before
  <2>4. CASE Number[FileOf(o)] # n
    BY <2>1, <2>2, <2>4, <1>1, <1>3, <1>6 DEF Before
  <2>5. CASE Number[FileOf(o)] = n /\ FileOf(o) # f
    <3>1. FileOf(o) \in File /\ f \in File
      BY EntryFacts DEF FileOf
    <3>2. \A g \in File : SourceFiles[Number[g]] = g
      BY DEF Number, File, ToSet
    <3> QED BY <3>1, <3>2, <2>5, <1>3
  <2> QED BY <2>3, <2>4, <2>5
<1> QED BY <1>7 DEF First

LEMMA NextEntryFacts ==
  ASSUME NEW e \in Entry
  PROVE  /\ NextEntry(e) \in Entry \union {None}
         /\ NextEntry(e) # None => NextEntry(e) = <<e[1], e[2] + 1>>
<1>1. e[1] \in File /\ e[2] \in 1 .. BlockCount[e[1]] /\ BlockCount[e[1]] \in Nat
  BY EntryFacts, FilesAssumption
<1>2. CASE e[2] < BlockCount[e[1]]
  <2>1. NextEntry(e) = <<e[1], e[2] + 1>> /\ e[2] + 1 \in 1 .. BlockCount[e[1]]
    BY <1>1, <1>2 DEF NextEntry, FileOf
  <2> QED BY <1>1, <2>1, MakeEntry
<1>3. CASE ~ (e[2] < BlockCount[e[1]])
  BY <1>3 DEF NextEntry, FileOf
<1> QED BY <1>2, <1>3

(* What FindMatch returns has the data that it was asked for.              *)
LEMMA FindMatchFindsData ==
  ASSUME NEW found, NEW suggested \in Entry \union {None}, NEW sourcefile, NEW diskfile,
         NEW data \in Data, NEW atstart
  PROVE  LET e == FindMatch(found, suggested, sourcefile, diskfile, data, atstart)
         IN  e = None \/ (e \in Entry /\ BlockData[e] = data)
<1> DEFINE chain == Same[data]
           unused == {e \in chain : ~IsSet(found, e)}
           own == {e \in unused : FileOf(e) = sourcefile}
<1>1. /\ chain \in SUBSET Entry
      /\ \A e \in chain : BlockData[e] = data
  BY DEF Same, Data
<1> HIDE DEF chain
<1>2. chain # {} => First(chain) \in chain
  BY <1>1, FirstIsOfChain
<1>3. unused # {} => First(unused) \in chain
  BY <1>1, FirstIsOfChain
<1>4. own # {} => First(own) \in chain
  BY <1>1, FirstIsOfChain
<1>5. FirstUnused(found, chain, sourcefile) \in chain \union {None}
  BY <1>3, <1>4 DEF FirstUnused
<1>6. \A e : OnlyEntry(found, e, suggested, diskfile, atstart) \in {e, None}
  BY DEF OnlyEntry
<1>7. Suggested(found, suggested, data) => suggested \in Entry /\ BlockData[suggested] = data
  BY DEF Suggested
<1>8. FindMatch(found, suggested, sourcefile, diskfile, data, atstart)
        = IF Suggested(found, suggested, data) THEN suggested
          ELSE IF chain = {} THEN None
          ELSE IF Cardinality(chain) = 1
          THEN OnlyEntry(found, First(chain), suggested, diskfile, atstart)
          ELSE FirstUnused(found, chain, sourcefile)
  BY DEF FindMatch, chain
<1> QED BY <1>1, <1>2, <1>5, <1>6, <1>7, <1>8

-----------------------------------------------------------------------------
(* Induction up to a number: the numbers for which something holds are     *)
(* all, when 0 is one and the next of each is.  What holds is a set here,  *)
(* and the lemma follows from there being a least number that is not.      *)
LEMMA InductionUpTo ==
  ASSUME NEW N \in Nat, NEW P \in SUBSET (0 .. N), 0 \in P,
         \A n \in P : n < N => n + 1 \in P
  PROVE  P = 0 .. N
<1> DEFINE rest == (0 .. N) \ P
<1>1. SUFFICES ASSUME rest # {} PROVE FALSE
  OBVIOUS
<1>2. rest \in SUBSET Nat
  OBVIOUS
<1>3. PICK m \in rest : \A n \in rest : m <= n
  BY <1>1, <1>2, LeastNumber
<1>4. m # 0 /\ m - 1 \in 0 .. N /\ m - 1 < N
  BY <1>3
<1>5. m - 1 \in P
  BY <1>3, <1>4
<1>6. (m - 1) + 1 \in P
  BY <1>4, <1>5
<1> QED BY <1>3, <1>6

(* The states of a scan, one for each piece, are defined: each by that of  *)
(* the piece before.                                                       *)
Scanning(h, found, diskfile, content, sourcefile, aligned, renameonly) ==
  /\ h[0] = StartOfScan(found, diskfile, content, sourcefile, aligned, renameonly)
  /\ \A p \in 1 .. Len(content) :
       h[p] = ScanOn(h[p - 1], found.complete, diskfile, content, aligned, p, renameonly)

LEMMA ScanIsDefined ==
  ASSUME NEW found, NEW diskfile, NEW content, NEW readable \in 0 .. Len(content),
         NEW sourcefile, NEW workers, NEW renameonly, Len(content) \in Nat
  PROVE  \E h : /\ Scanning(h, found, diskfile, content, sourcefile,
                            Aligned(found, sourcefile, content, workers), renameonly)
                /\ ScanDataFile(found, diskfile, content, readable, sourcefile, workers, renameonly)
                     = h[readable]
<1> DEFINE N == Len(content)
           aligned == Aligned(found, sourcefile, content, workers)
           first == StartOfScan(found, diskfile, content, sourcefile, aligned, renameonly)
           After(before, p) == ScanOn(before, found.complete, diskfile, content, aligned, p, renameonly)
           Upto(g, n) == g[0] = first /\ \A p \in 1 .. n : g[p] = After(g[p - 1], p)
           P == {n \in 0 .. N : \E g : Upto(g, n)}
<1>1. 0 \in P
  <2>1. Upto([p \in {0} |-> first], 0)
    OBVIOUS
  <2> HIDE DEF Upto
  <2> QED BY <2>1
<1>2. ASSUME NEW n \in P, n < N PROVE n + 1 \in P
  <2>1. PICK g : Upto(g, n)
    BY <1>2
  <2> HIDE DEF first, After
  <2> DEFINE new == [p \in 0 .. n + 1 |-> IF p = n + 1 THEN After(g[n], n + 1) ELSE g[p]]
  <2>2. n \in Nat
    OBVIOUS
  <2>3. Upto(new, n + 1)
    <3>1. new[0] = first
      BY <2>1, <2>2
    <3>2. ASSUME NEW p \in 1 .. n + 1 PROVE new[p] = After(new[p - 1], p)
      <4>1. p - 1 \in 0 .. n + 1 /\ p \in 0 .. n + 1 /\ p - 1 # n + 1
        BY <2>2
      <4>2. new[p - 1] = g[p - 1]
        BY <4>1
      <4>3. CASE p = n + 1
        BY <4>1, <4>2, <4>3, <2>2
      <4>4. CASE p # n + 1
        BY <4>1, <4>2, <4>4, <2>1, <2>2
      <4> QED BY <4>3, <4>4
    <3> HIDE DEF new
    <3> QED BY <3>1, <3>2
  <2> HIDE DEF Upto, new
  <2> QED BY <2>3, <2>2, <1>2
<1>3. P = 0 .. N
  <2> HIDE DEF P, N
  <2>1. P \in SUBSET (0 .. N)
    BY DEF P
  <2>2. N \in Nat
    BY DEF N
  <2> QED BY <1>1, <1>2, <2>1, <2>2, InductionUpTo
<1>4. PICK g : Upto(g, N)
  BY <1>3
<1> HIDE DEF first, After
<1> DEFINE Next(b, p) == TheOnly({After(before, p) : before \in {b}})
           Right(h) == h = [p \in 0 .. N |-> IF p = 0 THEN first ELSE Next(h[p - 1], p)]
<1>5. \A b, p : Next(b, p) = After(b, p)
  <2> TAKE b, p
  <2>1. {After(before, p) : before \in {b}} = {After(b, p)}
    OBVIOUS
  <2> QED BY <2>1 DEF TheOnly
<1> HIDE DEF Next
<1>6. \E h : Right(h)
  <2> DEFINE h == [p \in 0 .. N |-> g[p]]
  <2>1. \A p \in 0 .. N : h[p] = IF p = 0 THEN first ELSE Next(h[p - 1], p)
    <3> TAKE p \in 0 .. N
    <3>1. CASE p = 0
      BY <3>1, <1>4
    <3>2. CASE p # 0
      <4>1. p \in 1 .. N /\ p - 1 \in 0 .. N
        BY <3>2
      <4>2. g[p] = After(g[p - 1], p) /\ h[p] = g[p] /\ h[p - 1] = g[p - 1]
        BY <4>1, <1>4
      <4> QED BY <4>2, <3>2, <1>5
    <3> QED BY <3>1, <3>2
  <2>2. Right(h)
    BY <2>1
  <2> HIDE DEF h, Right
  <2> QED BY <2>2
<1> DEFINE scan == CHOOSE h : Right(h)
<1>7. Right(scan)
  <2> HIDE DEF Right
  <2> QED BY <1>6
<1>8. ScanDataFile(found, diskfile, content, readable, sourcefile, workers, renameonly) = scan[readable]
  BY DEF ScanDataFile, first, After, Next
<1> HIDE DEF scan
<1>9. scan[0] = first /\ \A p \in 1 .. N : scan[p] = After(scan[p - 1], p)
  <2>1. \A p \in 0 .. N : scan[p] = IF p = 0 THEN first ELSE Next(scan[p - 1], p)
    BY <1>7
  <2>2. \A p \in 1 .. N : p \in 0 .. N /\ p # 0
    OBVIOUS
  <2>3. N \in Nat
    OBVIOUS
  <2> HIDE DEF N
  <2> QED BY <2>1, <2>2, <2>3, <1>5
<1> QED BY <1>8, <1>9 DEF Scanning, first, After

-----------------------------------------------------------------------------
(* What a scan knows: the types of its fields, and that one that has       *)
(* stopped is no full match.                                               *)
ScanFields == {"nextentry", "sourcefile", "count", "full", "stopped"}
HasTypes(scan) ==
  /\ ScanFields \subseteq DOMAIN scan
  /\ scan.nextentry \in Entry \union {None} /\ scan.sourcefile \in File \union {None}
  /\ scan.count \in Nat /\ scan.full \in BOOLEAN /\ scan.stopped \in BOOLEAN
  /\ scan.stopped => ~scan.full

(* As long as it may be a full match, the pieces seen are the first blocks *)
(* of the source file, and the entry expected next is that of the next.    *)
MatchesSoFar(scan, content, seen) ==
  /\ scan.count = seen
  /\ seen > 0 =>
       /\ scan.sourcefile \in File
       /\ seen \in 1 .. BlockCount[scan.sourcefile]
       /\ \A i \in 1 .. seen : content[i] = BlockData[<<scan.sourcefile, i>>]
       /\ scan.nextentry = NextEntry(<<scan.sourcefile, seen>>)

(* What Advance makes of each field.                                       *)
LEMMA AdvanceFields ==
  ASSUME NEW scan, HasTypes(scan), NEW e \in Entry \union {None}, NEW n, NEW renameonly \in BOOLEAN,
         NEW after, after = Advance(scan, e, n, renameonly)
  PROVE  /\ HasTypes(after) /\ DOMAIN after = DOMAIN scan
         /\ \A k \in DOMAIN scan \ ScanFields : after[k] = scan[k]
         /\ ~renameonly => after.stopped = scan.stopped
         /\ after.full => /\ scan.full /\ e # None
                          /\ IF scan.count = 0 THEN FirstBlock(e) /\ n = 1 ELSE e = scan.nextentry
                          /\ after.count = scan.count + 1 /\ after.nextentry = NextEntry(e)
                          /\ after.sourcefile = IF scan.count = 0 THEN FileOf(e) ELSE scan.sourcefile
<1> DEFINE full == /\ scan.full /\ e # None
                   /\ IF scan.count = 0 THEN FirstBlock(e) /\ n = 1 ELSE e = scan.nextentry
           stop == ~full /\ renameonly
           source == IF e # None /\ scan.count = 0 THEN FileOf(e) ELSE scan.sourcefile
<1>1. source \in File \union {None} /\ full \in BOOLEAN
  BY EntryFacts DEF HasTypes, FileOf
<1>2. e # None => NextEntry(e) \in Entry \union {None}
  BY NextEntryFacts
<1>3. after = CASE stop -> [scan EXCEPT !.full = FALSE, !.stopped = TRUE, !.sourcefile = source]
                [] ~stop /\ e = None -> [scan EXCEPT !.full = FALSE, !.nextentry = None]
                [] ~stop /\ e # None -> [scan EXCEPT !.nextentry = NextEntry(e), !.sourcefile = source,
                                                     !.count = @ + 1, !.full = full]
  BY DEF Advance
<1>4. full => source = IF scan.count = 0 THEN FileOf(e) ELSE scan.sourcefile
  OBVIOUS
<1>5. full => scan.full /\ e # None
              /\ IF scan.count = 0 THEN FirstBlock(e) /\ n = 1 ELSE e = scan.nextentry
  OBVIOUS
<1> HIDE DEF full, source
<1>6. CASE stop
  <2>1. after = [scan EXCEPT !.full = FALSE, !.stopped = TRUE, !.sourcefile = source]
    BY <1>3, <1>6
  <2> QED BY <2>1, <1>1, <1>6 DEF HasTypes, ScanFields
<1>7. CASE ~stop /\ e = None
  <2>1. after = [scan EXCEPT !.full = FALSE, !.nextentry = None]
    BY <1>3, <1>7
  <2> QED BY <2>1, <1>7 DEF HasTypes, ScanFields
<1>8. CASE ~stop /\ e # None
  <2>1. after = [scan EXCEPT !.nextentry = NextEntry(e), !.sourcefile = source,
                             !.count = @ + 1, !.full = full]
    BY <1>3, <1>8
  <2>2. /\ DOMAIN after = DOMAIN scan
        /\ \A k \in DOMAIN scan \ ScanFields : after[k] = scan[k]
        /\ after.nextentry = NextEntry(e) /\ after.sourcefile = source
        /\ after.count = scan.count + 1 /\ after.full = full /\ after.stopped = scan.stopped
    BY <2>1 DEF HasTypes, ScanFields
  <2>3. HasTypes(after)
    BY <2>2, <1>1, <1>2, <1>5, <1>8 DEF HasTypes, ScanFields
  <2> QED BY <2>2, <2>3, <1>4, <1>5
<1> QED BY <1>6, <1>7, <1>8

LEMMA AdvanceGoesOn ==
  ASSUME NEW scan, HasTypes(scan), NEW e \in Entry \union {None}, NEW n,
         NEW renameonly \in BOOLEAN, ~renameonly
  PROVE  Advance(scan, e, n, renameonly).stopped = scan.stopped
<1> DEFINE after == Advance(scan, e, n, renameonly)
<1>1. after = Advance(scan, e, n, renameonly)
  OBVIOUS
<1> HIDE DEF after
<1>2. after.stopped = scan.stopped
  BY <1>1, AdvanceFields
<1> QED BY <1>1, <1>2

(* The heart of it: a piece that was matched to e goes on with the match.  *)
LEMMA AdvanceMatches ==
  ASSUME NEW scan, HasTypes(scan), NEW content \in Seq(Data), NEW n \in 1 .. Len(content),
         NEW e \in Entry \union {None}, NEW renameonly \in BOOLEAN,
         scan.full => MatchesSoFar(scan, content, n - 1),
         e # None => BlockData[e] = content[n],
         NEW after, after = Advance(scan, e, n, renameonly), after.full
  PROVE  /\ MatchesSoFar(after, content, n) /\ e = <<after.sourcefile, n>>
         /\ n > 1 => after.sourcefile = scan.sourcefile
<1> DEFINE source == after.sourcefile
<1>1. /\ scan.full /\ e # None /\ e \in Entry
      /\ IF scan.count = 0 THEN FirstBlock(e) /\ n = 1 ELSE e = scan.nextentry
      /\ after.count = scan.count + 1 /\ after.nextentry = NextEntry(e)
      /\ source = IF scan.count = 0 THEN FileOf(e) ELSE scan.sourcefile
  BY AdvanceFields
<1>2. scan.count = n - 1 /\ n \in Nat /\ scan.count \in Nat
  BY <1>1 DEF MatchesSoFar, HasTypes
<1>3. CASE scan.count = 0
  <2>1. n = 1 /\ e = <<source, 1>> /\ source \in File /\ 1 \in 1 .. BlockCount[source]
    BY <1>1, <1>3, EntryFacts, FilesAssumption DEF FirstBlock, FileOf
  <2> QED BY <2>1, <1>1, <1>3 DEF MatchesSoFar
<1>4. CASE scan.count # 0
  <2>1. source = scan.sourcefile /\ e = scan.nextentry
    BY <1>1, <1>4
  <2>2. /\ source \in File /\ n - 1 \in 1 .. BlockCount[source]
        /\ \A i \in 1 .. n - 1 : content[i] = BlockData[<<source, i>>]
        /\ e = NextEntry(<<source, n - 1>>)
    <3>1. scan.count = n - 1 /\ n - 1 > 0
      BY <1>2, <1>4
    <3>2. /\ scan.sourcefile \in File /\ n - 1 \in 1 .. BlockCount[scan.sourcefile]
          /\ \A i \in 1 .. n - 1 : content[i] = BlockData[<<scan.sourcefile, i>>]
          /\ scan.nextentry = NextEntry(<<scan.sourcefile, n - 1>>)
      <4>1. scan.full
        BY <1>1
      <4> QED BY <3>1, <4>1 DEF MatchesSoFar
    <3> QED BY <2>1, <3>2
  <2>3. e = <<source, n>>
    BY <2>2, <1>1, <1>2, MakeEntry, NextEntryFacts
  <2>4. n \in 1 .. BlockCount[source]
    BY <2>3, <1>1, EntryFacts
  <2>5. after.count = n /\ after.nextentry = NextEntry(<<source, n>>)
    BY <1>1, <1>2, <2>3
  <2>6. \A i \in 1 .. n : content[i] = BlockData[<<source, i>>]
    BY <1>1, <1>2, <2>2, <2>3
  <2>7. MatchesSoFar(after, content, n)
    BY <2>2, <2>4, <2>5, <2>6 DEF MatchesSoFar
  <2> QED BY <2>1, <2>3, <2>7
<1> QED BY <1>3, <1>4

-----------------------------------------------------------------------------
(* The locations after a scan are those from before it, and places in the  *)
(* file that was scanned which hold the data of the block.                 *)
Located(location, before, diskfile, content) ==
  /\ location = [e \in Entry |-> location[e]]
  /\ \A e \in Entry : \/ location[e] = before[e]
                      \/ \E q \in 1 .. Len(content) : /\ location[e] = <<diskfile, q>>
                                                      /\ content[q] = BlockData[e]

(* The first n blocks of a source file were located where they belong.     *)
InOrder(location, diskfile, f, n) == \A i \in 1 .. n : location[<<f, i>>] = <<diskfile, i>>

(* What is known when p pieces have been looked at.                        *)
ScanFacts(scan, before, diskfile, content, aligned, p) ==
  /\ HasTypes(scan) /\ "location" \in DOMAIN scan
  /\ Located(scan.location, before, diskfile, content)
  /\ scan.full =>
       \/ /\ aligned = {} /\ MatchesSoFar(scan, content, p)
          /\ p > 0 => InOrder(scan.location, diskfile, scan.sourcefile, p)
       \/ /\ aligned = 1 .. Len(content) /\ scan.sourcefile \in File
          /\ content = Original(scan.sourcefile)
          /\ InOrder(scan.location, diskfile, scan.sourcefile, Len(content))

LEMMA StartFacts ==
  ASSUME NEW found, found.location = [e \in Entry |-> found.location[e]],
         NEW diskfile, NEW content \in Seq(Data), NEW sourcefile \in File \union {None},
         NEW workers, NEW renameonly \in BOOLEAN,
         NEW aligned, aligned = Aligned(found, sourcefile, content, workers)
  PROVE  /\ ScanFacts(StartOfScan(found, diskfile, content, sourcefile, aligned, renameonly),
                      found.location, diskfile, content, aligned, 0)
         /\ aligned \in SUBSET (1 .. Len(content))
<1> DEFINE start == StartOfScan(found, diskfile, content, sourcefile, aligned, renameonly)
           location == [e \in Entry |-> IF FileOf(e) = sourcefile /\ e[2] \in aligned
                                        THEN <<diskfile, e[2]>> ELSE found.location[e]]
<1>1. /\ aligned \in SUBSET (1 .. Len(content))
      /\ \A i \in aligned : content[i] = BlockData[<<sourcefile, i>>]
      /\ aligned # {} => sourcefile \in File /\ Len(content) = BlockCount[sourcefile]
  BY DEF Aligned
<1>2. IsFiniteSet(aligned) /\ Cardinality(aligned) \in Nat
  <2>1. IsFiniteSet(1 .. Len(content))
    BY FS_Interval
  <2> QED BY <1>1, <2>1, FS_Subset, FS_CardinalityType
<1>3. /\ DOMAIN start = ScanFields \union {"location"} /\ start.location = location
      /\ start.nextentry = None /\ start.sourcefile = sourcefile
      /\ start.count = Cardinality(aligned)
      /\ start.full = (aligned \in {{}, 1 .. Len(content)})
      /\ start.stopped = (renameonly /\ aligned \notin {{}, 1 .. Len(content)})
  BY DEF StartOfScan, ScanFields
<1> HIDE DEF start
<1>4. HasTypes(start) /\ "location" \in DOMAIN start
  <2>1. start.full \in BOOLEAN /\ start.stopped \in BOOLEAN /\ (start.stopped => ~start.full)
    <3> DEFINE whole == aligned \in {{}, 1 .. Len(content)}
    <3>1. start.full = whole /\ start.stopped = (renameonly /\ ~whole)
      BY <1>3
    <3>2. whole \in BOOLEAN
      OBVIOUS
    <3> HIDE DEF whole
    <3> QED BY <3>1, <3>2
  <2>2. start.nextentry \in Entry \union {None} /\ start.sourcefile \in File \union {None}
        /\ start.count \in Nat /\ ScanFields \subseteq DOMAIN start /\ "location" \in DOMAIN start
    BY <1>2, <1>3
  <2> QED BY <2>1, <2>2 DEF HasTypes
<1>5. Located(start.location, found.location, diskfile, content)
  <2>1. \A e \in Entry : e[2] \in aligned /\ FileOf(e) = sourcefile => content[e[2]] = BlockData[e]
    BY <1>1, EntryFacts DEF FileOf
  <2> QED BY <1>1, <1>3, <2>1 DEF Located
<1>6. ASSUME start.full, aligned # {}
      PROVE  /\ aligned = 1 .. Len(content) /\ start.sourcefile \in File
             /\ content = Original(start.sourcefile)
             /\ InOrder(start.location, diskfile, start.sourcefile, Len(content))
  <2>1. /\ aligned = 1 .. Len(content) /\ sourcefile \in File /\ Len(content) = BlockCount[sourcefile]
    BY <1>1, <1>3, <1>6
  <2>2. content = [i \in 1 .. BlockCount[sourcefile] |-> content[i]]
    BY <2>1
  <2>3. content = Original(sourcefile)
    BY <1>1, <2>1, <2>2 DEF Original
  <2>4. \A i \in 1 .. Len(content) : <<sourcefile, i>> \in Entry
    BY <2>1, MakeEntry
  <2>5. InOrder(location, diskfile, sourcefile, Len(content))
    BY <2>1, <2>4 DEF InOrder, FileOf
  <2> QED BY <1>3, <2>1, <2>3, <2>5
<1>7. aligned = {} => MatchesSoFar(start, content, 0)
  BY <1>3, FS_EmptySet DEF MatchesSoFar
<1> QED BY <1>1, <1>4, <1>5, <1>6, <1>7 DEF ScanFacts, start

LEMMA PieceKeepsFacts ==
  ASSUME NEW scan, NEW before, NEW diskfile, NEW content \in Seq(Data), NEW n \in 1 .. Len(content),
         NEW aligned \in SUBSET (1 .. Len(content)), NEW complete, NEW renameonly \in BOOLEAN,
         ScanFacts(scan, before, diskfile, content, aligned, n - 1)
  PROVE  ScanFacts(ScanOn(scan, complete, diskfile, content, aligned, n, renameonly),
                   before, diskfile, content, aligned, n)
<1>1. CASE n \in aligned
  <2> DEFINE after == [scan EXCEPT !.nextentry = None]
  <2>1. /\ DOMAIN after = DOMAIN scan /\ after.nextentry = None
        /\ \A k \in DOMAIN scan : k # "nextentry" => after[k] = scan[k]
    OBVIOUS
  <2> HIDE DEF after
  <2>2. /\ HasTypes(after) /\ after.location = scan.location /\ "location" \in DOMAIN after
        /\ after.full = scan.full /\ after.sourcefile = scan.sourcefile
    BY <2>1 DEF ScanFacts, HasTypes, ScanFields
  <2>3. ScanFacts(after, before, diskfile, content, aligned, n)
    BY <2>2, <1>1 DEF ScanFacts
  <2> QED BY <1>1, <2>3 DEF ScanOn, after
<1>2. CASE n \notin aligned
  <2> DEFINE data == content[n]
             found == [location |-> scan.location, complete |-> complete]
             e == FindMatch(found, scan.nextentry, scan.sourcefile, diskfile, data, n = 1)
             after == Advance(scan, e, n, renameonly)
             result == IF scan.stopped THEN scan
                       ELSE IF e = None \/ after.stopped THEN after
                       ELSE [after EXCEPT !.location[e] = <<diskfile, n>>]
  <2>1. ScanOn(scan, complete, diskfile, content, aligned, n, renameonly) = result
    BY <1>2 DEF ScanOn, ScanPiece
  <2>2. /\ HasTypes(scan) /\ "location" \in DOMAIN scan
        /\ Located(scan.location, before, diskfile, content)
        /\ scan.full => aligned = {} /\ MatchesSoFar(scan, content, n - 1)
                        /\ (n - 1 > 0 => InOrder(scan.location, diskfile, scan.sourcefile, n - 1))
    BY <1>2 DEF ScanFacts
  <2>3. e \in Entry \union {None} /\ (e # None => BlockData[e] = data)
    BY <2>2, FindMatchFindsData DEF HasTypes
  <2> HIDE DEF e
  <2>4. /\ HasTypes(after) /\ DOMAIN after = DOMAIN scan
        /\ \A k \in DOMAIN scan \ ScanFields : after[k] = scan[k]
        /\ after.full => scan.full /\ e # None
        /\ after.stopped => ~after.full
    <3>1. HasTypes(after)
      BY <2>2, <2>3, AdvanceFields
    <3> QED BY <3>1, <2>2, <2>3, AdvanceFields DEF HasTypes
  <2>5. after.location = scan.location
    BY <2>2, <2>4 DEF ScanFields
  <2>6. after.full => /\ aligned = {} /\ MatchesSoFar(after, content, n)
                      /\ e = <<after.sourcefile, n>>
                      /\ n > 1 => after.sourcefile = scan.sourcefile
    BY <2>2, <2>3, <2>4, AdvanceMatches
  <2> HIDE DEF after
  <2>7. CASE scan.stopped
    BY <2>1, <2>2, <2>7 DEF ScanFacts, HasTypes
  <2>8. CASE ~scan.stopped /\ (e = None \/ after.stopped)
    BY <2>1, <2>2, <2>4, <2>5, <2>8 DEF ScanFacts
  <2>9. CASE ~scan.stopped /\ e # None /\ ~after.stopped
    <3> DEFINE location == [scan.location EXCEPT ![e] = <<diskfile, n>>]
               new == [after EXCEPT !.location[e] = <<diskfile, n>>]
    <3>1. /\ DOMAIN new = DOMAIN scan /\ new.location = location
          /\ \A k \in DOMAIN scan : k # "location" => new[k] = after[k]
      BY <2>2, <2>4, <2>5
    <3>2. location[e] = <<diskfile, n>> /\ \A o \in Entry : o # e => location[o] = scan.location[o]
      BY <2>2, <2>3, <2>9 DEF Located
    <3>3. location = [o \in Entry |-> location[o]]
      BY <2>2 DEF Located
    <3> HIDE DEF location, new
    <3>4. HasTypes(new) /\ new.full = after.full /\ new.sourcefile = after.sourcefile
          /\ new.count = after.count /\ new.nextentry = after.nextentry
      BY <3>1, <2>4 DEF HasTypes, ScanFields
    <3>5. Located(location, before, diskfile, content)
      BY <2>2, <2>3, <2>9, <3>2, <3>3 DEF Located
    <3>6. ASSUME new.full
          PROVE  MatchesSoFar(new, content, n) /\ InOrder(location, diskfile, new.sourcefile, n)
      <4>1. MatchesSoFar(new, content, n)
        BY <2>6, <3>4, <3>6 DEF MatchesSoFar
      <4>2. ASSUME NEW i \in 1 .. n PROVE location[<<new.sourcefile, i>>] = <<diskfile, i>>
        <5>1. CASE i = n
          BY <5>1, <2>6, <3>2, <3>4, <3>6
        <5>2. CASE i # n
          <6>1. i \in 1 .. n - 1 /\ n - 1 > 0 /\ n > 1
            BY <5>2
          <6>2. scan.location[<<new.sourcefile, i>>] = <<diskfile, i>>
            BY <6>1, <2>2, <2>4, <2>6, <3>4, <3>6 DEF InOrder
          <6>3. <<new.sourcefile, i>> # e /\ <<new.sourcefile, i>> \in Entry
            BY <5>2, <2>6, <3>4, <3>6, <4>1, MakeEntry, FilesAssumption DEF MatchesSoFar
          <6> QED BY <6>2, <6>3, <3>2
        <5> QED BY <5>1, <5>2
      <4> QED BY <4>1, <4>2 DEF InOrder
    <3>7. ScanFacts(new, before, diskfile, content, aligned, n)
      BY <2>2, <2>4, <2>6, <3>1, <3>4, <3>5, <3>6 DEF ScanFacts
    <3> QED BY <2>1, <2>9, <3>7 DEF new
  <2> QED BY <2>7, <2>8, <2>9
<1> QED BY <1>1, <1>2

LEMMA ScanHasFacts ==
  ASSUME NEW found, found.location = [e \in Entry |-> found.location[e]],
         NEW diskfile, NEW content \in Seq(Data), NEW readable \in 0 .. Len(content),
         NEW sourcefile \in File \union {None}, NEW workers, NEW renameonly \in BOOLEAN
  PROVE  ScanFacts(ScanDataFile(found, diskfile, content, readable, sourcefile, workers, renameonly),
                   found.location, diskfile, content,
                   Aligned(found, sourcefile, content, workers), readable)
<1> DEFINE aligned == Aligned(found, sourcefile, content, workers)
<1>1. PICK h : /\ Scanning(h, found, diskfile, content, sourcefile, aligned, renameonly)
               /\ ScanDataFile(found, diskfile, content, readable, sourcefile, workers, renameonly)
                    = h[readable]
  BY ScanIsDefined
<1> DEFINE Fact(p) == ScanFacts(h[p], found.location, diskfile, content, aligned, p)
           P == {p \in 0 .. Len(content) : Fact(p)}
<1>2. Fact(0) /\ aligned \in SUBSET (1 .. Len(content))
  <2> DEFINE start == StartOfScan(found, diskfile, content, sourcefile, aligned, renameonly)
  <2>1. /\ ScanFacts(start, found.location, diskfile, content, aligned, 0)
        /\ aligned \in SUBSET (1 .. Len(content))
    BY StartFacts
  <2>2. h[0] = start
    BY <1>1 DEF Scanning
  <2> QED BY <2>1, <2>2
<1>3. ASSUME NEW p \in 0 .. Len(content), Fact(p), p < Len(content)
      PROVE  Fact(p + 1)
  <2>1. p + 1 \in 1 .. Len(content) /\ (p + 1) - 1 = p
    BY <1>3
  <2> DEFINE n == p + 1
  <2>2. h[n] = ScanOn(h[n - 1], found.complete, diskfile, content, aligned, n, renameonly)
    BY <1>1, <2>1 DEF Scanning
  <2>3. ScanFacts(h[n - 1], found.location, diskfile, content, aligned, n - 1)
    BY <1>3, <2>1
  <2>4. n \in 1 .. Len(content)
    BY <2>1
  <2> HIDE DEF n, aligned
  <2>5. ScanFacts(h[n], found.location, diskfile, content, aligned, n)
    BY <1>2, <2>2, <2>3, <2>4, PieceKeepsFacts
  <2> QED BY <2>5 DEF n
<1> HIDE DEF Fact
<1>4. P = 0 .. Len(content)
  <2> DEFINE N == Len(content)
  <2>1. N \in Nat /\ 0 \in 0 .. N
    OBVIOUS
  <2>2. 0 \in P
    BY <1>2, <2>1
  <2>3. \A p \in P : p < N => p + 1 \in P
    <3> SUFFICES ASSUME NEW p \in P, p < N PROVE p + 1 \in P
      OBVIOUS
    <3>1. Fact(p + 1)
      BY <1>3
    <3> QED BY <3>1, <2>1
  <2> HIDE DEF N
  <2> QED BY <2>1, <2>2, <2>3, InductionUpTo DEF N
<1>5. Fact(readable)
  BY <1>4
<1> QED BY <1>1, <1>5 DEF Fact

(* A file that is a source file becomes the complete version of it.        *)
Completed(after, found, diskfile, content) ==
  \/ after.complete = found.complete
  \/ \E f \in File : /\ after.complete = [found.complete EXCEPT ![f] = diskfile]
                     /\ content = Original(f)
                     /\ InOrder(after.location, diskfile, f, BlockCount[f])

(* What a scan finds is there: the places it gives blocks hold their data, *)
(* and a file it makes complete is that source file, with its blocks in    *)
(* their places.                                                           *)
LEMMA VerifyDataFileFinds ==
  ASSUME NEW found, found.location = [e \in Entry |-> found.location[e]],
         NEW diskfile, NEW content \in Seq(Data), NEW readable \in 0 .. Len(content),
         NEW sourcefile \in File \union {None}, NEW workers, NEW renameonly \in BOOLEAN,
         NEW after,
         after = VerifyDataFile(found, diskfile, content, readable, sourcefile, workers, renameonly)
  PROVE  /\ Located(after.location, found.location, diskfile, content)
         /\ Completed(after, found, diskfile, content)
<1> DEFINE scan == ScanDataFile(found, diskfile, content, readable, sourcefile, workers, renameonly)
           aligned == Aligned(found, sourcefile, content, workers)
           Result(s) == [location |-> s.location,
                         complete |-> IF readable = Len(content) /\ IsFullMatch(s, content)
                                      THEN [found.complete EXCEPT ![s.sourcefile] = diskfile]
                                      ELSE found.complete]
<1>1. after = Result(scan)
  <2>1. after = TheOnly({Result(s) : s \in {scan}})
    BY DEF VerifyDataFile
  <2> HIDE DEF scan
  <2>2. {Result(s) : s \in {scan}} = {Result(scan)}
    OBVIOUS
  <2> HIDE DEF Result
  <2> QED BY <2>1, <2>2 DEF TheOnly
<1>2. ScanFacts(scan, found.location, diskfile, content, aligned, readable)
  BY ScanHasFacts
<1> HIDE DEF scan, aligned
<1>3. ASSUME readable = Len(content), IsFullMatch(scan, content)
      PROVE  LET f == scan.sourcefile
             IN  /\ f \in File /\ content = Original(f)
                 /\ InOrder(scan.location, diskfile, f, BlockCount[f])
  <2> DEFINE f == scan.sourcefile
  <2>1. /\ scan.full /\ scan.count > 0 /\ scan.count \in Nat
        /\ Len(content) = BlockCount[f] /\ scan.count = BlockCount[f]
    BY <1>2, <1>3 DEF IsFullMatch, ScanFacts, HasTypes
  <2>2. CASE aligned = {} /\ MatchesSoFar(scan, content, readable)
             /\ (readable > 0 => InOrder(scan.location, diskfile, f, readable))
    <3>1. /\ f \in File
          /\ \A i \in 1 .. BlockCount[f] : content[i] = BlockData[<<f, i>>]
      BY <2>1, <2>2, <1>3 DEF MatchesSoFar
    <3>2. content = [i \in 1 .. BlockCount[f] |-> content[i]]
      BY <2>1
    <3> QED BY <2>1, <2>2, <3>1, <3>2, <1>3 DEF Original
  <2>3. CASE f \in File /\ content = Original(f) /\ InOrder(scan.location, diskfile, f, Len(content))
    BY <2>1, <2>3
  <2> QED BY <1>2, <2>1, <2>2, <2>3 DEF ScanFacts
<1>4. after.location = scan.location
  BY <1>1
<1>5. CASE readable = Len(content) /\ IsFullMatch(scan, content)
  <2>1. after.complete = [found.complete EXCEPT ![scan.sourcefile] = diskfile]
    BY <1>1, <1>5
  <2> QED BY <2>1, <1>2, <1>3, <1>4, <1>5 DEF ScanFacts, Completed
<1>6. CASE ~ (readable = Len(content) /\ IsFullMatch(scan, content))
  <2>1. after.complete = found.complete
    BY <1>1, <1>6
  <2> QED BY <2>1, <1>2, <1>4 DEF ScanFacts, Completed
<1> QED BY <1>5, <1>6

(* A scan makes at most one source file complete, and that by the file     *)
(* that is scanned.                                                        *)
LEMMA VerifyDataFileCompletes ==
  ASSUME NEW found, NEW diskfile, NEW content, NEW readable, NEW sourcefile, NEW workers,
         NEW renameonly
  PROVE  \E f :
           VerifyDataFile(found, diskfile, content, readable, sourcefile, workers, renameonly).complete
             \in {found.complete, [found.complete EXCEPT ![f] = diskfile]}
<1> DEFINE scan == ScanDataFile(found, diskfile, content, readable, sourcefile, workers, renameonly)
           Result(s) == [location |-> s.location,
                         complete |-> IF readable = Len(content) /\ IsFullMatch(s, content)
                                      THEN [found.complete EXCEPT ![s.sourcefile] = diskfile]
                                      ELSE found.complete]
<1>1. VerifyDataFile(found, diskfile, content, readable, sourcefile, workers, renameonly)
        = TheOnly({Result(s) : s \in {scan}})
  BY DEF VerifyDataFile
<1> HIDE DEF scan
<1>2. {Result(s) : s \in {scan}} = {Result(scan)}
  OBVIOUS
<1> HIDE DEF Result
<1>3. TheOnly({Result(scan)}) = Result(scan)
  BY DEF TheOnly
<1>4. Result(scan).complete \in {found.complete, [found.complete EXCEPT ![scan.sourcefile] = diskfile]}
  BY DEF Result
<1> QED BY <1>1, <1>2, <1>3, <1>4


-----------------------------------------------------------------------------
(* What a scan finds for sure.                                             *)

(* No other block has the data of e.                                       *)
HasNoTwin(e) == \A o \in Entry : BlockData[o] = BlockData[e] => o = e

(* A block that was not found, or in another file and it can be no other.  *)
CanMatch(location, e, diskfile) ==
  location[e] = None \/ (HasNoTwin(e) /\ location[e][1] # diskfile)

LEMMA ChainOfBlock ==
  ASSUME NEW e \in Entry
  PROVE  /\ BlockData[e] \in Data /\ e \in Same[BlockData[e]] /\ Same[BlockData[e]] \subseteq Entry
         /\ \A o \in Same[BlockData[e]] : BlockData[o] = BlockData[e]
         /\ HasNoTwin(e) => /\ Same[BlockData[e]] = {e} /\ First({e}) = e
                            /\ Cardinality(Same[BlockData[e]]) = 1
<1>1. /\ BlockData[e] \in Data /\ e \in Same[BlockData[e]] /\ Same[BlockData[e]] \subseteq Entry
      /\ \A o \in Same[BlockData[e]] : BlockData[o] = BlockData[e]
  BY DEF Data, Same
<1>2. ASSUME HasNoTwin(e) PROVE Same[BlockData[e]] = {e}
  BY <1>1, <1>2 DEF HasNoTwin
<1>3. First({e}) = e
  BY FirstIsOfChain
<1> QED BY <1>1, <1>2, <1>3, FS_Singleton

InPlace(found, suggested, f, n, diskfile) ==
  /\ found.complete[f] = None /\ CanMatch(found.location, <<f, n>>, diskfile)
  /\ suggested = IF n = 1 THEN None ELSE <<f, n>>
MatchAt(found, suggested, f, n, diskfile) ==
  FindMatch(found, suggested, f, diskfile, BlockData[<<f, n>>], n = 1)

(* A piece that is where the source file has it is matched to that block,  *)
(* when those before it were.                                              *)
LEMMA MatchInPlace ==
  ASSUME NEW found, NEW f \in File, NEW n \in 1 .. BlockCount[f], NEW diskfile, NEW suggested,
         InPlace(found, suggested, f, n, diskfile)
  PROVE  MatchAt(found, suggested, f, n, diskfile) = <<f, n>>
<1> DEFINE e == <<f, n>>
           data == BlockData[e]
           chain == Same[data]
           unused == {o \in chain : ~IsSet(found, o)}
           own == {o \in unused : FileOf(o) = f}
<1>1. e \in Entry /\ FileOf(e) = f /\ e[2] = n
  BY MakeEntry DEF FileOf
<1>2. e # None
  BY <1>1, EntryFacts
<1>3. /\ chain \subseteq Entry /\ e \in chain
      /\ HasNoTwin(e) => chain = {e} /\ Cardinality(chain) = 1 /\ First({e}) = e
  BY <1>1, ChainOfBlock
<1>4. Suggested(found, suggested, data) <=>
        n # 1 /\ (NextEntry(e) = None \/ ~IsSet(found, e))
  BY <1>2 DEF Suggested, InPlace
<1>5. FindMatch(found, suggested, f, diskfile, data, n = 1)
        = IF Suggested(found, suggested, data) THEN suggested
          ELSE IF chain = {} THEN None
          ELSE IF Cardinality(chain) = 1
          THEN OnlyEntry(found, First(chain), suggested, diskfile, n = 1)
          ELSE FirstUnused(found, chain, f)
  BY DEF FindMatch, chain
<1>6. ASSUME ~Suggested(found, suggested, data), Cardinality(chain) = 1
      PROVE  OnlyEntry(found, First(chain), suggested, diskfile, n = 1) = e
  <2>1. chain = {e}
    <3>1. IsFiniteSet(chain)
      BY <1>3, EntriesAreFinite, FS_Subset
    <3> HIDE DEF chain
    <3> QED BY <3>1, <1>3, <1>6, FS_Singleton
  <2>2. First(chain) = e
    BY <2>1, <1>1, FirstIsOfChain
  <2>3. (FirstBlock(e) /\ n = 1) \/ ~IsSet(found, e) \/ (e = suggested /\ found.location[e][1] # diskfile)
    BY <1>1, <1>4, <1>6 DEF CanMatch, InPlace, FirstBlock, IsSet
  <2> QED BY <2>2, <2>3, <1>1 DEF OnlyEntry, InPlace
<1>7. ASSUME ~Suggested(found, suggested, data), Cardinality(chain) # 1
      PROVE  FirstUnused(found, chain, f) = e
  <2>1. ~IsSet(found, e)
    BY <1>3, <1>7 DEF CanMatch, InPlace, IsSet
  <2>5. n = 1
    BY <1>4, <1>7, <2>1
  <2>2. e \in own /\ own \subseteq Entry
    BY <1>1, <1>3, <2>1
  <2>3. FirstUnused(found, chain, f) = First(own)
    BY <2>2 DEF FirstUnused
  <2>4. First(own) = e
    <3>1. PICK first \in own : first = First(own) /\ \A o \in own : <<first, o>> \in Before
      BY <2>2, FirstIsOfChain
    <3>2. <<first, e>> \in Before /\ FileOf(first) = f /\ first \in Entry
      BY <2>2, <3>1
    <3>3. first[2] \in 1 .. BlockCount[f] /\ first = <<f, first[2]>>
      BY <3>2, EntryFacts DEF FileOf
    <3>4. BlockCount[f] \in Nat /\ Number[f] \in Nat
      BY FilesAssumption, NumberIsNatural
    <3>5. first[2] <= e[2]
      BY <3>2, <3>4, <1>1 DEF Before, FileOf
    <3>6. first[2] = 1
      BY <3>3, <3>4, <3>5, <2>5, <1>1
    <3> QED BY <3>1, <3>3, <3>6, <2>5, <1>1
  <2> QED BY <2>3, <2>4
<1>8. Suggested(found, suggested, data) => suggested = e
  BY <1>4 DEF InPlace
<1> DEFINE match == FindMatch(found, suggested, f, diskfile, data, n = 1)
<1>9. match = IF Suggested(found, suggested, data) THEN suggested
              ELSE IF chain = {} THEN None
              ELSE IF Cardinality(chain) = 1
              THEN OnlyEntry(found, First(chain), suggested, diskfile, n = 1)
              ELSE FirstUnused(found, chain, f)
  BY <1>5
<1> HIDE DEF chain, e, data, match
<1>10. match = e
  BY <1>3, <1>6, <1>7, <1>8, <1>9
<1> QED BY <1>10 DEF match, e, data, MatchAt

(* What is known of the scan of a file that is the source file f, when p   *)
(* pieces have been looked at: all were matched, and the blocks that are   *)
(* yet to come have not been touched.                                      *)
PerfectSoFar(scan, before, f, aligned, p) ==
  /\ HasTypes(scan) /\ "location" \in DOMAIN scan
  /\ scan.location = [e \in Entry |-> scan.location[e]]
  /\ scan.full /\ ~scan.stopped /\ scan.sourcefile = f
  /\ aligned # {} => scan.count = BlockCount[f]
  /\ aligned = {} =>
       /\ scan.count = p
       /\ scan.nextentry = IF p = 0 THEN None ELSE NextEntry(<<f, p>>)
       /\ \A i \in p + 1 .. BlockCount[f] : scan.location[<<f, i>>] = before[<<f, i>>]

LEMMA PerfectPiece ==
  ASSUME NEW f \in File, NEW n \in 1 .. BlockCount[f], NEW scan, NEW before, NEW diskfile,
         NEW aligned \in {{}, 1 .. BlockCount[f]}, NEW complete, complete[f] = None,
         CanMatch(before, <<f, n>>, diskfile), NEW renameonly \in BOOLEAN,
         PerfectSoFar(scan, before, f, aligned, n - 1)
  PROVE  PerfectSoFar(ScanOn(scan, complete, diskfile, Original(f), aligned, n, renameonly),
                      before, f, aligned, n)
<1>1. CASE aligned # {}
  <2> DEFINE after == [scan EXCEPT !.nextentry = None]
  <2>1. n \in aligned
    BY <1>1
  <2>2. /\ DOMAIN after = DOMAIN scan /\ after.nextentry = None
        /\ \A k \in DOMAIN scan : k # "nextentry" => after[k] = scan[k]
    OBVIOUS
  <2>3. ScanOn(scan, complete, diskfile, Original(f), aligned, n, renameonly) = after
    BY <2>1 DEF ScanOn
  <2> HIDE DEF after
  <2>4. PerfectSoFar(after, before, f, aligned, n)
    BY <2>2, <1>1 DEF PerfectSoFar, HasTypes, ScanFields
  <2> QED BY <2>3, <2>4
<1>2. CASE aligned = {}
  <2> DEFINE e == <<f, n>>
             found == [location |-> scan.location, complete |-> complete]
             match == FindMatch(found, scan.nextentry, scan.sourcefile, diskfile,
                                Original(f)[n], n = 1)
             after == Advance(scan, match, n, renameonly)
             result == [after EXCEPT !.location[match] = <<diskfile, n>>]
  <2>1. /\ HasTypes(scan) /\ "location" \in DOMAIN scan
        /\ scan.location = [o \in Entry |-> scan.location[o]]
        /\ scan.full /\ ~scan.stopped /\ scan.sourcefile = f /\ scan.count = n - 1
        /\ scan.nextentry = IF n - 1 = 0 THEN None ELSE NextEntry(<<f, n - 1>>)
        /\ \A i \in (n - 1) + 1 .. BlockCount[f] : scan.location[<<f, i>>] = before[<<f, i>>]
    BY <1>2 DEF PerfectSoFar
  <2>2. n \in Nat /\ n >= 1 /\ BlockCount[f] \in Nat /\ e \in Entry /\ e # None /\ FileOf(e) = f
    BY FilesAssumption, MakeEntry, EntryFacts DEF FileOf
  <2>3. scan.nextentry = IF n = 1 THEN None ELSE e
    <3>1. CASE n = 1
      BY <2>1, <3>1
    <3>2. CASE n # 1
      <4>1. n - 1 # 0 /\ n - 1 < BlockCount[f] /\ (n - 1) + 1 = n
        BY <2>2, <3>2
      <4>2. NextEntry(<<f, n - 1>>) = e
        BY <4>1 DEF NextEntry, FileOf
      <4> QED BY <2>1, <3>2, <4>1, <4>2
    <3> QED BY <3>1, <3>2
  <2>4. match = e
    <3> DEFINE suggested == scan.nextentry
    <3>4. scan.location[<<f, n>>] = before[<<f, n>>] /\ found.location = scan.location
      BY <2>1, <2>2
    <3>1. found.complete[f] = None /\ CanMatch(found.location, <<f, n>>, diskfile)
      BY <3>4 DEF CanMatch
    <3>2. Original(f)[n] = BlockData[e]
      BY DEF Original
    <3>5. InPlace(found, suggested, f, n, diskfile)
      BY <2>3, <3>1 DEF InPlace
    <3> HIDE DEF found, suggested
    <3>3. MatchAt(found, suggested, f, n, diskfile) = <<f, n>>
      BY <3>5, MatchInPlace
    <3> QED BY <2>1, <3>2, <3>3 DEF suggested, MatchAt
  <2>5. after = [scan EXCEPT !.nextentry = NextEntry(e), !.sourcefile = f,
                             !.count = @ + 1, !.full = TRUE]
    <3>1. IF scan.count = 0 THEN FirstBlock(e) /\ n = 1 ELSE e = scan.nextentry
      BY <2>1, <2>2, <2>3 DEF FirstBlock
    <3> DEFINE full == /\ scan.full /\ e # None
                       /\ IF scan.count = 0 THEN FirstBlock(e) /\ n = 1 ELSE e = scan.nextentry
               source == IF e # None /\ scan.count = 0 THEN FileOf(e) ELSE scan.sourcefile
               stop == ~full /\ renameonly
    <3>2. full = TRUE /\ source = f /\ ~stop
      BY <2>1, <2>2, <3>1
    <3>3. after = CASE stop -> [scan EXCEPT !.full = FALSE, !.stopped = TRUE, !.sourcefile = source]
                    [] ~stop /\ e = None -> [scan EXCEPT !.full = FALSE, !.nextentry = None]
                    [] ~stop /\ e # None -> [scan EXCEPT !.nextentry = NextEntry(e), !.sourcefile = source,
                                                         !.count = @ + 1, !.full = full]
      BY <2>4 DEF Advance
    <3> HIDE DEF full, source, e, after
    <3> QED BY <2>2, <3>2, <3>3
  <2>6. /\ DOMAIN after = DOMAIN scan /\ after.location = scan.location
        /\ after.full /\ after.stopped = scan.stopped /\ after.sourcefile = f
        /\ after.count = n /\ after.nextentry = NextEntry(e)
    <3> HIDE DEF after, e
    <3>1. (n - 1) + 1 = n
      BY <2>2
    <3>2. scan.count + 1 = n
      BY <2>1, <3>1
    <3> QED BY <2>1, <2>5, <3>2 DEF HasTypes, ScanFields
  <2>7. ScanOn(scan, complete, diskfile, Original(f), aligned, n, renameonly) = result
    <3>1. n \notin aligned /\ match # None /\ ~after.stopped
      BY <1>2, <2>1, <2>2, <2>4, <2>6
    <3> QED BY <2>1, <3>1 DEF ScanOn, ScanPiece
  <2> HIDE DEF after
  <2> DEFINE location == [scan.location EXCEPT ![e] = <<diskfile, n>>]
  <2>8. /\ DOMAIN result = DOMAIN scan /\ result.location = location
        /\ \A k \in DOMAIN scan : k # "location" => result[k] = after[k]
    BY <2>1, <2>4, <2>6
  <2>9. /\ location = [o \in Entry |-> location[o]]
        /\ \A i \in n + 1 .. BlockCount[f] : location[<<f, i>>] = before[<<f, i>>]
    <3>1. location = [o \in Entry |-> location[o]]
      BY <2>1
    <3>2. ASSUME NEW i \in n + 1 .. BlockCount[f] PROVE location[<<f, i>>] = before[<<f, i>>]
      <4>1. i \in 1 .. BlockCount[f] /\ i # n /\ i \in (n - 1) + 1 .. BlockCount[f]
        BY <2>2
      <4>2. <<f, i>> \in Entry /\ <<f, i>> # e
        BY <4>1, MakeEntry
      <4> QED BY <2>1, <4>1, <4>2
    <3> QED BY <3>1, <3>2
  <2> HIDE DEF result, location
  <2>10. NextEntry(e) \in Entry \union {None}
    BY <2>2, NextEntryFacts
  <2>11. HasTypes(result)
    BY <2>1, <2>2, <2>6, <2>8, <2>10 DEF HasTypes, ScanFields
  <2>12. /\ result.full /\ ~result.stopped /\ result.sourcefile = f
         /\ result.count = n /\ result.nextentry = NextEntry(e) /\ "location" \in DOMAIN result
    BY <2>1, <2>6, <2>8 DEF HasTypes, ScanFields
  <2>13. PerfectSoFar(result, before, f, aligned, n)
    <3> USE DEF PerfectSoFar
    <3>1. n # 0
      BY <2>2
    <3> QED BY <1>2, <2>8, <2>9, <2>11, <2>12, <3>1
  <2> QED BY <2>7, <2>13
<1> QED BY <1>1, <1>2

(* The result of a scan, without the devices for its evaluation.           *)
Outcome(found, diskfile, content, readable, scan) ==
  [location |-> scan.location,
   complete |-> IF readable = Len(content) /\ IsFullMatch(scan, content)
                THEN [found.complete EXCEPT ![scan.sourcefile] = diskfile]
                ELSE found.complete]

LEMMA VerifyDataFileIs ==
  ASSUME NEW found, NEW diskfile, NEW content, NEW readable, NEW sourcefile, NEW workers,
         NEW renameonly, NEW scan,
         scan = ScanDataFile(found, diskfile, content, readable, sourcefile, workers, renameonly)
  PROVE  VerifyDataFile(found, diskfile, content, readable, sourcefile, workers, renameonly)
           = Outcome(found, diskfile, content, readable, scan)
<1>1. VerifyDataFile(found, diskfile, content, readable, sourcefile, workers, renameonly)
        = TheOnly({Outcome(found, diskfile, content, readable, s) : s \in {scan}})
  BY DEF VerifyDataFile, Outcome
<1>2. {Outcome(found, diskfile, content, readable, s) : s \in {scan}}
        = {Outcome(found, diskfile, content, readable, scan)}
  OBVIOUS
<1> QED BY <1>1, <1>2 DEF TheOnly

(* A file that is the source file it is scanned for becomes the complete   *)
(* version of that, unless there is one.                                   *)
LEMMA PerfectFileIsComplete ==
  ASSUME NEW found, found.location = [e \in Entry |-> found.location[e]], NEW diskfile,
         NEW f \in File, NEW workers, NEW renameonly \in BOOLEAN, found.complete[f] = None,
         \A i \in 1 .. BlockCount[f] : CanMatch(found.location, <<f, i>>, diskfile),
         NEW content, content = Original(f),
         NEW after,
         after = VerifyDataFile(found, diskfile, content, Len(content), f, workers, renameonly)
  PROVE  after.complete = [found.complete EXCEPT ![f] = diskfile]
<1> DEFINE aligned == Aligned(found, f, content, workers)
           before == found.location
<1>1. /\ Len(content) = BlockCount[f] /\ BlockCount[f] \in Nat /\ BlockCount[f] > 0
      /\ content \in Seq(Data)
  BY FilesAssumption, OriginalIsData DEF Original
<1>2. aligned \in {{}, 1 .. BlockCount[f]}
  <2>1. {i \in 1 .. BlockCount[f] : content[i] = BlockData[<<f, i>>]} = 1 .. BlockCount[f]
    BY DEF Original
  <2>2. aligned \in {{}, {i \in 1 .. BlockCount[f] : content[i] = BlockData[<<f, i>>]}}
    BY <1>1 DEF Aligned
  <2> HIDE DEF aligned
  <2> QED BY <2>1, <2>2
<1>3. PICK h : /\ Scanning(h, found, diskfile, content, f, aligned, renameonly)
               /\ ScanDataFile(found, diskfile, content, Len(content), f, workers, renameonly)
                    = h[Len(content)]
  <2>1. Len(content) \in 0 .. Len(content) /\ Len(content) \in Nat
    BY <1>1
  <2> QED BY <2>1, ScanIsDefined
<1> DEFINE N == BlockCount[f]
           Fact(p) == PerfectSoFar(h[p], before, f, aligned, p)
           P == {p \in 0 .. N : Fact(p)}
<1>4. Fact(0)
  <2> DEFINE start == StartOfScan(found, diskfile, content, f, aligned, renameonly)
  <2>1. h[0] = start
    BY <1>3 DEF Scanning
  <2>2. ScanFacts(start, before, diskfile, content, aligned, 0)
    <3>1. f \in File \union {None}
      OBVIOUS
    <3> QED BY <1>1, <3>1, StartFacts
  <2>3. /\ start.full = (aligned \in {{}, 1 .. Len(content)})
        /\ start.stopped = (renameonly /\ aligned \notin {{}, 1 .. Len(content)})
        /\ start.sourcefile = f /\ start.nextentry = None /\ start.count = Cardinality(aligned)
        /\ start.location = [e \in Entry |-> IF FileOf(e) = f /\ e[2] \in aligned
                                             THEN <<diskfile, e[2]>> ELSE before[e]]
    BY DEF StartOfScan
  <2> HIDE DEF start
  <2>4. aligned \in {{}, 1 .. Len(content)}
    BY <1>1, <1>2
  <2>5. start.full /\ ~start.stopped
    <3> DEFINE whole == aligned \in {{}, 1 .. Len(content)}
    <3>1. whole /\ start.full = whole /\ start.stopped = (renameonly /\ ~whole)
      BY <2>3, <2>4
    <3> HIDE DEF whole
    <3> QED BY <3>1
  <2>6. aligned # {} => start.count = N
    BY <1>1, <1>2, <2>3, FS_Interval
  <2>7. aligned = {} => start.count = 0 /\ \A i \in 0 + 1 .. N : start.location[<<f, i>>] = before[<<f, i>>]
    <3>1. \A i \in 0 + 1 .. N : <<f, i>> \in Entry
      BY MakeEntry
    <3> QED BY <2>3, <3>1, FS_EmptySet
  <2> QED BY <2>1, <2>2, <2>3, <2>5, <2>6, <2>7 DEF PerfectSoFar, ScanFacts, Located
<1>5. ASSUME NEW p \in 0 .. N, Fact(p), p < N PROVE Fact(p + 1)
  <2> DEFINE n == p + 1
  <2>1. n \in 1 .. N /\ n - 1 = p
    BY <1>1, <1>5
  <2>2. h[n] = ScanOn(h[n - 1], found.complete, diskfile, Original(f), aligned, n, renameonly)
    BY <1>1, <1>3, <2>1 DEF Scanning
  <2>3. PerfectSoFar(h[n - 1], before, f, aligned, n - 1)
    BY <1>5, <2>1
  <2>4. CanMatch(before, <<f, n>>, diskfile)
    BY <2>1
  <2> HIDE DEF n, aligned, before
  <2> DEFINE complete == found.complete
  <2>5. n \in 1 .. BlockCount[f] /\ complete[f] = None
    BY <2>1
  <2> HIDE DEF complete
  <2> DEFINE sofar == h[n - 1]
  <2>6. PerfectSoFar(sofar, before, f, aligned, n - 1)
    BY <2>3
  <2> HIDE DEF sofar
  <2>7. PerfectSoFar(ScanOn(sofar, complete, diskfile, Original(f), aligned, n, renameonly),
                     before, f, aligned, n)
    BY <1>2, <2>4, <2>5, <2>6, PerfectPiece
  <2> QED BY <2>2, <2>7 DEF n, complete, sofar
<1> HIDE DEF Fact
<1>6. P = 0 .. N
  <2>1. N \in Nat /\ 0 \in 0 .. N
    BY <1>1
  <2>2. 0 \in P
    BY <1>4, <2>1
  <2>3. \A p \in P : p < N => p + 1 \in P
    <3> SUFFICES ASSUME NEW p \in P, p < N PROVE p + 1 \in P
      OBVIOUS
    <3>1. Fact(p + 1)
      BY <1>5
    <3> QED BY <3>1, <2>1
  <2> HIDE DEF N
  <2> QED BY <2>1, <2>2, <2>3, InductionUpTo DEF P
<1> DEFINE scan == h[N]
<1>7. PerfectSoFar(scan, before, f, aligned, N)
  <2>1. N \in 0 .. N
    BY <1>1
  <2>2. Fact(N)
    BY <1>6, <2>1
  <2> QED BY <2>2 DEF Fact
<1>8. IsFullMatch(scan, content) /\ scan.sourcefile = f
  BY <1>1, <1>7 DEF IsFullMatch, PerfectSoFar
<1>9. scan = ScanDataFile(found, diskfile, content, Len(content), f, workers, renameonly)
  BY <1>1, <1>3
<1> HIDE DEF scan
<1>10. after.complete = IF IsFullMatch(scan, content)
                        THEN [found.complete EXCEPT ![scan.sourcefile] = diskfile]
                        ELSE found.complete
  <2> DEFINE readable == Len(content)
  <2>1. /\ scan = ScanDataFile(found, diskfile, content, readable, f, workers, renameonly)
        /\ after = VerifyDataFile(found, diskfile, content, readable, f, workers, renameonly)
        /\ readable = Len(content)
    BY <1>9
  <2> HIDE DEF readable
  <2>2. after = Outcome(found, diskfile, content, readable, scan)
    BY <2>1, VerifyDataFileIs
  <2> QED BY <2>1, <2>2 DEF Outcome
<1> QED BY <1>8, <1>10

(* What a scan has seen is located: each block whose data was in a piece   *)
(* that was looked at, if the data is that of no other block.              *)
NoTwinBlocks == \A e \in Entry : HasNoTwin(e)

SeenIsFound(location, content, seen) ==
  \A e \in Entry : (\E q \in seen : content[q] = BlockData[e]) => location[e] # None

SeenSoFar(scan, before, content, aligned, p) ==
  /\ HasTypes(scan) /\ "location" \in DOMAIN scan /\ ~scan.stopped
  /\ scan.location = [e \in Entry |-> scan.location[e]]
  /\ \A e \in Entry : before[e] # None => scan.location[e] # None
  /\ SeenIsFound(scan.location, content, aligned \union 1 .. p)

IsNew(found, suggested, e) ==
  /\ e \in Entry /\ suggested \in Entry \union {None}
  /\ found.complete[FileOf(e)] = None /\ found.location[e] = None

MatchOf(found, suggested, sourcefile, diskfile, e, atstart) ==
  FindMatch(found, suggested, sourcefile, diskfile, BlockData[e], atstart)

(* A block that data stands for alone is located when the data is looked   *)
(* at, now or before.                                                      *)
LEMMA MatchOrFound ==
  ASSUME NoTwinBlocks, NEW found, NEW suggested, NEW sourcefile, NEW diskfile, NEW e, NEW atstart,
         IsNew(found, suggested, e)
  PROVE  MatchOf(found, suggested, sourcefile, diskfile, e, atstart) = e
<1> DEFINE data == BlockData[e]
           chain == Same[data]
           match == FindMatch(found, suggested, sourcefile, diskfile, data, atstart)
<1>1. chain = {e} /\ First({e}) = e /\ Cardinality(chain) = 1
  BY ChainOfBlock DEF NoTwinBlocks, IsNew
<1>2. Suggested(found, suggested, data) => suggested = e
  BY DEF Suggested, NoTwinBlocks, HasNoTwin, IsNew
<1>3. OnlyEntry(found, e, suggested, diskfile, atstart) = e
  BY DEF OnlyEntry, IsSet, IsNew
<1>4. match = IF Suggested(found, suggested, data) THEN suggested
              ELSE IF chain = {} THEN None
              ELSE IF Cardinality(chain) = 1
              THEN OnlyEntry(found, First(chain), suggested, diskfile, atstart)
              ELSE FirstUnused(found, chain, sourcefile)
  BY DEF FindMatch, chain
<1>5. First(chain) = e /\ chain # {}
  BY <1>1
<1> HIDE DEF chain, match, data
<1>6. match = e
  BY <1>1, <1>2, <1>3, <1>4, <1>5
<1> QED BY <1>6 DEF match, data, MatchOf

LEMMA PieceIsFound ==
  ASSUME NoTwinBlocks, NEW renameonly \in BOOLEAN, ~renameonly, NEW scan, NEW before, NEW diskfile, \A q \in Nat : <<diskfile, q>> # None,
         NEW content \in Seq(Data), NEW n \in 1 .. Len(content),
         NEW aligned \in SUBSET (1 .. Len(content)), NEW complete,
         \A e \in Entry : complete[FileOf(e)] # None => before[e] # None,
         SeenSoFar(scan, before, content, aligned, n - 1)
  PROVE  SeenSoFar(ScanOn(scan, complete, diskfile, content, aligned, n, renameonly),
                   before, content, aligned, n)
<1> DEFINE data == content[n]
           found == [location |-> scan.location, complete |-> complete]
           match == FindMatch(found, scan.nextentry, scan.sourcefile, diskfile, data, n = 1)
           after == Advance(scan, match, n, renameonly)
           result == [after EXCEPT !.location[match] = <<diskfile, n>>]
<1>1. /\ HasTypes(scan) /\ "location" \in DOMAIN scan /\ ~scan.stopped
      /\ scan.location = [e \in Entry |-> scan.location[e]]
      /\ \A e \in Entry : before[e] # None => scan.location[e] # None
      /\ SeenIsFound(scan.location, content, aligned \union 1 .. n - 1)
  BY DEF SeenSoFar
<1>2. n \in Nat /\ 1 .. n = (1 .. n - 1) \union {n}
  OBVIOUS
<1>3. CASE n \in aligned
  <2> DEFINE next == [scan EXCEPT !.nextentry = None]
  <2>1. /\ DOMAIN next = DOMAIN scan /\ next.nextentry = None
        /\ \A k \in DOMAIN scan : k # "nextentry" => next[k] = scan[k]
    OBVIOUS
  <2>2. ScanOn(scan, complete, diskfile, content, aligned, n, renameonly) = next
    BY <1>3 DEF ScanOn
  <2> HIDE DEF next
  <2>3. HasTypes(next) /\ next.location = scan.location /\ next.stopped = scan.stopped
    BY <1>1, <2>1 DEF HasTypes, ScanFields
  <2>4. aligned \union 1 .. n = aligned \union 1 .. n - 1
    BY <1>2, <1>3
  <2> QED BY <1>1, <2>1, <2>2, <2>3, <2>4 DEF SeenSoFar
<1>4. CASE n \notin aligned
  <2>1. match \in Entry \union {None} /\ (match # None => BlockData[match] = data)
    BY <1>1, FindMatchFindsData DEF HasTypes
  <2>2. ASSUME NEW e \in Entry, BlockData[e] = data, scan.location[e] = None PROVE match = e
    <3> DEFINE suggested == scan.nextentry
               sourcefile == scan.sourcefile
               atstart == n = 1
    <3>1. IsNew(found, suggested, e)
      BY <1>1, <2>2 DEF IsNew, HasTypes
    <3>3. match = MatchOf(found, suggested, sourcefile, diskfile, e, atstart)
      BY <2>2 DEF MatchOf
    <3> HIDE DEF found, suggested, sourcefile, match, atstart
    <3>4. MatchOf(found, suggested, sourcefile, diskfile, e, atstart) = e
      BY <3>1, MatchOrFound
    <3> QED BY <3>3, <3>4
  <2>3. /\ HasTypes(after) /\ DOMAIN after = DOMAIN scan
        /\ after.location = scan.location /\ ~after.stopped
    <3> HIDE DEF match
    <3>1. HasTypes(after)
      BY <1>1, <2>1, AdvanceFields
    <3>2. /\ DOMAIN after = DOMAIN scan
          /\ \A k \in DOMAIN scan \ ScanFields : after[k] = scan[k]
      BY <1>1, <2>1, AdvanceFields
    <3>3. after.stopped = scan.stopped
      BY <1>1, <2>1, AdvanceGoesOn
    <3> QED BY <1>1, <3>1, <3>2, <3>3 DEF ScanFields
  <2>4. ScanOn(scan, complete, diskfile, content, aligned, n, renameonly)
          = IF match = None THEN after ELSE result
    BY <1>1, <1>4, <2>3 DEF ScanOn, ScanPiece
  <2> HIDE DEF match, after
  <2>5. CASE match = None
    <3>1. SeenIsFound(scan.location, content, aligned \union 1 .. n)
      BY <1>1, <1>2, <2>2, <2>5, EntryFacts DEF SeenIsFound
    <3> QED BY <1>1, <2>3, <2>4, <2>5, <3>1 DEF SeenSoFar
  <2>6. CASE match # None
    <3> DEFINE location == [scan.location EXCEPT ![match] = <<diskfile, n>>]
    <3>1. /\ DOMAIN result = DOMAIN scan /\ result.location = location
          /\ \A k \in DOMAIN scan : k # "location" => result[k] = after[k]
      BY <1>1, <2>3
    <3>2. /\ location = [e \in Entry |-> location[e]]
          /\ location[match] # None
          /\ \A e \in Entry : scan.location[e] # None => location[e] # None
      BY <1>1, <1>2, <2>1, <2>6
    <3> HIDE DEF result, location
    <3>3. SeenIsFound(location, content, aligned \union 1 .. n)
      BY <1>1, <1>2, <2>2, <3>2 DEF SeenIsFound
    <3>4. HasTypes(result) /\ result.stopped = after.stopped
      BY <1>1, <2>3, <3>1 DEF HasTypes, ScanFields
    <3> QED BY <1>1, <2>3, <2>4, <2>6, <3>1, <3>2, <3>3, <3>4 DEF SeenSoFar
  <2> QED BY <2>5, <2>6
<1> QED BY <1>3, <1>4

LEMMA ScanMissesNothing ==
  ASSUME NoTwinBlocks, NEW renameonly \in BOOLEAN, ~renameonly,
         NEW found, found.location = [e \in Entry |-> found.location[e]],
         \A e \in Entry : found.complete[FileOf(e)] # None => found.location[e] # None,
         NEW diskfile, \A q \in Nat : <<diskfile, q>> # None, NEW content \in Seq(Data),
         NEW sourcefile \in File \union {None}, NEW workers, NEW after,
         after = VerifyDataFile(found, diskfile, content, Len(content), sourcefile, workers, renameonly)
  PROVE  SeenIsFound(after.location, content, 1 .. Len(content))
<1> DEFINE aligned == Aligned(found, sourcefile, content, workers)
           before == found.location
           N == Len(content)
<1>1. N \in Nat /\ N \in 0 .. N
  OBVIOUS
<1>2. PICK h : /\ Scanning(h, found, diskfile, content, sourcefile, aligned, renameonly)
               /\ ScanDataFile(found, diskfile, content, N, sourcefile, workers, renameonly) = h[N]
  BY <1>1, ScanIsDefined
<1> DEFINE Fact(p) == SeenSoFar(h[p], before, content, aligned, p)
           P == {p \in 0 .. N : Fact(p)}
<1>3. aligned \in SUBSET (1 .. N) /\ \A i \in aligned : content[i] = BlockData[<<sourcefile, i>>]
      /\ (aligned # {} => sourcefile \in File /\ N = BlockCount[sourcefile])
  BY DEF Aligned
<1>4. Fact(0)
  <2> DEFINE start == StartOfScan(found, diskfile, content, sourcefile, aligned, renameonly)
  <2>1. h[0] = start
    BY <1>2 DEF Scanning
  <2>2. ScanFacts(start, before, diskfile, content, aligned, 0)
    BY <1>1, StartFacts
  <2>3. /\ start.stopped = (renameonly /\ aligned \notin {{}, 1 .. Len(content)})
        /\ start.location = [e \in Entry |-> IF FileOf(e) = sourcefile /\ e[2] \in aligned
                                             THEN <<diskfile, e[2]>> ELSE before[e]]
    BY DEF StartOfScan
  <2> HIDE DEF start
  <2>4. ~start.stopped
    BY <2>3
  <2>5. \A e \in Entry : before[e] # None => start.location[e] # None
    <3>1. \A q \in aligned : q \in Nat
      BY <1>3
    <3> QED BY <2>3, <3>1
  <2>6. SeenIsFound(start.location, content, aligned \union 1 .. 0)
    <3> SUFFICES ASSUME NEW e \in Entry, NEW q \in aligned, content[q] = BlockData[e]
                 PROVE  start.location[e] # None
      BY DEF SeenIsFound
    <3>1. <<sourcefile, q>> \in Entry /\ BlockData[<<sourcefile, q>>] = BlockData[e] /\ q \in Nat
      BY <1>3, MakeEntry
    <3>2. e = <<sourcefile, q>>
      BY <3>1 DEF NoTwinBlocks, HasNoTwin
    <3> QED BY <2>3, <3>1, <3>2 DEF FileOf
  <2> QED BY <2>1, <2>2, <2>4, <2>5, <2>6 DEF SeenSoFar, ScanFacts, Located
<1>5. ASSUME NEW p \in 0 .. N, Fact(p), p < N PROVE Fact(p + 1)
  <2> DEFINE n == p + 1
             complete == found.complete
  <2>1. n \in 1 .. N /\ n - 1 = p
    BY <1>1, <1>5
  <2>2. h[n] = ScanOn(h[n - 1], complete, diskfile, content, aligned, n, renameonly)
    BY <1>2, <2>1 DEF Scanning
  <2>3. SeenSoFar(h[n - 1], before, content, aligned, n - 1)
    BY <1>5, <2>1
  <2>4. \A e \in Entry : complete[FileOf(e)] # None => before[e] # None
    OBVIOUS
  <2> HIDE DEF n, aligned, before, complete
  <2>5. SeenSoFar(ScanOn(h[n - 1], complete, diskfile, content, aligned, n, renameonly),
                  before, content, aligned, n)
    BY <1>3, <2>1, <2>3, <2>4, PieceIsFound
  <2> QED BY <2>2, <2>5 DEF n
<1> HIDE DEF Fact
<1>6. P = 0 .. N
  <2>1. N \in Nat /\ 0 \in 0 .. N
    BY <1>1
  <2>2. 0 \in P
    BY <1>4, <2>1
  <2>3. \A p \in P : p < N => p + 1 \in P
    <3> SUFFICES ASSUME NEW p \in P, p < N PROVE p + 1 \in P
      OBVIOUS
    <3>1. Fact(p + 1)
      BY <1>5
    <3> QED BY <3>1, <2>1
  <2> HIDE DEF N
  <2> QED BY <2>1, <2>2, <2>3, InductionUpTo DEF P
<1> DEFINE scan == h[N]
<1>7. SeenIsFound(scan.location, content, 1 .. N)
  <2>1. Fact(N)
    BY <1>1, <1>6
  <2>2. SeenIsFound(scan.location, content, aligned \union 1 .. N)
    BY <2>1 DEF Fact, SeenSoFar
  <2> QED BY <2>2 DEF SeenIsFound
<1>8. scan = ScanDataFile(found, diskfile, content, N, sourcefile, workers, renameonly)
  BY <1>2
<1>9. after = VerifyDataFile(found, diskfile, content, N, sourcefile, workers, renameonly)
  OBVIOUS
<1> HIDE DEF scan, N
<1>10. after = Outcome(found, diskfile, content, N, scan)
  BY <1>8, <1>9, VerifyDataFileIs
<1> QED BY <1>7, <1>10 DEF Outcome, N
=============================================================================
