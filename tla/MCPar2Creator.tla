---------------------------- MODULE MCPar2Creator ----------------------------
(* Sets of one to four files in the field of 16 elements: eight source     *)
(* blocks at most, exponents below 16, blocks in words of two bytes.       *)
EXTENDS Par2Creator

CONSTANTS a, b, c, d

Names == <<a, b, c, d>>
Bytes(f, n) == [p \in 1 .. n |-> (7 * f + 5 * p) % 16]
Source(s) == [f \in {Names[i] : i \in DOMAIN s} |->
               LET i == CHOOSE i \in DOMAIN s : Names[i] = f IN Bytes(i, s[i])]

Ask(s) ==
  [files |-> Source(s), blockcount |-> None, blocksize |-> None,
   redundancy |-> 0, redundancysize |-> 0, recoveryblockcount |-> None,
   firstblock |-> 0, scheme |-> "Variable", recoveryfilecount |-> 0,
   memorylimit |-> 1000, shared |-> FALSE]

(* Every block count for some sizes.                                       *)
BlockCountAsks ==
  {[Ask(s) EXCEPT !.blockcount = n, !.recoveryblockcount = 0] :
     s \in {<<1>>, <<9>>, <<14>>, <<5, 6>>, <<1, 15>>, <<8, 8>>, <<3, 4, 9>>, <<1, 7, 12>>, <<2, 2, 2, 11>>,
            <<25>>, <<13, 20>>},
     n \in 1 .. 9}

(* Every number of recovery blocks and volumes for two source blocks.      *)
VolumeAsks ==
  {[Ask(s) EXCEPT !.blocksize = 2, !.recoveryblockcount = n, !.scheme = "Limited"] :
     s \in {<<2>>, <<3, 1>>}, n \in 1 .. 7}
  \union {[Ask(<<3>>) EXCEPT !.blocksize = 4, !.recoveryblockcount = n, !.recoveryfilecount = k,
                             !.scheme = "Uniform"] : n \in 1 .. 6, k \in 0 .. 6}
  \union {[Ask(<<3>>) EXCEPT !.blocksize = 4, !.recoveryblockcount = n] : n \in 1 .. 7}
  \union {[Ask(<<3>>) EXCEPT !.blocksize = 2, !.recoveryblockcount = n, !.firstblock = e] :
            n \in 1 .. 3, e \in {1, 12, 13, 14}}

(* What is asked for by size or by redundancy, or not at all.              *)
RedundancyAsks ==
  {[Ask(s) EXCEPT !.redundancy = r] : s \in {<<9>>, <<1, 7>>}, r \in {5, 40, 120}}
  \union {[Ask(<<1, 1, 1, 20>>) EXCEPT !.redundancy = r] : r \in {5, 30}}
  \union {[Ask(s) EXCEPT !.redundancysize = r, !.scheme = m, !.blocksize = 4] :
            s \in {<<3>>, <<5>>}, r \in {0, 20, 200, 500}, m \in {"Variable", "Limited"}}

(* Data that is read in one pass or in two, by several files.              *)
DataAsks ==
  {[Ask(s) EXCEPT !.blocksize = 4, !.recoveryblockcount = n, !.memorylimit = m, !.firstblock = e] :
     s \in {<<7>>, <<3, 6>>, <<2, 1, 4>>}, n \in {2, 3}, m \in {7, 1000}, e \in {0, 2}}
  \union {[Ask(s) EXCEPT !.blocksize = 6, !.recoveryblockcount = 2, !.memorylimit = m] :
     s \in {<<7, 11>>}, m \in {8, 1000}}

SharedAsks ==
  {[Ask(<<3, 2>>) EXCEPT !.blocksize = 2, !.recoveryblockcount = 2, !.memorylimit = m, !.shared = TRUE] :
     m \in {1000}}
  \union {[Ask(<<5>>) EXCEPT !.blocksize = 4, !.recoveryblockcount = 1, !.memorylimit = m, !.shared = TRUE] :
     m \in {2, 1000}}

MCAsks == BlockCountAsks \union VolumeAsks \union RedundancyAsks \union DataAsks \union SharedAsks

(* Three source blocks, and recovery blocks far enough from each other.    *)
SingularAsks == {[Ask(<<6>>) EXCEPT !.blocksize = 2, !.recoveryblockcount = 6]}

=============================================================================
