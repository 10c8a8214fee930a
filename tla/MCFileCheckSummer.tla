-------------------------- MODULE MCFileCheckSummer --------------------------
(* Every file of up to MaxFileSize bytes whose bytes are all different, so  *)
(* that a byte out of place is seen.                                        *)
EXTENDS FileCheckSummer

CONSTANT MaxFileSize

MCByte == 0 .. MaxFileSize
MCFileContents == {[i \in 1 .. n |-> i] : n \in 1 .. MaxFileSize}
MCDistance == 2 .. BlockSize + 1

=============================================================================
