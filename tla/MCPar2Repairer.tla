--------------------------- MODULE MCPar2Repairer ---------------------------
(* Two source files, of two blocks and of one or two, and an extra file;   *)
(* each is missing, whole, or holds pieces of one or the other.            *)
EXTENDS Par2Repairer

CONSTANTS a, b, x, v, w, y

MCSourceFiles == <<<<a>>, <<b>>>>
MCBlockCount == <<a>> :> 2 @@ <<b>> :> 1
MCBlockData == <<<<a>>, 1>> :> v @@ <<<<a>>, 2>> :> w @@ <<<<b>>, 1>> :> y

Holding(contents) ==
  UNION {[names -> contents] : names \in SUBSET {<<a>>, <<b>>, <<x>>}}
Starting(disks, purging) == {[disk |-> d, purgefiles |-> p] : d \in disks, p \in purging}

Contents == {<<v, w>>, <<y>>, <<Junk, w>>, <<v, Junk>>, <<y, w>>}

(* The user purges on disks on which no target has all the data of another *)
(* source file.                                                            *)
PurgeDisks == {d \in Holding(Contents) :
  \A f \in File : f \in DOMAIN d => d[f] \notin {Original(g) : g \in File \ {f}}}

MCStarts == Starting(Holding(Contents), {FALSE}) \union Starting(PurgeDisks, {TRUE})
PurgeStarts == Starting(Holding(Contents), {TRUE})

(* A block of one file with the data of a block of the other.              *)
TwinBlockCount == <<a>> :> 2 @@ <<b>> :> 2
TwinBlockData == <<<<a>>, 1>> :> v @@ <<<<a>>, 2>> :> w
              @@ <<<<b>>, 1>> :> v @@ <<<<b>>, 2>> :> y
TwinStarts == Starting(Holding({<<v, w>>, <<v, y>>, <<v, v>>, <<Junk, w>>}), {FALSE})

(* A source file has the name that a backup of the other gets.             *)
LogSourceFiles == <<<<a>>, <<a, 1>>>>
LogBlockCount == <<a>> :> 2 @@ <<a, 1>> :> 1
LogBlockData == <<<<a>>, 1>> :> v @@ <<<<a>>, 2>> :> w @@ <<<<a, 1>>, 1>> :> y
LogStarts ==
  Starting(UNION {[names -> Contents] : names \in SUBSET {<<a>>, <<a, 1>>, <<x>>}}, {FALSE})

=============================================================================
