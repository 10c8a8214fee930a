---------------------------- MODULE MCScanThreads ----------------------------
(* The targets of two source files, a of two blocks and b of one, each     *)
(* with any two pieces of data.                                            *)
EXTENDS ScanThreads

CONSTANTS a, b, u, v, w

MCSourceFiles == <<a, b>>
MCBlockCount == [f \in {a, b} |-> IF f = a THEN 2 ELSE 1]
MCBlockData == [e \in {<<a, 1>>, <<a, 2>>, <<b, 1>>} |->
                 IF e = <<a, 1>> THEN u ELSE IF e = <<a, 2>> THEN v ELSE w]
MCContents == [1 .. 2 -> {u, v, w, Junk}]

=============================================================================
