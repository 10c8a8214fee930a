------------------------------ MODULE SafeRepair ------------------------------
(***************************************************************************)
(* What a repair promises to the owner of the files, however it goes about *)
(* it: it reports success only when all files are right, and until then    *)
(* nothing that was there is taken away or replaced.  A run may end early  *)
(* at any time, and may be followed by another one.                        *)
(***************************************************************************)
EXTENDS FiniteSets

CONSTANT SourceFiles  \* the files of the set

VARIABLES
  kept,      \* what the files hold that the run did not make itself
  repaired,  \* the files of the set that are right
  stage      \* "working", "repaired" once success is reported, or "stopped"

vars == <<kept, repaired, stage>>

Init ==
  /\ IsFiniteSet(kept)
  /\ repaired \subseteq SourceFiles
  /\ stage = "working"

(* Files are renamed and made, and those that were made deleted.           *)
Work ==
  /\ stage = "working"
  /\ repaired' \subseteq SourceFiles
  /\ UNCHANGED <<kept, stage>>

Succeed ==
  /\ stage = "working" /\ repaired = SourceFiles
  /\ stage' = "repaired"
  /\ UNCHANGED <<kept, repaired>>

(* Only now may anything go, and nothing that makes a file wrong.          *)
Purge ==
  /\ stage = "repaired"
  /\ kept' \subseteq kept /\ repaired' = repaired
  /\ UNCHANGED stage

Stop ==
  /\ stage # "stopped" /\ stage' = "stopped"
  /\ repaired' \subseteq SourceFiles
  /\ stage = "repaired" => repaired' = repaired
  /\ UNCHANGED kept

(* What the last run made is kept by the next one.                         *)
Again ==
  /\ stage # "working" /\ stage' = "working"
  /\ kept \subseteq kept' /\ UNCHANGED repaired

Next == Work \/ Succeed \/ Purge \/ Stop \/ Again

Spec == Init /\ [][Next]_vars

=============================================================================
