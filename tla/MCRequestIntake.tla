-------------------------- MODULE MCRequestIntake ---------------------------
(* Uploads that may overlap.                                                  *)
EXTENDS RequestIntake, Overlap, TLC

VARIABLES
  overlapped,     \* two requests have been in progress at once
  wandered        \* a name with directories has been uploaded

(* Any other name has one path, whatever the number.                          *)
MCPath(n, name) == IF name \in Plain THEN <<n, name>> ELSE <<0, name>>

(* Documents and workers are interchangeable.                                 *)
Symmetry == Permutations(Documents) \cup Permutations(Workers)

MCInit == Init /\ overlapped = FALSE /\ wandered = FALSE

MCNext ==
  /\ Next
  /\ overlapped' = (overlapped \/ Overlap(sessions'))
  /\ wandered' = (wandered \/ \E w \in Busy(sessions') : sessions'[w].name \notin Plain)

MCSpec == MCInit /\ [][MCNext]_<<vars, overlapped, wandered>>

(* FileIsDocument until uploads overlap, the numbers run out or a name with   *)
(* directories comes: the loser of a race for a number leaves its document    *)
(* under the name of the winner's, past the limit every upload draws the last *)
(* number again and stores its document there before the insert is refused,   *)
(* and a name with directories may lead to a file of another number.          *)
FileIsDocumentAlone ==
  ~overlapped /\ ~wandered /\ Cardinality(rows) < Limit => FileIsDocument

(* Deduplicated until uploads overlap: both look up the hash before either    *)
(* inserts its row.                                                           *)
DeduplicatedAlone == ~overlapped => Deduplicated

==============================================================================
