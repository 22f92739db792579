--------------------------- MODULE MCUserAccounts ---------------------------
(* Requests that may overlap.                                                 *)
EXTENDS UserAccounts, Overlap, TLC

VARIABLE overlapped     \* two requests have been in progress at once

MCInit == Init /\ overlapped = FALSE

MCNext == Next /\ overlapped' = (overlapped \/ Overlap(sessions'))

MCSpec == MCInit /\ [][MCNext]_<<vars, overlapped>>

Symmetry == Permutations(Users \ {DefaultOwner}) \cup Permutations(Workers)

(* OwnerKept until requests overlap: two owners who demote each other both    *)
(* count two.                                                                 *)
OwnerKeptAlone == ~overlapped => OwnerKept

(* Restartable until requests overlap.                                        *)
RestartableAlone == ~overlapped => Restartable

==============================================================================
