--------------------------- MODULE MCTrialTokens ----------------------------
(* Requests that may overlap.                                                 *)
EXTENDS TrialTokens, Overlap

VARIABLE overlapped     \* two requests have been in progress at once

MCInit == Init /\ overlapped = FALSE

MCNext == Next /\ overlapped' = (overlapped \/ Overlap(sessions'))

MCSpec == MCInit /\ [][MCNext]_<<vars, overlapped>>

(* OneActiveToken until requests overlap: a generation deactivates the one    *)
(* token it has read, and does not see one that is being inserted.            *)
OneActiveTokenAlone == ~overlapped => OneActiveToken

(* ManifestFollows until requests overlap: the manifest is computed from a    *)
(* session that does not see what the other one is about to commit.           *)
ManifestFollowsAlone == [][~overlapped => ManifestFollows]_vars

==============================================================================
