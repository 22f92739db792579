------------------------ MODULE MCActivationRequests ------------------------
(* Requests, licenses and handlers are interchangeable.                       *)
EXTENDS ActivationRequests, Overlap, TLC

VARIABLE overlapped     \* two requests have been in progress at once

MCInit == Init /\ overlapped = FALSE

MCNext == Next /\ overlapped' = (overlapped \/ Overlap(sessions'))

MCSpec == MCInit /\ [][MCNext]_<<vars, overlapped>>

Symmetry == Permutations(Licenses) \cup Permutations(Workers) \cup Permutations(Requests)

(* HistoryChains until requests overlap: a handler that reads a status        *)
(* another one is about to replace records a transition that did not happen.  *)
HistoryChainsAlone == ~overlapped => HistoryChains

(* OneLicense until requests overlap: two generations that have both passed   *)
(* the check issue two licenses under one file name.                          *)
OneLicenseAlone == ~overlapped => OneLicense

==============================================================================
