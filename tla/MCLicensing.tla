---------------------------- MODULE MCLicensing -----------------------------
(* Ids and handlers are interchangeable.                                      *)
EXTENDS Licensing, Overlap, TLC

VARIABLE overlapped     \* two requests have been in progress at once

MCInit == Init /\ overlapped = FALSE

MCNext == Next /\ overlapped' = (overlapped \/ Overlap(sessions'))

MCSpec == MCInit /\ [][MCNext]_<<vars, overlapped>>

Symmetry ==
  Permutations(Subscriptions) \cup Permutations(Licenses) \cup Permutations(Workers)
    \cup Permutations(Plans) \cup Permutations(Deployments)

(* OneActiveLicense until requests overlap: two issues for a deployment both  *)
(* find no active license.                                                    *)
OneActiveLicenseAlone == ~overlapped => OneActiveLicense

(* ChecksStand until requests overlap: the subscription an issue has read may *)
(* be suspended before its commit, and two creations may both find no live    *)
(* subscription of the pair.                                                  *)
ChecksStandAlone == [][~overlapped => ChecksStand]_vars

==============================================================================
