------------------------- MODULE MCPlanCapabilities -------------------------
(* Two products with a plan each, and requests that may overlap.              *)
EXTENDS PlanCapabilities, Overlap, TLC

VARIABLE crossed        \* two requests have been in progress at once

MCLinkInit == LinkInit /\ crossed = FALSE

MCLinkNext == LinkNext /\ crossed' = (crossed \/ Overlap(edits'))

MCLinkSpec == MCLinkInit /\ [][MCLinkNext]_<<linkVars, crossed>>

TwoProducts == [plan \in {"basic", "custom"} |-> IF plan = "basic" THEN "lms" ELSE "wfa"]

LinkSymmetry == Permutations(Capabilities) \cup Permutations(Editors)

(* AttachedWithinProduct until requests overlap: a capability may be          *)
(* withdrawn between the lookup and the insert of the link.                   *)
AttachedWithinProductAlone == [][~crossed => AttachedWithinProduct]_linkVars

==============================================================================
