---------------------------- MODULE PlanCapabilities ----------------------------
(***************************************************************************)
(* Capabilities, the products they belong to and the plans they are        *)
(* attached to (app/services/capability_service.py,                        *)
(* app/services/plan_service.py and their repositories).                   *)
(*                                                                         *)
(* Attaching a capability to a plan reads the capabilities of the plan's   *)
(* product and commits the link afterwards.  Both kinds of link are unique *)
(* rows.  Deletion is soft: the rows of a deleted capability stay linked.  *)
(***************************************************************************)
EXTENDS Naturals, FiniteSets

CONSTANTS
  Capabilities,
  Products,
  Plans,
  ProductOf,     \* the product of each plan, which never changes
  Editors,       \* handlers that may be in progress at the same time
  Nothing        \* no capability, product or plan

ASSUME PlansHaveProducts == ProductOf \in [Plans -> Products]
ASSUME EditorsAreFinite == IsFiniteSet(Editors)

VARIABLES
  deleted,       \* capabilities with is_deleted
  inProduct,     \* product_capabilities: <<capability, product>>
  inPlan,        \* product_plan_capabilities: <<capability, plan>>
  edits

linkVars == <<deleted, inProduct, inPlan, edits>>

LinkIdle == [step |-> "idle", cap |-> Nothing, to |-> Nothing]

LinkInit ==
  /\ deleted = {} /\ inProduct = {} /\ inPlan = {}
  /\ edits = [w \in Editors |-> LinkIdle]

-------------------------------------------------------------------------------
(* get_capabilities_for_product.                                             *)
OfProduct(product) == {c \in Capabilities \ deleted : <<c, product>> \in inProduct}

Edit(w, step, c, to) ==
  /\ edits[w].step = "idle"
  /\ edits' = [edits EXCEPT ![w] = [step |-> step, cap |-> c, to |-> to]]
  /\ UNCHANGED <<deleted, inProduct, inPlan>>

Link(w) == <<edits[w].cap, edits[w].to>>

Finish(w) == edits' = [edits EXCEPT ![w] = LinkIdle]

(* delete_capability; the row is found deleted or not.                       *)
DeleteLoad(w, c) == Edit(w, "delete", c, Nothing)

DeleteCommit(w) ==
  /\ edits[w].step = "delete"
  /\ deleted' = deleted \cup {edits[w].cap}
  /\ Finish(w)
  /\ UNCHANGED <<inProduct, inPlan>>

(* link_capability_to_product: the unique constraint alone refuses a second  *)
(* link; a deleted capability is linked all the same.                        *)
AssignLoad(w, c, product) == Edit(w, "assign", c, product)

AssignCommit(w) ==
  /\ edits[w].step = "assign"
  /\ Link(w) \notin inProduct
  /\ inProduct' = inProduct \cup {Link(w)}
  /\ Finish(w)
  /\ UNCHANGED <<deleted, inPlan>>

(* unlink_capability_from_product looks at no plan.                          *)
WithdrawLoad(w, c, product) ==
  /\ <<c, product>> \in inProduct
  /\ Edit(w, "withdraw", c, product)

WithdrawCommit(w) ==
  /\ edits[w].step = "withdraw"
  /\ inProduct' = inProduct \ {Link(w)}
  /\ Finish(w)
  /\ UNCHANGED <<deleted, inPlan>>

-------------------------------------------------------------------------------
(* link_capability: the capability belongs to the plan's product and is not  *)
(* attached yet.                                                             *)
AttachDeleted(w, c, plan) ==                            \* mutant of AttachLoad
  /\ <<c, ProductOf[plan]>> \in inProduct
  /\ <<c, plan>> \notin inPlan
  /\ Edit(w, "attach", c, plan)

AttachLoad(w, c, plan) ==
  /\ c \in OfProduct(ProductOf[plan])
  /\ <<c, plan>> \notin inPlan
  /\ Edit(w, "attach", c, plan)

AttachCommit(w) ==
  /\ edits[w].step = "attach"
  /\ Link(w) \notin inPlan
  /\ inPlan' = inPlan \cup {Link(w)}
  /\ Finish(w)
  /\ UNCHANGED <<deleted, inProduct>>

(* unlink_capability.                                                        *)
DetachLoad(w, c, plan) == <<c, plan>> \in inPlan /\ Edit(w, "detach", c, plan)

DetachCommit(w) ==
  /\ edits[w].step = "detach"
  /\ inPlan' = inPlan \ {Link(w)}
  /\ Finish(w)
  /\ UNCHANGED <<deleted, inProduct>>

(* A refused link, a missing row, a lost connection: rolled back.            *)
Abort(w) ==
  /\ edits[w].step # "idle"
  /\ Finish(w)
  /\ UNCHANGED <<deleted, inProduct, inPlan>>

LinkNext ==
  \E w \in Editors :
    \/ \E c \in Capabilities :
         \/ DeleteLoad(w, c)
         \/ \E product \in Products : AssignLoad(w, c, product) \/ WithdrawLoad(w, c, product)
         \/ \E plan \in Plans : AttachLoad(w, c, plan) \/ DetachLoad(w, c, plan)
    \/ DeleteCommit(w) \/ AssignCommit(w) \/ WithdrawCommit(w)
    \/ AttachCommit(w) \/ DetachCommit(w)
    \/ Abort(w)

LinkSpec == LinkInit /\ [][LinkNext]_linkVars

-------------------------------------------------------------------------------
(* "Only Capabilities belonging to the same Product can be attached", and a  *)
(* deleted one no longer belongs to it.  It holds as long as requests do not *)
(* overlap.                                                                  *)
AttachedWithinProduct ==
  \A c \in Capabilities, plan \in Plans :
    <<c, plan>> \in inPlan' \ inPlan => c \in OfProduct(ProductOf[plan])

===============================================================================
