------------------------------ MODULE ClientViews ------------------------------
(***************************************************************************)
(* What the admin front end promises of what it shows, without saying how: *)
(* the server's data have versions, each view shows the data of a version, *)
(* and a view that claims to be up to date shows at least the version that *)
(* was there when the user was last told of a success.  A view never goes  *)
(* back to older data, it can only be emptied.                             *)
(***************************************************************************)
EXTENDS Naturals

CONSTANT Views

VARIABLES
  latest,    \* the version of the server's data
  view,      \* per view the version it shows, 0 for none
  settled,   \* the views that claim to be up to date
  promise    \* per view the version it has to show once it claims to be up to date

vars == <<latest, view, settled, promise>>

Init ==
  /\ latest \in Nat
  /\ view = [k \in Views |-> 0]
  /\ settled = {}
  /\ promise = [k \in Views |-> 0]

(* The server's data change. *)
Change ==
  /\ latest' = latest + 1
  /\ UNCHANGED <<view, settled, promise>>

(* The user is told of a success: the views of P owe him the present       *)
(* version, those of K no longer claim to be up to date.                   *)
Acknowledge(K, P) ==
  /\ settled' = settled \ K
  /\ promise' = [k \in Views |-> IF k \in P THEN latest ELSE promise[k]]
  /\ UNCHANGED <<latest, view>>

(* A view is brought up to a version no older than it shows or owes. *)
Look(k) ==
  /\ \E v \in view[k] .. latest :
       /\ v >= promise[k]
       /\ view' = [view EXCEPT ![k] = v]
  /\ settled' = settled \cup {k}
  /\ UNCHANGED <<latest, promise>>

(* A view stops claiming to be up to date. *)
Doubt(k) ==
  /\ settled' = settled \ {k}
  /\ UNCHANGED <<latest, view, promise>>

(* Views are emptied. *)
Forget(K) ==
  /\ view' = [k \in Views |-> IF k \in K THEN 0 ELSE view[k]]
  /\ settled' = settled \ K
  /\ UNCHANGED <<latest, promise>>

Next ==
  \/ Change
  \/ \E k \in Views : Look(k) \/ Doubt(k)
  \/ \E K \in SUBSET Views : \E P \in SUBSET K : Acknowledge(K, P)
  \/ \E K \in SUBSET Views : Forget(K)

Spec == Init /\ [][Next]_vars

(* A view that claims to be up to date shows what is owed. *)
FreshSinceSuccess == \A k \in settled : view[k] >= promise[k]
================================================================================
