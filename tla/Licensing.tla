------------------------------- MODULE Licensing -------------------------------
(***************************************************************************)
(* Subscriptions of organizations to plans, deployments, and the licenses  *)
(* issued from the ones to the others                                      *)
(* (app/services/subscription_service.py, app/services/license_service.py, *)
(* app/services/deployment_service.py).                                    *)
(*                                                                         *)
(* A handler checks, then commits; the check and the commit are separate   *)
(* database calls and nothing in the schema backs the check, so another    *)
(* handler may commit in between.  A session writes only the columns whose *)
(* value it has changed.                                                   *)
(***************************************************************************)
EXTENDS Naturals, FiniteSets

CONSTANTS
  Subscriptions, \* subscription ids (uuid4 values)
  Plans,         \* (organization, product plan) pairs to subscribe to
  Deployments,   \* deployment ids
  Licenses,      \* license ids (uuid4 values)
  Workers,       \* handlers that may be in progress at the same time
  None           \* SQL NULL, or "no such row"

Statuses == {"ACTIVE", "TRIAL", "SUSPENDED", "CANCELLED", "EXPIRED"}
DepStatuses == {"ACTIVE", "INACTIVE", "DECOMMISSIONED"}

ASSUME NoneIsNoValue ==
  None \notin Subscriptions \cup Plans \cup Deployments \cup Licenses \cup Statuses \cup DepStatuses
           \cup {"REVOKED"}

(* The connection pool admits a fixed number of sessions.                    *)
ASSUME WorkersAreFinite == IsFiniteSet(Workers)

VARIABLES
  subs,          \* subscriptions: status and the pair subscribed to
  licenses,      \* licenses: status, deployment and subscription
  deps,          \* deployments: status and is_deleted
  sessions       \* what each handler is doing, and what it has read

tables == <<subs, licenses, deps>>
vars == <<tables, sessions>>

NoSub     == [status |-> None, plan |-> None]
NoLicense == [status |-> None, dep |-> None, sub |-> None]
NoDep     == [status |-> None, deleted |-> FALSE]
Idle      == [step |-> "idle", id |-> None, arg |-> None, seen |-> None]

Init ==
  /\ subs     = [s \in Subscriptions |-> NoSub]
  /\ licenses = [l \in Licenses |-> NoLicense]
  /\ deps     = [d \in Deployments |-> NoDep]
  /\ sessions = [w \in Workers |-> Idle]

-------------------------------------------------------------------------------
Entitled(status) == status \in {"ACTIVE", "TRIAL"}

(* The subscriptions that entitle the organization to the plan now.          *)
Live(p) == {s \in Subscriptions : subs[s].plan = p /\ Entitled(subs[s].status)}

(* The licenses that are active on the deployment.                           *)
ActiveOn(d) == {l \in Licenses : licenses[l].dep = d /\ licenses[l].status = "ACTIVE"}

Go(w, step, id, arg, seen) ==
  /\ sessions[w].step = "idle"
  /\ sessions' = [sessions EXCEPT ![w] = [step |-> step, id |-> id, arg |-> arg, seen |-> seen]]

Done(w) == sessions' = [sessions EXCEPT ![w] = Idle]

-------------------------------------------------------------------------------
(* create_subscription: no live subscription of the pair, then the insert,   *)
(* ACTIVE because the request carries no status.                             *)
CreateUnchecked(w, s, p) ==                             \* mutant of CreateCheck
  /\ subs[s].status = None
  /\ Go(w, "create", s, p, None)
  /\ UNCHANGED tables

CreateCheck(w, s, p) ==
  /\ subs[s].status = None
  /\ \A v \in Workers : sessions[v].step = "create" => sessions[v].id # s
  /\ Live(p) = {}
  /\ Go(w, "create", s, p, None)
  /\ UNCHANGED tables

CreateCommit(w) ==
  /\ sessions[w].step = "create"
  /\ subs' = [subs EXCEPT ![sessions[w].id] = [status |-> "ACTIVE", plan |-> sessions[w].arg]]
  /\ Done(w)
  /\ UNCHANGED <<licenses, deps>>

(* update_subscription to any status, or of other columns (status None);     *)
(* suspend_subscription and cancel_subscription to theirs unless already so. *)
Change(w, s, status) ==
  /\ subs[s].status # None
  /\ Go(w, "change", s, status, subs[s].status)
  /\ UNCHANGED tables

UpdateLoad(w, s, status) == Change(w, s, status)
SuspendLoad(w, s) == subs[s].status # "SUSPENDED" /\ Change(w, s, "SUSPENDED")
CancelLoad(w, s)  == subs[s].status # "CANCELLED" /\ Change(w, s, "CANCELLED")

WholeRow(current, seen, new) == IF new = None THEN seen ELSE new  \* mutant of Written
NullWritten(current, seen, new) == new                            \* mutant of Written
Written(current, seen, new)  == IF new \in {None, seen} THEN current ELSE new

ChangeCommit(w) ==
  /\ sessions[w].step = "change"
  /\ subs' = [subs EXCEPT ![sessions[w].id].status =
                Written(@, sessions[w].seen, sessions[w].arg)]
  /\ Done(w)
  /\ UNCHANGED <<licenses, deps>>

-------------------------------------------------------------------------------
(* issue_license reads the subscription, then looks for an active license of *)
(* the deployment, then inserts and commits, for which the deployment's row  *)
(* must exist, deleted or not.                                               *)
IssueLoad(w, d, s) ==
  /\ Entitled(subs[s].status)
  /\ Go(w, "check", s, d, subs[s].status)
  /\ UNCHANGED tables

IssueUnchecked(w) ==                                    \* mutant of IssueCheck
  /\ sessions[w].step = "check"
  /\ sessions' = [sessions EXCEPT ![w].step = "issue"]
  /\ UNCHANGED tables

IssueCheck(w) ==
  /\ sessions[w].step = "check"
  /\ ActiveOn(sessions[w].arg) = {}
  /\ sessions' = [sessions EXCEPT ![w].step = "issue"]
  /\ UNCHANGED tables

IssueCommit(w, l) ==
  /\ sessions[w].step = "issue"
  /\ licenses[l].status = None
  /\ deps[sessions[w].arg].status # None
  /\ licenses' = [licenses EXCEPT ![l] =
       [status |-> "ACTIVE", dep |-> sessions[w].arg, sub |-> sessions[w].id]]
  /\ Done(w)
  /\ UNCHANGED <<subs, deps>>

(* revoke_license.                                                           *)
RevokeLoad(w, l) ==
  /\ licenses[l].status \notin {None, "REVOKED"}
  /\ Go(w, "revoke", l, None, None)
  /\ UNCHANGED tables

RevokeCommit(w) ==
  /\ sessions[w].step = "revoke"
  /\ licenses' = [licenses EXCEPT ![sessions[w].id].status = "REVOKED"]
  /\ Done(w)
  /\ UNCHANGED <<subs, deps>>

-------------------------------------------------------------------------------
(* create_deployment.                                                        *)
CreateDeployment(w, d) ==
  /\ sessions[w].step = "idle"
  /\ deps[d].status = None
  /\ deps' = [deps EXCEPT ![d] = [status |-> "ACTIVE", deleted |-> FALSE]]
  /\ UNCHANGED <<subs, licenses, sessions>>

(* update_deployment to any status, or of other columns (status None), and   *)
(* delete_deployment, of a deployment that is not deleted yet.               *)
DeploymentLoad(w, step, d, status) ==
  /\ deps[d].status # None /\ ~deps[d].deleted
  /\ Go(w, step, d, status, deps[d].status)
  /\ UNCHANGED tables

(* The response is read back from the deployments that are not deleted: if   *)
(* the row has been deleted meanwhile there is none, and the update fails.   *)
ModifyAnyway(w) ==                                      \* mutant of ModifyCommit
  /\ sessions[w].step = "modify"
  /\ deps' = [deps EXCEPT ![sessions[w].id].status =
                Written(@, sessions[w].seen, sessions[w].arg)]
  /\ Done(w)
  /\ UNCHANGED <<subs, licenses>>

ModifyCommit(w) ==
  /\ sessions[w].step = "modify"
  /\ ~deps[sessions[w].id].deleted
  /\ deps' = [deps EXCEPT ![sessions[w].id].status =
                Written(@, sessions[w].seen, sessions[w].arg)]
  /\ Done(w)
  /\ UNCHANGED <<subs, licenses>>

(* The row is deleted, read again under its lock, and then decommissioned.   *)
RetireCommit(w) ==
  /\ sessions[w].step = "retire"
  /\ deps' = [deps EXCEPT ![sessions[w].id] = [status |-> "DECOMMISSIONED", deleted |-> TRUE]]
  /\ Done(w)
  /\ UNCHANGED <<subs, licenses>>

(* A refused check, a missing row or foreign key, a lost connection: nothing *)
(* is committed.                                                             *)
Fail(w) ==
  /\ sessions[w].step # "idle"
  /\ Done(w)
  /\ UNCHANGED tables

Next ==
  \E w \in Workers :
    \/ \E s \in Subscriptions :
         \/ \E p \in Plans : CreateCheck(w, s, p)
         \/ \E status \in Statuses \cup {None} : UpdateLoad(w, s, status)
         \/ SuspendLoad(w, s) \/ CancelLoad(w, s)
         \/ \E d \in Deployments : IssueLoad(w, d, s)
    \/ CreateCommit(w) \/ ChangeCommit(w) \/ ModifyCommit(w) \/ RetireCommit(w)
    \/ \E d \in Deployments :
         \/ CreateDeployment(w, d) \/ DeploymentLoad(w, "retire", d, None)
         \/ \E status \in DepStatuses \cup {None} : DeploymentLoad(w, "modify", d, status)
    \/ IssueCheck(w) \/ RevokeCommit(w)
    \/ \E l \in Licenses : IssueCommit(w, l) \/ RevokeLoad(w, l)
    \/ Fail(w)

Spec == Init /\ [][Next]_vars

-------------------------------------------------------------------------------
(* Rows and sessions hold values of their columns, and a session that is     *)
(* about to commit names rows that may be written.                           *)
Sessions ==
  {Idle}
  \cup [step : {"create"}, id : Subscriptions, arg : Plans, seen : {None}]
  \cup [step : {"change"}, id : Subscriptions, arg : Statuses \cup {None}, seen : Statuses]
  \cup [step : {"check", "issue"}, id : Subscriptions, arg : Deployments, seen : Statuses]
  \cup [step : {"modify"}, id : Deployments, arg : DepStatuses \cup {None}, seen : DepStatuses]
  \cup [step : {"retire"}, id : Deployments, arg : {None}, seen : DepStatuses]
  \cup [step : {"revoke"}, id : Licenses, arg : {None}, seen : {None}]

TypeOK ==
  /\ subs \in [Subscriptions -> {NoSub} \cup [status : Statuses, plan : Plans]]
  /\ licenses \in [Licenses -> {NoLicense}
       \cup [status : {"ACTIVE", "REVOKED"}, dep : Deployments, sub : Subscriptions]]
  /\ deps \in [Deployments -> {NoDep} \cup [status : DepStatuses, deleted : BOOLEAN]]
  /\ sessions \in [Workers -> Sessions]

(* Duplicates come from overlap alone: a deployment has at most one active   *)
(* license for each handler that may have passed the check of issue_license  *)
(* together with the others.                                                 *)
DuplicatesBounded == \A d \in Deployments : Cardinality(ActiveOn(d)) <= Cardinality(Workers)

(* Suspending or cancelling is not undone by accident: a subscription starts *)
(* to entitle again only through a handler that was asked for that status,   *)
(* not by one that changes other columns of a row it read before.            *)
RevivedOnPurpose ==
  [][\A s \in Subscriptions :
       subs[s].status # None /\ ~Entitled(subs[s].status) /\ Entitled(subs'[s].status)
         => \E w \in Workers :
              sessions[w].step = "change" /\ sessions[w].id = s
              /\ sessions[w].arg = subs'[s].status]_vars

(* "This will decommission the instance and hide it from active views"       *)
(* (deployments/page.tsx): a deployment that is deleted is decommissioned    *)
(* and stays so, though handlers that read it before its deletion write      *)
(* other statuses, and though it may have been decommissioned before.        *)
DeletedForGood ==
  [][\A d \in Deployments :
       /\ deps'[d].deleted => deps'[d].status = "DECOMMISSIONED"
       /\ deps[d].deleted => deps'[d].deleted]_vars

-------------------------------------------------------------------------------
(* What holds as long as requests to the server do not overlap.              *)

(* A deployment has at most one active license, whatever is revoked and      *)
(* issued again.                                                             *)
OneActiveLicense == \A d \in Deployments : Cardinality(ActiveOn(d)) <= 1

(* What a handler has checked stands when it commits: a license is issued    *)
(* from a subscription that entitles at that moment, and creating never adds *)
(* a second live subscription of a pair.                                     *)
ChecksStand ==
  /\ \A l \in Licenses :
       licenses[l].status = None /\ licenses'[l].status # None
         => Entitled(subs[licenses'[l].sub].status)
  /\ \A s \in Subscriptions :
       subs[s].status = None /\ subs'[s].status # None => Live(subs'[s].plan) = {}

===============================================================================
