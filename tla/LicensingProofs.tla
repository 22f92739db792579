----------------------------- MODULE LicensingProofs -----------------------------
(***************************************************************************)
(* Proofs about Licensing, for any sets of subscriptions, licenses and     *)
(* deployments and any finite number of concurrent handlers.               *)
(***************************************************************************)
EXTENDS MCLicensing, FiniteSetTheorems, TLAPS

SubRows == {NoSub} \cup [status : Statuses, plan : Plans]

LicenseRows ==
  {NoLicense} \cup [status : {"ACTIVE", "REVOKED"}, dep : Deployments, sub : Subscriptions]

DepRows == {NoDep} \cup [status : DepStatuses, deleted : BOOLEAN]

(* What a handler may rely on when it writes: the id it is to insert is free *)
(* and nobody else's, the row it is to change exists.                        *)
SessionRows ==
  \A w \in Workers :
    /\ sessions[w].step = "create" =>
         /\ subs[sessions[w].id].status = None
         /\ \A v \in Workers \ {w} : sessions[v].step = "create" => sessions[v].id # sessions[w].id
    /\ sessions[w].step = "change" => subs[sessions[w].id].status # None
    /\ sessions[w].step = "revoke" => licenses[sessions[w].id].status # None
    /\ sessions[w].step \in {"modify", "retire"} => deps[sessions[w].id].status # None

Rows == TypeOK /\ SessionRows

(* A handler that has only read: the other sessions and the tables stay.     *)
LEMMA ReadStep ==
  ASSUME Rows, NEW w \in Workers, NEW new \in Sessions,
         sessions' = [sessions EXCEPT ![w] = new], UNCHANGED tables,
         new.step = "create" =>
           /\ subs[new.id].status = None
           /\ \A v \in Workers : sessions[v].step = "create" => sessions[v].id # new.id,
         new.step = "change" => subs[new.id].status # None,
         new.step = "revoke" => licenses[new.id].status # None,
         new.step \in {"modify", "retire"} => deps[new.id].status # None
  PROVE  Rows'
<1>1. /\ sessions' \in [Workers -> Sessions] /\ sessions'[w] = new
      /\ \A v \in Workers \ {w} : sessions'[v] = sessions[v]
  BY DEF Rows, TypeOK
<1>2. TypeOK'
  BY <1>1 DEF Rows, TypeOK, tables
<1>3. SessionRows'
  BY <1>1 DEF Rows, SessionRows, tables
<1> QED
  BY <1>2, <1>3 DEF Rows

(* A handler that has written and ends: rows neither disappear nor appear    *)
(* but under the id it was to insert.                                        *)
LEMMA WriteStep ==
  ASSUME Rows, NEW w \in Workers, Done(w),
         subs' \in [Subscriptions -> SubRows], licenses' \in [Licenses -> LicenseRows],
         deps' \in [Deployments -> DepRows],
         \A s \in Subscriptions : subs[s].status # None => subs'[s].status # None,
         \A l \in Licenses : licenses[l].status # None => licenses'[l].status # None,
         \A d \in Deployments : deps[d].status # None => deps'[d].status # None,
         \A v \in Workers \ {w} : sessions[v].step = "create" =>
           subs'[sessions[v].id].status = None
  PROVE  Rows'
<1>1. Idle \in Sessions /\ Idle.step = "idle"
  BY DEF Sessions, Idle
<1>2. /\ sessions' \in [Workers -> Sessions] /\ sessions'[w] = Idle
      /\ \A v \in Workers \ {w} : sessions'[v] = sessions[v]
  BY <1>1 DEF Rows, TypeOK, Done
<1>3. TypeOK'
  BY <1>2 DEF TypeOK, SubRows, LicenseRows, DepRows
<1>4. \A v \in Workers : /\ sessions[v].step = "change" => sessions[v].id \in Subscriptions
                         /\ sessions[v].step = "revoke" => sessions[v].id \in Licenses
                         /\ sessions[v].step \in {"modify", "retire"} =>
                              sessions[v].id \in Deployments
  BY DEF Rows, TypeOK, Sessions, Idle
<1>5. SessionRows'
  BY <1>1, <1>2, <1>4 DEF Rows, SessionRows
<1> QED
  BY <1>3, <1>5 DEF Rows

LEMMA RowsInvariant == Spec => []Rows
<1>1. Init => Rows
  BY DEF Init, Rows, TypeOK, SessionRows, Sessions, Idle, NoSub, NoLicense, NoDep
<1>2. Rows /\ [Next]_vars => Rows'
  <2> SUFFICES ASSUME Rows, [Next]_vars PROVE Rows'
    OBVIOUS
  <2>1. /\ subs \in [Subscriptions -> SubRows] /\ licenses \in [Licenses -> LicenseRows]
        /\ deps \in [Deployments -> DepRows] /\ sessions \in [Workers -> Sessions]
    BY DEF Rows, TypeOK, SubRows, LicenseRows, DepRows
  <2>2. ASSUME NEW w \in Workers, NEW s \in Subscriptions, NEW p \in Plans, CreateCheck(w, s, p)
        PROVE  Rows'
    <3> DEFINE new == [step |-> "create", id |-> s, arg |-> p, seen |-> None]
    <3>1. new \in Sessions
      BY DEF Sessions
    <3> QED
      BY <2>2, <3>1, ReadStep DEF CreateCheck, Go, tables
  <2>3. ASSUME NEW w \in Workers, NEW s \in Subscriptions, NEW status \in Statuses \cup {None},
               Change(w, s, status)
        PROVE  Rows'
    <3> DEFINE new == [step |-> "change", id |-> s, arg |-> status, seen |-> subs[s].status]
    <3>1. subs[s].status \in Statuses
      BY <2>1, <2>3 DEF Change, SubRows, NoSub
    <3>2. new \in Sessions
      BY <3>1 DEF Sessions
    <3> QED
      BY <2>3, <3>2, ReadStep DEF Change, Go, tables
  <2>4. ASSUME NEW w \in Workers, NEW s \in Subscriptions, NEW d \in Deployments,
               IssueLoad(w, d, s)
        PROVE  Rows'
    <3> DEFINE new == [step |-> "check", id |-> s, arg |-> d, seen |-> subs[s].status]
    <3>1. subs[s].status \in Statuses
      BY <2>4 DEF IssueLoad, Entitled, Statuses
    <3>2. new \in Sessions
      BY <3>1 DEF Sessions
    <3> QED
      BY <2>4, <3>2, ReadStep DEF IssueLoad, Go, tables
  <2>5. ASSUME NEW w \in Workers, IssueCheck(w) PROVE Rows'
    <3> DEFINE new == [sessions[w] EXCEPT !.step = "issue"]
    <3>1. sessions[w] \in [step : {"check", "issue"}, id : Subscriptions, arg : Deployments,
                           seen : Statuses]
      BY <2>1, <2>5 DEF IssueCheck, Sessions, Idle
    <3>2. new \in Sessions /\ new.step = "issue"
      BY <3>1 DEF Sessions
    <3>3. sessions' = [sessions EXCEPT ![w] = new]
      BY <2>5 DEF IssueCheck
    <3> HIDE DEF new
    <3> QED
      BY <2>5, <3>2, <3>3, ReadStep DEF IssueCheck
  <2>6. ASSUME NEW w \in Workers, NEW l \in Licenses, RevokeLoad(w, l) PROVE Rows'
    <3> DEFINE new == [step |-> "revoke", id |-> l, arg |-> None, seen |-> None]
    <3>1. new \in Sessions
      BY DEF Sessions
    <3> QED
      BY <2>6, <3>1, ReadStep DEF RevokeLoad, Go, tables
  <2>7. ASSUME NEW w \in Workers, CreateCommit(w) PROVE Rows'
    <3>1. sessions[w].id \in Subscriptions /\ sessions[w].arg \in Plans
      BY <2>1, <2>7 DEF CreateCommit, Sessions, Idle
    <3>2. [status |-> "ACTIVE", plan |-> sessions[w].arg] \in SubRows
      BY <3>1 DEF SubRows, Statuses
    <3>3. subs' \in [Subscriptions -> SubRows]
      BY <2>1, <2>7, <3>2 DEF CreateCommit
    <3>4. \A s \in Subscriptions : subs[s].status # None => subs'[s].status # None
      BY <2>1, <2>7, <3>1, NoneIsNoValue DEF CreateCommit, Statuses
    <3>5. \A v \in Workers \ {w} : sessions[v].step = "create" =>
            subs'[sessions[v].id].status = None
      BY <2>1, <2>7, <3>1 DEF CreateCommit, Rows, SessionRows, Sessions, Idle
    <3> QED
      BY <2>1, <2>7, <3>3, <3>4, <3>5, WriteStep DEF CreateCommit
  <2>8. ASSUME NEW w \in Workers, ChangeCommit(w) PROVE Rows'
    <3> DEFINE s == sessions[w].id
               status == Written(subs[s].status, sessions[w].seen, sessions[w].arg)
    <3>1. s \in Subscriptions /\ sessions[w].arg \in Statuses \cup {None}
      BY <2>1, <2>8 DEF ChangeCommit, Sessions, Idle
    <3>2. subs[s] \in [status : Statuses, plan : Plans]
      BY <2>1, <2>8, <3>1 DEF ChangeCommit, Rows, SessionRows, SubRows, NoSub
    <3>3. status \in Statuses
      BY <3>1, <3>2 DEF Written
    <3>4. subs' = [subs EXCEPT ![s].status = status]
      BY <2>8 DEF ChangeCommit
    <3> HIDE DEF status
    <3>5. subs' = [subs EXCEPT ![s] = [subs[s] EXCEPT !.status = status]]
      BY <3>4
    <3>6. [subs[s] EXCEPT !.status = status] \in SubRows /\ [subs[s] EXCEPT !.status = status].status = status
      BY <3>2, <3>3 DEF SubRows
    <3>7. /\ subs' \in [Subscriptions -> SubRows] /\ subs'[s].status = status
          /\ \A t \in Subscriptions \ {s} : subs'[t] = subs[t]
      BY <2>1, <3>1, <3>5, <3>6
    <3>8. \A t \in Subscriptions : subs[t].status # None => subs'[t].status # None
      BY <3>3, <3>7, NoneIsNoValue
    <3>9. \A v \in Workers \ {w} : sessions[v].step = "create" =>
            subs'[sessions[v].id].status = None
      BY <2>1, <2>8, <3>7 DEF ChangeCommit, Rows, SessionRows, Sessions, Idle
    <3> QED
      BY <2>1, <2>8, <3>7, <3>8, <3>9, WriteStep DEF ChangeCommit
  <2>9. ASSUME NEW w \in Workers, NEW l \in Licenses, IssueCommit(w, l) PROVE Rows'
    <3>1. sessions[w].id \in Subscriptions /\ sessions[w].arg \in Deployments
      BY <2>1, <2>9 DEF IssueCommit, Sessions, Idle
    <3>2. [status |-> "ACTIVE", dep |-> sessions[w].arg, sub |-> sessions[w].id] \in LicenseRows
      BY <3>1 DEF LicenseRows
    <3>3. licenses' \in [Licenses -> LicenseRows]
      BY <2>1, <2>9, <3>2 DEF IssueCommit
    <3>4. \A m \in Licenses : licenses[m].status # None => licenses'[m].status # None
      BY <2>1, <2>9 DEF IssueCommit
    <3> QED
      BY <2>1, <2>9, <3>3, <3>4, WriteStep DEF IssueCommit, Rows, SessionRows
  <2>10. ASSUME NEW w \in Workers, RevokeCommit(w) PROVE Rows'
    <3> DEFINE l == sessions[w].id
    <3>1. l \in Licenses
      BY <2>1, <2>10 DEF RevokeCommit, Sessions, Idle
    <3>2. licenses[l] \in [status : {"ACTIVE", "REVOKED"}, dep : Deployments, sub : Subscriptions]
      BY <2>1, <2>10, <3>1 DEF RevokeCommit, Rows, SessionRows, LicenseRows, NoLicense
    <3>3. licenses' = [licenses EXCEPT ![l] = [licenses[l] EXCEPT !.status = "REVOKED"]]
      BY <2>10 DEF RevokeCommit
    <3>4. /\ [licenses[l] EXCEPT !.status = "REVOKED"] \in LicenseRows
          /\ [licenses[l] EXCEPT !.status = "REVOKED"].status = "REVOKED"
      BY <3>2 DEF LicenseRows
    <3>5. /\ licenses' \in [Licenses -> LicenseRows] /\ licenses'[l].status = "REVOKED"
          /\ \A m \in Licenses \ {l} : licenses'[m] = licenses[m]
      BY <2>1, <3>1, <3>3, <3>4
    <3>6. \A m \in Licenses : licenses[m].status # None => licenses'[m].status # None
      BY <3>2, <3>5, NoneIsNoValue
    <3> QED
      BY <2>1, <2>10, <3>5, <3>6, WriteStep DEF RevokeCommit, Rows, SessionRows
  <2>11. ASSUME NEW w \in Workers, Fail(w) PROVE Rows'
    BY <2>1, <2>11, WriteStep DEF Fail, Rows, SessionRows, tables
  <2>12. CASE UNCHANGED vars
    BY <2>12 DEF vars, tables, Rows, TypeOK, SessionRows
  <2>13. ASSUME NEW w \in Workers, NEW d \in Deployments, CreateDeployment(w, d) PROVE Rows'
    <3>1. [status |-> "ACTIVE", deleted |-> FALSE] \in DepRows
      BY DEF DepRows, DepStatuses
    <3>2. deps' \in [Deployments -> DepRows]
      BY <2>1, <2>13, <3>1 DEF CreateDeployment
    <3>3. TypeOK'
      BY <2>13, <3>2 DEF CreateDeployment, Rows, TypeOK, DepRows
    <3>4. SessionRows'
      <4>1. \A e \in Deployments : deps[e].status # None => deps'[e].status # None
        BY <2>1, <2>13 DEF CreateDeployment
      <4>2. \A v \in Workers : sessions[v].step \in {"modify", "retire"} =>
              sessions[v].id \in Deployments
        BY <2>1 DEF Sessions, Idle
      <4> QED
        BY <2>13, <4>1, <4>2 DEF CreateDeployment, Rows, SessionRows
    <3> QED
      BY <3>3, <3>4 DEF Rows
  <2>14. ASSUME NEW w \in Workers, NEW d \in Deployments,
                NEW step \in {"modify", "retire"}, NEW status \in DepStatuses \cup {None},
                step = "retire" => status = None, DeploymentLoad(w, step, d, status)
         PROVE  Rows'
    <3> DEFINE new == [step |-> step, id |-> d, arg |-> status, seen |-> deps[d].status]
    <3>1. deps[d].status \in DepStatuses
      BY <2>1, <2>14 DEF DeploymentLoad, DepRows, NoDep
    <3>2. new \in Sessions
      BY <2>14, <3>1 DEF Sessions
    <3> QED
      BY <2>14, <3>2, ReadStep DEF DeploymentLoad, Go
  <2>15. ASSUME NEW w \in Workers, ModifyCommit(w) PROVE Rows'
    <3> DEFINE d == sessions[w].id
               status == Written(deps[d].status, sessions[w].seen, sessions[w].arg)
    <3>1. d \in Deployments /\ sessions[w].arg \in DepStatuses \cup {None}
      BY <2>1, <2>15 DEF ModifyCommit, Sessions, Idle
    <3>2. deps[d] \in [status : DepStatuses, deleted : BOOLEAN]
      BY <2>1, <2>15, <3>1 DEF ModifyCommit, Rows, SessionRows, DepRows, NoDep
    <3>3. status \in DepStatuses
      BY <3>1, <3>2 DEF Written
    <3>4. deps' = [deps EXCEPT ![d].status = status]
      BY <2>15 DEF ModifyCommit
    <3> HIDE DEF status
    <3>5. deps' = [deps EXCEPT ![d] = [deps[d] EXCEPT !.status = status]]
      BY <3>4
    <3>6. [deps[d] EXCEPT !.status = status] \in DepRows /\ [deps[d] EXCEPT !.status = status].status = status
      BY <3>2, <3>3 DEF DepRows
    <3>7. /\ deps' \in [Deployments -> DepRows] /\ deps'[d].status = status
          /\ \A e \in Deployments \ {d} : deps'[e] = deps[e]
      BY <2>1, <3>1, <3>5, <3>6
    <3>8. \A e \in Deployments : deps[e].status # None => deps'[e].status # None
      BY <3>3, <3>7, NoneIsNoValue
    <3> QED
      BY <2>1, <2>15, <3>7, <3>8, WriteStep DEF ModifyCommit, Rows, SessionRows
  <2>16. ASSUME NEW w \in Workers, RetireCommit(w) PROVE Rows'
    <3>1. sessions[w].id \in Deployments
      BY <2>1, <2>16 DEF RetireCommit, Sessions, Idle
    <3>2. [status |-> "DECOMMISSIONED", deleted |-> TRUE] \in DepRows
      BY DEF DepRows, DepStatuses
    <3>3. deps' \in [Deployments -> DepRows]
      BY <2>1, <2>16, <3>2 DEF RetireCommit
    <3>4. \A e \in Deployments : deps[e].status # None => deps'[e].status # None
      BY <2>1, <2>16, NoneIsNoValue DEF RetireCommit, DepStatuses
    <3> QED
      BY <2>1, <2>16, <3>3, <3>4, WriteStep DEF RetireCommit, Rows, SessionRows
  <2> QED
    BY <2>2, <2>3, <2>4, <2>5, <2>6, <2>7, <2>8, <2>9, <2>10, <2>11, <2>12, <2>13, <2>14,
       <2>15, <2>16
       DEF Next, UpdateLoad, SuspendLoad, CancelLoad, Statuses
<1> QED
  BY <1>1, <1>2, PTL DEF Spec

(* The columns and the sessions keep their types.                            *)
THEOREM TypeCorrect == Spec => []TypeOK
<1>1. Rows => TypeOK
  BY DEF Rows
<1> QED
  BY <1>1, RowsInvariant, PTL

-------------------------------------------------------------------------------
(* A subscription that has stopped entitling does so again only through a    *)
(* handler that was asked for the very status it gets: handlers of           *)
(* subscription_service write the columns they change, not the row they read.*)
THEOREM OnlyOnPurpose == Spec => RevivedOnPurpose
<1>1. Rows /\ [Next]_vars =>
        \A s \in Subscriptions :
          subs[s].status # None /\ ~Entitled(subs[s].status) /\ Entitled(subs'[s].status)
            => \E w \in Workers : sessions[w].step = "change" /\ sessions[w].id = s
                                  /\ sessions[w].arg = subs'[s].status
  <2> SUFFICES ASSUME Rows, [Next]_vars, NEW s \in Subscriptions,
                      subs[s].status # None, subs[s].status # subs'[s].status
               PROVE  \E w \in Workers : sessions[w].step = "change" /\ sessions[w].id = s
                                          /\ sessions[w].arg = subs'[s].status
    OBVIOUS
  <2>1. subs \in [Subscriptions -> SubRows]
    BY DEF Rows, TypeOK, SubRows
  <2>2. \A w \in Workers : ~CreateCommit(w)
    <3> SUFFICES ASSUME NEW w \in Workers, CreateCommit(w) PROVE FALSE
      OBVIOUS
    <3>1. subs[sessions[w].id].status = None
      BY DEF CreateCommit, Rows, SessionRows
    <3>2. subs'[s] = subs[s]
      BY <2>1, <3>1 DEF CreateCommit
    <3> QED
      BY <3>2
  <2>3. subs' # subs
    OBVIOUS
  <2>4. PICK w \in Workers : ChangeCommit(w)
    BY <2>2, <2>3 DEF Next, vars, CreateCheck, Change, UpdateLoad, SuspendLoad, CancelLoad,
       IssueLoad, IssueCheck, IssueCommit, RevokeLoad, RevokeCommit, CreateDeployment,
       DeploymentLoad, ModifyCommit, RetireCommit, Fail, tables
  <2>5. sessions[w].step = "change" /\ sessions[w].id = s
    BY <2>1, <2>4 DEF ChangeCommit
  <2>6. subs[s] \in [status : Statuses, plan : Plans]
    BY <2>1 DEF SubRows, NoSub
  <2>7. subs'[s].status = Written(subs[s].status, sessions[w].seen, sessions[w].arg)
    BY <2>1, <2>4, <2>5, <2>6 DEF ChangeCommit
  <2>8. subs'[s].status = sessions[w].arg
    BY <2>7 DEF Written
  <2> QED
    BY <2>5, <2>8
<1> QED
  BY <1>1, RowsInvariant, PTL DEF Spec, RevivedOnPurpose

-------------------------------------------------------------------------------
(* A deployment once deleted is decommissioned for good: update_deployment    *)
(* fails when it cannot read its row back, delete_deployment reads the row    *)
(* again before it sets the status.                                           *)
Decommissioned == \A d \in Deployments : deps[d].deleted => deps[d].status = "DECOMMISSIONED"

LEMMA DeploymentStep ==
  ASSUME Rows, [Next]_vars, NEW d \in Deployments,
         deps[d].deleted => deps[d].status = "DECOMMISSIONED"
  PROVE  /\ deps'[d].deleted => deps'[d].status = "DECOMMISSIONED"
         /\ deps[d].deleted => deps'[d].deleted
<1>1. deps \in [Deployments -> DepRows] /\ NoDep.deleted = FALSE
  BY DEF Rows, TypeOK, DepRows, NoDep
<1>2. CASE deps' = deps
  BY <1>2
<1>3. ASSUME NEW w \in Workers, NEW e \in Deployments, CreateDeployment(w, e)
      PROVE  deps[d].deleted => deps'[d] = deps[d]
  BY <1>1, <1>3, NoneIsNoValue DEF CreateDeployment, DepStatuses
<1>4. ASSUME NEW w \in Workers, NEW e \in Deployments, CreateDeployment(w, e)
      PROVE  deps'[d] = deps[d] \/ deps'[d] = [status |-> "ACTIVE", deleted |-> FALSE]
  BY <1>1, <1>4 DEF CreateDeployment
<1>5. ASSUME NEW w \in Workers, ModifyCommit(w)
      PROVE  deps'[d] = deps[d] \/ (~deps[d].deleted /\ ~deps'[d].deleted)
  BY <1>1, <1>5 DEF ModifyCommit, DepRows, NoDep
<1>6. ASSUME NEW w \in Workers, RetireCommit(w)
      PROVE  deps'[d] = deps[d] \/ deps'[d] = [status |-> "DECOMMISSIONED", deleted |-> TRUE]
  BY <1>1, <1>6 DEF RetireCommit
<1>7. \/ deps' = deps
      \/ \E w \in Workers :
           ModifyCommit(w) \/ RetireCommit(w) \/ \E e \in Deployments : CreateDeployment(w, e)
  BY DEF Next, vars, tables, CreateCheck, CreateCommit, Change, UpdateLoad, SuspendLoad,
     CancelLoad, ChangeCommit, IssueLoad, IssueCheck, IssueCommit, RevokeLoad, RevokeCommit,
     DeploymentLoad, Fail
<1> QED
  BY <1>2, <1>3, <1>4, <1>5, <1>6, <1>7

THEOREM DecommissionStands == Spec => DeletedForGood
<1>1. Init => Decommissioned
  BY DEF Init, Decommissioned, NoDep
<1>2. Rows /\ Decommissioned /\ [Next]_vars => Decommissioned'
  BY DeploymentStep DEF Decommissioned
<1>3. Rows /\ Decommissioned /\ [Next]_vars =>
        \A d \in Deployments :
          /\ deps'[d].deleted => deps'[d].status = "DECOMMISSIONED"
          /\ deps[d].deleted => deps'[d].deleted
  BY DeploymentStep DEF Decommissioned
<1> QED
  BY <1>1, <1>2, <1>3, RowsInvariant, PTL DEF Spec, DeletedForGood

-------------------------------------------------------------------------------
(* The handlers that have found no active license on d and will insert one.  *)
Issuers(d) == {w \in Workers : sessions[w].step = "issue" /\ sessions[w].arg = d}

(* The licenses a deployment has and those about to be inserted need no more *)
(* than one handler each: what the check of issue_license still ensures when *)
(* requests overlap.                                                         *)
RoomOn(d) ==
  /\ IsFiniteSet(ActiveOn(d))
  /\ Cardinality(ActiveOn(d)) + Cardinality(Issuers(d)) <= Cardinality(Workers)

Room == \A d \in Deployments : RoomOn(d)

LEMMA Counts ==
  /\ Cardinality(Workers) \in Nat
  /\ \A d \in Deployments :
       /\ IsFiniteSet(Issuers(d)) /\ Cardinality(Issuers(d)) \in Nat
       /\ Cardinality(Issuers(d)) <= Cardinality(Workers)
  BY WorkersAreFinite, FS_Subset, FS_CardinalityType DEF Issuers

(* A step that activates no license and lets no handler pass the check.      *)
LEMMA RoomKept ==
  ASSUME NEW d \in Deployments, RoomOn(d),
         ActiveOn(d)' \subseteq ActiveOn(d), Issuers(d)' \subseteq Issuers(d)
  PROVE  RoomOn(d)'
<1>1. /\ Cardinality(ActiveOn(d)) \in Nat /\ Cardinality(Issuers(d)) \in Nat
      /\ Cardinality(Workers) \in Nat /\ IsFiniteSet(Issuers(d))
  BY Counts, FS_CardinalityType DEF RoomOn
<1>2. IsFiniteSet(ActiveOn(d)') /\ Cardinality(ActiveOn(d)') <= Cardinality(ActiveOn(d))
  BY FS_Subset DEF RoomOn
<1>3. IsFiniteSet(Issuers(d)') /\ Cardinality(Issuers(d)') <= Cardinality(Issuers(d))
  BY <1>1, FS_Subset
<1>4. Cardinality(ActiveOn(d)') \in Nat /\ Cardinality(Issuers(d)') \in Nat
  BY <1>2, <1>3, FS_CardinalityType
<1>5. Cardinality(ActiveOn(d)') + Cardinality(Issuers(d)') <= Cardinality(Workers)
  BY <1>1, <1>2, <1>3, <1>4 DEF RoomOn
<1> QED
  BY <1>2, <1>5 DEF RoomOn

LEMMA RoomInvariant == Spec => []Room
<1>1. Init => Room
  <2> SUFFICES ASSUME Init, NEW d \in Deployments PROVE RoomOn(d)
    BY DEF Room
  <2>1. ActiveOn(d) = {}
    BY NoneIsNoValue DEF Init, ActiveOn, NoLicense
  <2> QED
    BY <2>1, Counts, FS_EmptySet DEF RoomOn
<1>2. Rows /\ Room /\ [Next]_vars => Room'
  <2> SUFFICES ASSUME Rows, Room, [Next]_vars, NEW d \in Deployments PROVE RoomOn(d)'
    BY DEF Room
  <2>1. RoomOn(d) /\ sessions \in [Workers -> Sessions] /\ licenses \in [Licenses -> LicenseRows]
    BY DEF Room, Rows, TypeOK, LicenseRows
  <2>2. ASSUME NEW w \in Workers, NEW new, new.step # "issue",
               sessions' = [sessions EXCEPT ![w] = new], ActiveOn(d)' \subseteq ActiveOn(d)
        PROVE  RoomOn(d)'
    <3>1. Issuers(d)' \subseteq Issuers(d)
      BY <2>1, <2>2 DEF Issuers
    <3> QED
      BY <2>1, <2>2, <3>1, RoomKept
  <2>3. licenses' = licenses => ActiveOn(d)' = ActiveOn(d)
    BY DEF ActiveOn
  <2>4. Idle.step = "idle"
    BY DEF Idle
  <2>5. ASSUME NEW w \in Workers, NEW s \in Subscriptions, NEW p \in Plans, CreateCheck(w, s, p)
        PROVE  RoomOn(d)'
    BY <2>2, <2>3, <2>5 DEF CreateCheck, Go, tables
  <2>6. ASSUME NEW w \in Workers, NEW s \in Subscriptions, NEW status, Change(w, s, status)
        PROVE  RoomOn(d)'
    BY <2>2, <2>3, <2>6 DEF Change, Go, tables
  <2>7. ASSUME NEW w \in Workers, NEW s \in Subscriptions, NEW e \in Deployments,
               IssueLoad(w, e, s)
        PROVE  RoomOn(d)'
    BY <2>2, <2>3, <2>7 DEF IssueLoad, Go, tables
  <2>8. ASSUME NEW w \in Workers, NEW l \in Licenses, RevokeLoad(w, l) PROVE RoomOn(d)'
    BY <2>2, <2>3, <2>8 DEF RevokeLoad, Go, tables
  <2>9. ASSUME NEW w \in Workers, CreateCommit(w) \/ ChangeCommit(w) \/ Fail(w)
        PROVE  RoomOn(d)'
    BY <2>2, <2>3, <2>4, <2>9 DEF CreateCommit, ChangeCommit, Fail, Done, tables
  <2>10. ASSUME NEW w \in Workers, IssueCheck(w) PROVE RoomOn(d)'
    <3>1. CASE sessions[w].arg = d
      <4>1. ActiveOn(d)' = {}
        BY <2>3, <2>10, <3>1 DEF IssueCheck, tables
      <4>2. Cardinality(Issuers(d)') \in Nat /\ Cardinality(Issuers(d)') <= Cardinality(Workers)
        BY WorkersAreFinite, FS_Subset, FS_CardinalityType DEF Issuers
      <4>3. IsFiniteSet(ActiveOn(d)') /\ Cardinality(ActiveOn(d)') = 0
        BY <4>1, FS_EmptySet
      <4> QED
        BY <4>2, <4>3 DEF RoomOn
    <3>2. CASE sessions[w].arg # d
      <4>1. sessions[w] \in [step : {"check", "issue"}, id : Subscriptions, arg : Deployments,
                             seen : Statuses]
        BY <2>1, <2>10 DEF IssueCheck, Sessions, Idle
      <4>2. /\ sessions' = [sessions EXCEPT ![w] = [sessions[w] EXCEPT !.step = "issue"]]
            /\ [sessions[w] EXCEPT !.step = "issue"].arg = sessions[w].arg
        BY <2>10, <4>1 DEF IssueCheck
      <4>3. Issuers(d)' \subseteq Issuers(d)
        BY <2>1, <3>2, <4>2 DEF Issuers
      <4> QED
        BY <2>1, <2>3, <2>10, <4>3, RoomKept DEF IssueCheck, tables
    <3> QED
      BY <3>1, <3>2
  <2>11. ASSUME NEW w \in Workers, NEW l \in Licenses, IssueCommit(w, l) PROVE RoomOn(d)'
    <3> DEFINE row == [status |-> "ACTIVE", dep |-> sessions[w].arg, sub |-> sessions[w].id]
    <3>1. /\ licenses'[l] = row /\ \A m \in Licenses \ {l} : licenses'[m] = licenses[m]
          /\ row.dep = sessions[w].arg /\ licenses[l].status # "ACTIVE"
      BY <2>1, <2>11, NoneIsNoValue DEF IssueCommit, Statuses
    <3>2. CASE sessions[w].arg = d
      <4>1. ActiveOn(d)' = ActiveOn(d) \cup {l} /\ l \notin ActiveOn(d)
        BY <3>1, <3>2 DEF ActiveOn
      <4>2. Issuers(d)' = Issuers(d) \ {w} /\ w \in Issuers(d)
        BY <2>1, <2>4, <2>11, <3>2 DEF Issuers, IssueCommit, Done
      <4>3. /\ IsFiniteSet(ActiveOn(d)')
            /\ Cardinality(ActiveOn(d)') = Cardinality(ActiveOn(d)) + 1
        BY <2>1, <4>1, FS_AddElement DEF RoomOn
      <4>4. Cardinality(Issuers(d)') = Cardinality(Issuers(d)) - 1
        BY <4>2, Counts, FS_RemoveElement
      <4>5. /\ Cardinality(ActiveOn(d)) \in Nat /\ Cardinality(Issuers(d)) \in Nat
            /\ Cardinality(Workers) \in Nat
        BY <2>1, Counts, FS_CardinalityType DEF RoomOn
      <4> QED
        BY <2>1, <4>3, <4>4, <4>5 DEF RoomOn
    <3>3. CASE sessions[w].arg # d
      <4>1. ActiveOn(d)' \subseteq ActiveOn(d)
        BY <3>1, <3>3 DEF ActiveOn
      <4> QED
        BY <2>2, <2>4, <2>11, <4>1 DEF IssueCommit, Done
    <3> QED
      BY <3>2, <3>3
  <2>12. ASSUME NEW w \in Workers, RevokeCommit(w) PROVE RoomOn(d)'
    <3> DEFINE l == sessions[w].id
    <3>1. l \in Licenses
      BY <2>1, <2>12 DEF RevokeCommit, Sessions, Idle
    <3>2. licenses[l] \in [status : {"ACTIVE", "REVOKED"}, dep : Deployments, sub : Subscriptions]
      BY <2>1, <2>12, <3>1 DEF RevokeCommit, Rows, SessionRows, LicenseRows, NoLicense
    <3>3. /\ licenses'[l].status = "REVOKED"
          /\ \A m \in Licenses \ {l} : licenses'[m] = licenses[m]
      BY <2>1, <2>12, <3>1, <3>2 DEF RevokeCommit
    <3>4. ActiveOn(d)' \subseteq ActiveOn(d)
      BY <3>3 DEF ActiveOn
    <3> QED
      BY <2>2, <2>4, <2>12, <3>4 DEF RevokeCommit, Done
  <2>13. CASE UNCHANGED vars
    BY <2>1, <2>3, <2>13, RoomKept DEF vars, tables, Issuers
  <2>14. ASSUME NEW w \in Workers, NEW e \in Deployments, CreateDeployment(w, e)
         PROVE  RoomOn(d)'
    BY <2>1, <2>3, <2>14, RoomKept DEF CreateDeployment, Issuers
  <2>15. ASSUME NEW w \in Workers, NEW step \in {"modify", "retire"}, NEW e \in Deployments,
                NEW status, DeploymentLoad(w, step, e, status)
         PROVE  RoomOn(d)'
    BY <2>2, <2>3, <2>15 DEF DeploymentLoad, Go, tables
  <2>16. ASSUME NEW w \in Workers, ModifyCommit(w) \/ RetireCommit(w) PROVE RoomOn(d)'
    BY <2>2, <2>3, <2>4, <2>16 DEF ModifyCommit, RetireCommit, Done
  <2> QED
    BY <2>5, <2>6, <2>7, <2>8, <2>9, <2>10, <2>11, <2>12, <2>13, <2>14, <2>15, <2>16
       DEF Next, UpdateLoad, SuspendLoad, CancelLoad
<1> QED
  BY <1>1, <1>2, RowsInvariant, PTL DEF Spec

(* However many requests to issue a license arrive together, a deployment    *)
(* never has more active licenses than the server runs handlers.             *)
THEOREM DuplicatesAreBounded == Spec => []DuplicatesBounded
<1>1. Room => DuplicatesBounded
  <2> SUFFICES ASSUME Room, NEW d \in Deployments
               PROVE  Cardinality(ActiveOn(d)) <= Cardinality(Workers)
    BY DEF DuplicatesBounded
  <2>1. /\ RoomOn(d) /\ Cardinality(ActiveOn(d)) \in Nat /\ Cardinality(Issuers(d)) \in Nat
        /\ Cardinality(Workers) \in Nat
    BY Counts, FS_CardinalityType DEF Room, RoomOn
  <2> QED
    BY <2>1 DEF RoomOn
<1> QED
  BY <1>1, RoomInvariant, PTL

-------------------------------------------------------------------------------
(* Until requests overlap, what a handler has checked stays true until it     *)
(* commits.                                                                   *)
OneAtATime ==
  \A v, w \in Workers : v = w \/ sessions[v].step = "idle" \/ sessions[w].step = "idle"

Stands(w) ==
  /\ sessions[w].step \in {"check", "issue"} => Entitled(subs[sessions[w].id].status)
  /\ sessions[w].step = "issue" => ActiveOn(sessions[w].arg) = {}
  /\ sessions[w].step = "create" => Live(sessions[w].arg) = {}

SingleActive == \A d \in Deployments : \A l, m \in ActiveOn(d) : l = m

AloneInv ==
  /\ overlapped \in BOOLEAN
  /\ ~overlapped => OneAtATime /\ (\A w \in Workers : Stands(w)) /\ SingleActive

LEMMA NoOverlap ==
  ASSUME NEW ss \in [Workers -> Sessions], ~Overlap(ss), NEW v \in Workers, NEW w \in Workers
  PROVE  v = w \/ ss[v].step = "idle" \/ ss[w].step = "idle"
<1> SUFFICES ASSUME v # w, ss[v].step # "idle", ss[w].step # "idle" PROVE FALSE
  OBVIOUS
<1>1. {v, w} \subseteq Busy(ss) /\ Busy(ss) \subseteq Workers
  BY DEF Busy
<1>2. IsFiniteSet(Busy(ss))
  BY <1>1, WorkersAreFinite, FS_Subset
<1>3. Cardinality({v, w}) = 2
  <2>1. IsFiniteSet({v}) /\ Cardinality({v}) = 1
    BY FS_Singleton
  <2>2. {v, w} = {v} \cup {w} /\ w \notin {v}
    OBVIOUS
  <2>3. Cardinality({v} \cup {w}) = Cardinality({v}) + 1
    BY <2>1, <2>2, FS_AddElement
  <2> QED
    BY <2>1, <2>2, <2>3
<1>4. Cardinality({v, w}) <= Cardinality(Busy(ss)) /\ Cardinality(Busy(ss)) \in Nat
  BY <1>1, <1>2, FS_Subset, FS_CardinalityType
<1> QED
  BY <1>3, <1>4 DEF Overlap

(* A step that keeps the tables and gives one handler work leaves that work   *)
(* to be checked.                                                             *)
LEMMA BeginStands ==
  ASSUME NEW w \in Workers, NEW new, sessions \in [Workers -> Sessions],
         sessions' = [sessions EXCEPT ![w] = new], UNCHANGED tables,
         \A v \in Workers : Stands(v),
         new.step \in {"check", "issue"} => Entitled(subs[new.id].status),
         new.step = "issue" => ActiveOn(new.arg) = {},
         new.step = "create" => Live(new.arg) = {}
  PROVE  \A v \in Workers : Stands(v)'
<1> SUFFICES ASSUME NEW v \in Workers PROVE Stands(v)'
  OBVIOUS
<1>1. sessions'[v] = IF v = w THEN new ELSE sessions[v]
  OBVIOUS
<1>2. subs' = subs /\ licenses' = licenses
  BY DEF tables
<1>3. Stands(v)
  OBVIOUS
<1> QED
  BY <1>1, <1>2, <1>3 DEF Stands, ActiveOn, Live

(* A handler that writes is alone, so that nothing waits to be written.       *)
LEMMA EndStands ==
  ASSUME NEW w \in Workers, sessions \in [Workers -> Sessions], OneAtATime,
         sessions[w].step # "idle", Done(w)
  PROVE  \A v \in Workers : Stands(v)'
<1>1. \A v \in Workers : sessions'[v].step = "idle"
  BY DEF OneAtATime, Done, Idle
<1> QED
  BY <1>1 DEF Stands

LEMMA AloneStep ==
  ASSUME Rows, Rows', OneAtATime, \A w \in Workers : Stands(w), SingleActive, [Next]_vars
  PROVE  (\A w \in Workers : Stands(w)') /\ SingleActive' /\ ChecksStand
<1>1. /\ subs \in [Subscriptions -> SubRows] /\ licenses \in [Licenses -> LicenseRows]
      /\ sessions \in [Workers -> Sessions]
  BY DEF Rows, TypeOK, SubRows, LicenseRows
<1>2. ASSUME subs' = subs, licenses' = licenses PROVE SingleActive' /\ ChecksStand
  BY <1>2 DEF SingleActive, ActiveOn, ChecksStand
<1>3. ASSUME NEW w \in Workers, NEW new, new.step \notin {"check", "issue", "create"},
             sessions' = [sessions EXCEPT ![w] = new], UNCHANGED tables
      PROVE  (\A v \in Workers : Stands(v)') /\ SingleActive' /\ ChecksStand
  BY <1>1, <1>2, <1>3, BeginStands DEF tables
<1>4. ASSUME NEW w \in Workers, NEW s \in Subscriptions, NEW p \in Plans, CreateCheck(w, s, p)
      PROVE  (\A v \in Workers : Stands(v)') /\ SingleActive' /\ ChecksStand
  BY <1>1, <1>2, <1>4, BeginStands DEF CreateCheck, Go, tables
<1>5. ASSUME NEW w \in Workers, NEW s \in Subscriptions, NEW status, Change(w, s, status)
      PROVE  (\A v \in Workers : Stands(v)') /\ SingleActive' /\ ChecksStand
  BY <1>3, <1>5 DEF Change, Go
<1>6. ASSUME NEW w \in Workers, NEW s \in Subscriptions, NEW d \in Deployments,
             IssueLoad(w, d, s)
      PROVE  (\A v \in Workers : Stands(v)') /\ SingleActive' /\ ChecksStand
  BY <1>1, <1>2, <1>6, BeginStands DEF IssueLoad, Go, tables
<1>7. ASSUME NEW w \in Workers, IssueCheck(w)
      PROVE  (\A v \in Workers : Stands(v)') /\ SingleActive' /\ ChecksStand
  <2> DEFINE new == [sessions[w] EXCEPT !.step = "issue"]
  <2>1. sessions[w] \in [step : {"check", "issue"}, id : Subscriptions, arg : Deployments,
                         seen : Statuses]
    BY <1>1, <1>7 DEF IssueCheck, Sessions, Idle
  <2>2. new.step = "issue" /\ new.id = sessions[w].id /\ new.arg = sessions[w].arg
    BY <2>1
  <2>3. sessions' = [sessions EXCEPT ![w] = new]
    BY <1>7 DEF IssueCheck
  <2>4. Entitled(subs[sessions[w].id].status) /\ ActiveOn(sessions[w].arg) = {}
    BY <1>7 DEF IssueCheck, Stands
  <2> HIDE DEF new
  <2> QED
    BY <1>1, <1>2, <1>7, <2>2, <2>3, <2>4, BeginStands DEF IssueCheck, tables
<1>8. ASSUME NEW w \in Workers, NEW l \in Licenses, RevokeLoad(w, l)
      PROVE  (\A v \in Workers : Stands(v)') /\ SingleActive' /\ ChecksStand
  BY <1>3, <1>8 DEF RevokeLoad, Go
<1>9. ASSUME NEW w \in Workers, CreateCommit(w)
      PROVE  (\A v \in Workers : Stands(v)') /\ SingleActive' /\ ChecksStand
  <2>1. SingleActive'
    BY <1>9 DEF CreateCommit, SingleActive, ActiveOn
  <2>2. \A s \in Subscriptions :
          subs[s].status = None /\ subs'[s].status # None => subs'[s].plan = sessions[w].arg
    BY <1>1, <1>9 DEF CreateCommit
  <2>3. ChecksStand
    BY <1>9, <2>2 DEF CreateCommit, ChecksStand, Stands
  <2> QED
    BY <1>1, <1>9, <2>1, <2>3, EndStands DEF CreateCommit
<1>10. ASSUME NEW w \in Workers, ChangeCommit(w)
       PROVE  (\A v \in Workers : Stands(v)') /\ SingleActive' /\ ChecksStand
  <2>1. SingleActive'
    BY <1>10 DEF ChangeCommit, SingleActive, ActiveOn
  <2>2. subs[sessions[w].id].status # None
    BY <1>10 DEF ChangeCommit, Rows, SessionRows
  <2>3. \A s \in Subscriptions : subs[s].status = None => subs'[s] = subs[s]
    BY <1>1, <1>10, <2>2 DEF ChangeCommit
  <2>4. ChecksStand
    BY <1>10, <2>3 DEF ChangeCommit, ChecksStand
  <2> QED
    BY <1>1, <1>10, <2>1, <2>4, EndStands DEF ChangeCommit
<1>11. ASSUME NEW w \in Workers, NEW l \in Licenses, IssueCommit(w, l)
       PROVE  (\A v \in Workers : Stands(v)') /\ SingleActive' /\ ChecksStand
  <2> DEFINE row == [status |-> "ACTIVE", dep |-> sessions[w].arg, sub |-> sessions[w].id]
  <2>1. /\ licenses'[l] = row /\ \A m \in Licenses \ {l} : licenses'[m] = licenses[m]
        /\ row.dep = sessions[w].arg /\ row.sub = sessions[w].id
    BY <1>1, <1>11 DEF IssueCommit
  <2>2. ActiveOn(sessions[w].arg) = {} /\ Entitled(subs[sessions[w].id].status)
    BY <1>11 DEF IssueCommit, Stands
  <2> HIDE DEF row
  <2>3. SingleActive'
    <3> SUFFICES ASSUME NEW d \in Deployments PROVE \A m, n \in ActiveOn(d)' : m = n
      BY DEF SingleActive
    <3>1. CASE d = sessions[w].arg
      <4>1. ActiveOn(d)' \subseteq {l}
        BY <2>1, <2>2, <3>1 DEF ActiveOn
      <4> QED
        BY <4>1
    <3>2. CASE d # sessions[w].arg
      <4>1. ActiveOn(d)' \subseteq ActiveOn(d)
        BY <2>1, <3>2 DEF ActiveOn
      <4> QED
        BY <4>1 DEF SingleActive
    <3> QED
      BY <3>1, <3>2
  <2>4. ChecksStand
    BY <1>11, <2>1, <2>2 DEF IssueCommit, ChecksStand
  <2> QED
    BY <1>1, <1>11, <2>3, <2>4, EndStands DEF IssueCommit
<1>12. ASSUME NEW w \in Workers, RevokeCommit(w)
       PROVE  (\A v \in Workers : Stands(v)') /\ SingleActive' /\ ChecksStand
  <2> DEFINE l == sessions[w].id
  <2>1. l \in Licenses
    BY <1>1, <1>12 DEF RevokeCommit, Sessions, Idle
  <2>2. licenses[l] \in [status : {"ACTIVE", "REVOKED"}, dep : Deployments, sub : Subscriptions]
    BY <1>1, <1>12, <2>1 DEF RevokeCommit, Rows, SessionRows, LicenseRows, NoLicense
  <2>3. /\ licenses'[l].status = "REVOKED" /\ licenses[l].status # None
        /\ \A m \in Licenses \ {l} : licenses'[m] = licenses[m]
    BY <1>1, <1>12, <2>1, <2>2, NoneIsNoValue DEF RevokeCommit, Rows, SessionRows
  <2>4. \A d \in Deployments : ActiveOn(d)' \subseteq ActiveOn(d)
    BY <2>3 DEF ActiveOn
  <2>5. SingleActive'
    BY <2>4 DEF SingleActive
  <2>6. ChecksStand
    BY <1>12, <2>3 DEF RevokeCommit, ChecksStand
  <2> QED
    BY <1>1, <1>12, <2>5, <2>6, EndStands DEF RevokeCommit
<1>13. ASSUME NEW w \in Workers, ModifyCommit(w) \/ RetireCommit(w) \/ Fail(w)
       PROVE  (\A v \in Workers : Stands(v)') /\ SingleActive' /\ ChecksStand
  BY <1>1, <1>2, <1>13, EndStands DEF ModifyCommit, RetireCommit, Fail, tables
<1>14. ASSUME NEW w \in Workers, NEW step \in {"modify", "retire"}, NEW d \in Deployments,
              NEW status, DeploymentLoad(w, step, d, status)
       PROVE  (\A v \in Workers : Stands(v)') /\ SingleActive' /\ ChecksStand
  BY <1>3, <1>14 DEF DeploymentLoad, Go
<1>15. ASSUME subs' = subs, licenses' = licenses, sessions' = sessions
       PROVE  (\A v \in Workers : Stands(v)') /\ SingleActive' /\ ChecksStand
  BY <1>2, <1>15 DEF Stands, ActiveOn, Live
<1> QED
  BY <1>4, <1>5, <1>6, <1>7, <1>8, <1>9, <1>10, <1>11, <1>12, <1>13, <1>14, <1>15
     DEF Next, UpdateLoad, SuspendLoad, CancelLoad, CreateDeployment, vars, tables

LEMMA AloneInvariant == MCSpec => [](Rows /\ AloneInv) /\ ChecksStandAlone
<1>1. MCInit => Init /\ AloneInv
  <2> SUFFICES ASSUME MCInit PROVE Init /\ AloneInv
    OBVIOUS
  <2>1. Init /\ overlapped = FALSE /\ \A w \in Workers : sessions[w].step = "idle"
    BY DEF MCInit, Init, Idle
  <2>2. OneAtATime /\ \A w \in Workers : Stands(w)
    BY <2>1 DEF OneAtATime, Stands
  <2>3. \A d \in Deployments : ActiveOn(d) = {}
    BY <2>1, NoneIsNoValue DEF Init, ActiveOn, NoLicense, Statuses
  <2> QED
    BY <2>1, <2>2, <2>3 DEF AloneInv, SingleActive
<1>2. [MCNext]_<<vars, overlapped>> => [Next]_vars
  BY DEF MCNext
<1>3. MCSpec => Spec
  BY <1>1, <1>2, PTL DEF MCSpec, Spec
<1>4. ASSUME AloneInv, [MCNext]_<<vars, overlapped>>
      PROVE  /\ overlapped' \in BOOLEAN /\ (overlapped => overlapped')
             /\ overlapped' = overlapped \/ overlapped' = Overlap(sessions')
             /\ ~overlapped' => ~Overlap(sessions') \/ sessions' = sessions
  <2>1. CASE MCNext
    <3>1. overlapped' = (overlapped \/ Overlap(sessions')) /\ Overlap(sessions') \in BOOLEAN
      BY <2>1 DEF MCNext, Overlap
    <3> QED
      BY <1>4, <3>1 DEF AloneInv
  <2>2. CASE UNCHANGED <<vars, overlapped>>
    BY <1>4, <2>2 DEF AloneInv, vars
  <2> QED
    BY <1>4, <2>1, <2>2
<1>5. Rows /\ Rows' /\ AloneInv /\ [MCNext]_<<vars, overlapped>> =>
        AloneInv' /\ (~overlapped => ChecksStand)
  <2> SUFFICES ASSUME Rows, Rows', AloneInv, [MCNext]_<<vars, overlapped>>
               PROVE  AloneInv' /\ (~overlapped => ChecksStand)
    OBVIOUS
  <2>1. CASE overlapped
    BY <1>4, <2>1 DEF AloneInv
  <2>2. CASE ~overlapped
    <3>1. OneAtATime /\ (\A w \in Workers : Stands(w)) /\ SingleActive
      BY <2>2 DEF AloneInv
    <3>2. (\A w \in Workers : Stands(w)') /\ SingleActive' /\ ChecksStand
      BY <1>2, <3>1, AloneStep
    <3>3. ~Overlap(sessions') => OneAtATime'
      BY NoOverlap DEF OneAtATime, Rows, TypeOK
    <3>4. sessions' = sessions => OneAtATime'
      BY <3>1 DEF OneAtATime
    <3>5. ~overlapped' => OneAtATime'
      BY <1>4, <3>3, <3>4
    <3> QED
      BY <1>4, <3>2, <3>5 DEF AloneInv
  <2> QED
    BY <2>1, <2>2
<1> QED
  BY <1>1, <1>3, <1>5, RowsInvariant, PTL DEF MCSpec, ChecksStandAlone

(* Until requests overlap a deployment has at most one active license.        *)
THEOREM OneActiveUntilOverlap == MCSpec => []OneActiveLicenseAlone
<1>1. AloneInv => OneActiveLicenseAlone
  <2> SUFFICES ASSUME SingleActive, NEW d \in Deployments PROVE Cardinality(ActiveOn(d)) <= 1
    BY DEF AloneInv, OneActiveLicenseAlone, OneActiveLicense
  <2>1. CASE ActiveOn(d) = {}
    BY <2>1, FS_EmptySet
  <2>2. CASE ActiveOn(d) # {}
    <3>1. PICK l \in ActiveOn(d) : TRUE
      BY <2>2
    <3>2. ActiveOn(d) = {l}
      BY <3>1 DEF SingleActive
    <3>3. Cardinality(ActiveOn(d)) = 1
      BY <3>2, FS_Singleton
    <3> QED
      BY <3>3
  <2> QED
    BY <2>1, <2>2
<1> QED
  BY <1>1, AloneInvariant, PTL

(* Until requests overlap, what a handler has checked stands when it commits. *)
THEOREM ChecksStandUntilOverlap == MCSpec => ChecksStandAlone
  BY AloneInvariant, PTL

==================================================================================
