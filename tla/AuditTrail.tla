------------------------------- MODULE AuditTrail -------------------------------
(***************************************************************************)
(* The audit log: domain events published by the services, the in-process  *)
(* event bus and the listener that turns events into rows of audit_logs    *)
(* (app/events/bus.py, app/services/audit_service.py, app/core/database.py *)
(* and the publishing services).                                           *)
(*                                                                         *)
(* A service either flushes its change and leaves the commit to the end of *)
(* the request, or commits first and publishes afterwards.  The listener   *)
(* adds its row to the session of the caller; the end of the request       *)
(* commits whatever that session holds.                                    *)
(***************************************************************************)
EXTENDS Naturals, FiniteSets

CONSTANTS
  Requests,      \* requests that may be in progress at the same time
  MaxChanges,    \* bound on the committed changes of each operation
  NoOp           \* the operation of a request that has none

ASSUME MaxChangesIsNat == MaxChanges \in Nat

(* The kinds of operations that publish: the bus of the service's module,    *)
(* and whether the operation commits before it publishes.                    *)
(*   global, at the end: products, releases, deployments (create, update)    *)
(*   global, first:      deployments (delete)                                *)
(*   local, at the end:  organizations, capabilities, subscriptions (create, *)
(*                       update), plans (update)                             *)
(*   local, first:       subscriptions (suspend, cancel), licenses, plans    *)
Ops == [bus : {"global", "local"}, first : BOOLEAN]

ASSUME NoOpIsNotOp == NoOp \notin Ops

VARIABLES
  changed,       \* committed changes of each operation
  audited,       \* committed audit rows of each operation
  requests       \* the operation, and whether the session holds an audit row

auditVars == <<changed, audited, requests>>

AuditIdle == [step |-> "idle", op |-> NoOp, row |-> FALSE]

AuditInit ==
  /\ changed = [op \in Ops |-> 0]
  /\ audited = [op \in Ops |-> 0]
  /\ requests = [w \in Requests |-> AuditIdle]

-------------------------------------------------------------------------------
(* setup_audit_logging subscribes the listener to the global bus only.       *)
Subscribed(op) == op.bus = "global"

(* A change is flushed, or committed at once.                                *)
Change(w, op) ==
  /\ requests[w].step = "idle"
  /\ changed[op] < MaxChanges
  /\ changed' = IF op.first THEN [changed EXCEPT ![op] = @ + 1] ELSE changed
  /\ requests' = [requests EXCEPT ![w] = [step |-> "publish", op |-> op, row |-> FALSE]]
  /\ UNCHANGED audited

CommitEarly(w) ==                                       \* mutant of Publish
  /\ requests[w].step = "publish"
  /\ audited' = IF Subscribed(requests[w].op)
                THEN [audited EXCEPT ![requests[w].op] = @ + 1] ELSE audited
  /\ requests' = [requests EXCEPT ![w].step = "end"]
  /\ UNCHANGED changed

(* publish runs the handlers before it returns, and swallows what they       *)
(* raise; the listener only adds the row.                                    *)
Publish(w) ==
  /\ requests[w].step = "publish"
  /\ requests' = [requests EXCEPT ![w].step = "end", ![w].row = Subscribed(requests[w].op)]
  /\ UNCHANGED <<changed, audited>>

CommitChangeOnly(w) ==                                  \* mutant of End
  LET s == requests[w]
  IN  /\ s.step = "end"
      /\ changed' = IF s.op.first THEN changed ELSE [changed EXCEPT ![s.op] = @ + 1]
      /\ requests' = [requests EXCEPT ![w] = AuditIdle]
      /\ UNCHANGED audited

(* get_db_session commits what the handler left, after the answer is sent.   *)
End(w) ==
  LET s == requests[w]
  IN  /\ s.step = "end"
      /\ changed' = IF s.op.first THEN changed ELSE [changed EXCEPT ![s.op] = @ + 1]
      /\ audited' = IF s.row THEN [audited EXCEPT ![s.op] = @ + 1] ELSE audited
      /\ requests' = [requests EXCEPT ![w] = AuditIdle]

(* An exception rolls back what is not committed; so does a crash.           *)
Abort(w) ==
  /\ requests[w].step # "idle"
  /\ requests' = [requests EXCEPT ![w] = AuditIdle]
  /\ UNCHANGED <<changed, audited>>

AuditNext ==
  \E w \in Requests :
    \/ \E op \in Ops : Change(w, op)
    \/ Publish(w) \/ End(w) \/ Abort(w)

AuditSpec == AuditInit /\ [][AuditNext]_auditVars

-------------------------------------------------------------------------------
(* The log tells of nothing that did not happen: no operation has more audit *)
(* rows than committed changes, also when requests fail after publishing.    *)
AuditSound == \A op \in Ops : audited[op] <= changed[op]

(* A change committed at the end of its request has its audit row, whatever  *)
(* fails: the two are one transaction.                                       *)
AuditAtomic == \A op \in Ops : Subscribed(op) /\ ~op.first => audited[op] = changed[op]

(* "Listens for DomainEvents and writes them to the AuditLog table.": a      *)
(* request that has published its event has the event's row in its session.  *)
EveryEventAudited ==
  \A w \in Requests : requests[w].step = "end" => requests[w].row

===============================================================================
