--------------------------- MODULE AdministrationProofs ---------------------------
(***************************************************************************)
(* The accounts and the audit log.  An active owner remains until requests *)
(* overlap, and only a request whose author was ousted leaves none; the    *)
(* log tells of nothing that did not happen.  For any accounts, roles and  *)
(* concurrent requests.                                                    *)
(***************************************************************************)
EXTENDS MCUserAccounts, AuditTrail, FiniteSetTheorems, TLAPS

Account == [role : Roles \cup {None}, active : BOOLEAN]

Session ==
  [step : {"idle", "load", "count", "commit", "insert"}, actor : Users \cup {None},
   target : Users \cup {None}, patch : Patches, seen : Account]

(* A request about to count or to commit does not demote its own author, and *)
(* the body of a creation has every column.                                  *)
Checked(s) ==
  /\ s.step # "idle" => s.actor \in Users /\ s.target \in Users
  /\ s.step \in {"count", "commit"} => SelfAllowed(s.actor, s.target, s.patch)
  /\ s.step = "insert" => s.patch \in Account

Rows ==
  /\ users \in [Users -> Account]
  /\ up \in BOOLEAN
  /\ sessions \in [Workers -> Session]
  /\ \A w \in Workers : Checked(sessions[w])

LEMMA IdleIsChecked == Idle \in Session /\ Checked(Idle)
BY DEF Idle, Session, Checked, NoPatch, NoAccount, Patches, Account, Roles

(* The work a request begins.                                                *)
LEMMA AuthorisedIsChecked ==
  ASSUME Rows, NEW w \in Workers, NEW a \in Users, NEW t \in Users, NEW p \in Patches,
         NEW step \in {"load", "insert"}, step = "insert" => p \in Account,
         Authorise(w, a, t, p, step)
  PROVE  Rows'
<1>1. [step |-> step, actor |-> a, target |-> t, patch |-> p, seen |-> users[a]] \in Session
  BY DEF Rows, Session
<1>2. Checked([step |-> step, actor |-> a, target |-> t, patch |-> p, seen |-> users[a]])
  BY DEF Checked
<1> QED
  BY <1>1, <1>2 DEF Rows, Authorise

LEMMA PatchedIsAccount ==
  ASSUME NEW row \in Account, NEW patch \in Patches, NEW seen
  PROVE  [role   |-> Patched(row.role, seen.role, patch.role),
          active |-> Patched(row.active, seen.active, patch.active)] \in Account
<1>1. Patched(row.role, seen.role, patch.role) \in Roles \cup {None}
  BY DEF Account, Patches, Patched
<1>2. Patched(row.active, seen.active, patch.active) \in BOOLEAN
  BY DEF Account, Patches, Patched
<1> QED
  BY <1>1, <1>2 DEF Account

LEMMA RowsInvariant == Spec => []Rows
<1>1. Init => Rows
  <2> SUFFICES ASSUME Init PROVE Rows
    OBVIOUS
  <2>1. NoAccount \in Account
    BY DEF NoAccount, Account
  <2>2. \A w \in Workers : sessions[w] = Idle
    BY DEF Init
  <2> QED
    BY <2>1, <2>2, IdleIsChecked DEF Init, Rows
<1>2. Rows /\ [Next]_vars => Rows'
  <2> SUFFICES ASSUME Rows, [Next]_vars PROVE Rows'
    OBVIOUS
  <2>1. CASE Start
    <3>1. [role |-> "OWNER", active |-> TRUE] \in Account
      BY DEF Account, Roles
    <3> QED
      BY <2>1, <3>1 DEF Start, Rows
  <2>2. CASE Stop
    BY <2>2, IdleIsChecked DEF Stop, Rows
  <2>3. ASSUME NEW w \in Workers, NEW a \in Users, NEW t \in Users, NEW p \in Patches,
               BeginUpdate(w, a, t, p)
        PROVE  Rows'
    BY <2>3, AuthorisedIsChecked DEF BeginUpdate
  <2>4. ASSUME NEW w \in Workers, NEW a \in Users, NEW t \in Users, NEW p \in Patches,
               BeginCreate(w, a, t, p)
        PROVE  Rows'
    <3>1. p \in Account
      BY <2>4 DEF BeginCreate, Patches, Account
    <3> QED
      BY <2>4, <3>1, AuthorisedIsChecked DEF BeginCreate
  <2>5. ASSUME NEW w \in Workers, LoadTarget(w) PROVE Rows'
    <3> DEFINE s == sessions[w]
    <3> DEFINE seen == IF s.target = s.actor THEN s.seen ELSE users[s.target]
    <3> DEFINE step == IF seen.role = "OWNER" /\ Demotes(s.patch) THEN "count" ELSE "commit"
    <3>1. s \in Session /\ s.actor \in Users /\ s.target \in Users /\ SelfAllowed(s.actor, s.target, s.patch)
      BY <2>5 DEF LoadTarget, Rows, Checked
    <3>2. seen \in Account /\ step \in {"count", "commit"}
      BY <3>1 DEF Rows, Session
    <3>3. sessions' = [sessions EXCEPT ![w].seen = seen, ![w].step = step]
      BY <2>5 DEF LoadTarget
    <3> HIDE DEF seen, step
    <3>4. sessions'[w] \in Session /\ Checked(sessions'[w])
      BY <3>1, <3>2, <3>3 DEF Rows, Session, Checked
    <3> QED
      BY <2>5, <3>3, <3>4 DEF LoadTarget, Rows
  <2>6. ASSUME NEW w \in Workers, CountOwners(w) PROVE Rows'
    <3>1. sessions[w] \in Session /\ Checked(sessions[w]) /\ sessions[w].step = "count"
      BY <2>6 DEF CountOwners, Rows
    <3>2. sessions'[w] = [sessions[w] EXCEPT !.step = "commit"]
      BY <2>6 DEF CountOwners, Rows
    <3>3. sessions'[w] \in Session /\ Checked(sessions'[w])
      BY <3>1, <3>2 DEF Session, Checked
    <3> QED
      BY <2>6, <3>3 DEF CountOwners, Rows
  <2>7. ASSUME NEW w \in Workers, CommitUpdate(w) PROVE Rows'
    <3> DEFINE s == sessions[w]
    <3>1. s.target \in Users /\ s.patch \in Patches /\ users[s.target] \in Account
      BY <2>7 DEF CommitUpdate, Rows, Checked, Session
    <3>2. [role   |-> Patched(users[s.target].role, s.seen.role, s.patch.role),
           active |-> Patched(users[s.target].active, s.seen.active, s.patch.active)] \in Account
      BY <3>1, PatchedIsAccount
    <3>3. users' \in [Users -> Account]
      BY <2>7, <3>2 DEF CommitUpdate, Rows
    <3> QED
      BY <2>7, <3>3, IdleIsChecked DEF CommitUpdate, Rows
  <2>8. ASSUME NEW w \in Workers, CommitCreate(w) PROVE Rows'
    BY <2>8, IdleIsChecked DEF CommitCreate, Rows, Checked
  <2>9. ASSUME NEW w \in Workers, Fail(w) PROVE Rows'
    BY <2>9, IdleIsChecked DEF Fail, Rows
  <2>10. CASE UNCHANGED vars
    BY <2>10 DEF vars, Rows
  <2> QED
    BY <2>1, <2>2, <2>3, <2>4, <2>5, <2>6, <2>7, <2>8, <2>9, <2>10 DEF Next
<1> QED
  BY <1>1, <1>2, PTL DEF Spec

-------------------------------------------------------------------------------
(* A request that does not demote leaves an active owner one.                *)
LEMMA KeepsOwner ==
  ASSUME NEW patch \in Patches, ~Demotes(patch), NEW seen, NEW row \in Account,
         row.role = "OWNER", row.active
  PROVE  /\ Patched(row.role, seen.role, patch.role) = "OWNER"
         /\ Patched(row.active, seen.active, patch.active)
<1>1. patch.role \in {None, "OWNER"} /\ patch.active \in {None, TRUE}
  BY DEF Patches, Demotes, Roles
<1>2. Patched(row.role, seen.role, patch.role) \in {row.role, "OWNER"}
  BY <1>1 DEF Patched
<1>3. row.active = TRUE
  BY DEF Account
<1>4. Patched(row.active, seen.active, patch.active) = TRUE
  BY <1>1, <1>3 DEF Patched
<1> QED
  BY <1>2, <1>4

(* A commit that acts for an active owner leaves one.                        *)
LEMMA CommitKeepsOwner ==
  ASSUME Rows, NEW w \in Workers, CommitUpdate(w), ActiveOwner(sessions[w].actor)
  PROVE  OwnerExists'
<1> DEFINE s == sessions[w]
<1> DEFINE row == [role   |-> Patched(users[s.target].role, s.seen.role, s.patch.role),
                   active |-> Patched(users[s.target].active, s.seen.active, s.patch.active)]
<1>1. /\ s.actor \in Users /\ s.target \in Users /\ s.patch \in Patches
      /\ SelfAllowed(s.actor, s.target, s.patch)
      /\ users' = [users EXCEPT ![s.target] = row]
  BY DEF CommitUpdate, Rows, Checked, Session
<1>2. CASE s.actor # s.target
  <2>1. users'[s.actor] = users[s.actor]
    BY <1>1, <1>2 DEF Rows
  <2> QED
    BY <1>1, <2>1 DEF ActiveOwner, OwnerExists
<1>3. CASE s.actor = s.target
  <2>1. row.role = "OWNER" /\ row.active
    BY <1>1, <1>3, KeepsOwner DEF SelfAllowed, ActiveOwner, Rows
  <2>2. users'[s.actor] = row
    BY <1>1, <1>3 DEF Rows
  <2> QED
    BY <1>1, <2>1, <2>2 DEF ActiveOwner, OwnerExists
<1> QED
  BY <1>2, <1>3

(* What the other steps do to the accounts: none disables an active owner.   *)
LEMMA OthersKeepOwners ==
  ASSUME Rows, [Next]_vars, \A w \in Workers : ~CommitUpdate(w), NEW u \in Users, ActiveOwner(u)
  PROVE  ActiveOwner(u)'
<1>1. CASE Start
  <2>1. users' = users \/ (\A v \in Users : users[v].role # "OWNER")
    BY <1>1 DEF Start
  <2> QED
    BY <2>1 DEF ActiveOwner
<1>2. ASSUME NEW w \in Workers, CommitCreate(w) PROVE ActiveOwner(u)'
  <2>1. sessions[w].target # u
    BY <1>2, NoneIsNoRole DEF CommitCreate, ActiveOwner
  <2> QED
    BY <1>2, <2>1 DEF CommitCreate, ActiveOwner, Rows
<1>3. CASE UNCHANGED users
  BY <1>3 DEF ActiveOwner
<1> QED
  BY <1>1, <1>2, <1>3
  DEF Next, vars, Stop, BeginUpdate, BeginCreate, Authorise, LoadTarget, CountOwners, Fail

(* The last active owner is only lost to a request that acts for an account  *)
(* which has stopped being one since the request began.                      *)
THEOREM OnlyOustedEndIt == Spec => OnlyOustedOwnersEndIt
<1>1. Rows /\ [Next]_vars =>
        (OwnerExists /\ ~OwnerExists' =>
           \E w \in Workers : sessions[w].step = "commit" /\ ~ActiveOwner(sessions[w].actor))
  <2> SUFFICES ASSUME Rows, [Next]_vars, OwnerExists, ~OwnerExists'
               PROVE  \E w \in Workers :
                        sessions[w].step = "commit" /\ ~ActiveOwner(sessions[w].actor)
    OBVIOUS
  <2>1. PICK w \in Workers : CommitUpdate(w)
    BY OthersKeepOwners DEF OwnerExists
  <2>2. ~ActiveOwner(sessions[w].actor)
    BY <2>1, CommitKeepsOwner
  <2> QED
    BY <2>1, <2>2 DEF CommitUpdate
<1> QED
  BY <1>1, RowsInvariant, PTL DEF Spec, OnlyOustedOwnersEndIt

-------------------------------------------------------------------------------
(* Until requests overlap, the account a request acts for stays an owner, and *)
(* nobody works before the server has started for the first time.            *)
Fresh == ~up /\ \A u \in Users : users[u].role = None

ActorsOwn == \A w \in Workers : sessions[w].step # "idle" => ActiveOwner(sessions[w].actor)

OneAtATime ==
  \A v, w \in Workers : v = w \/ sessions[v].step = "idle" \/ sessions[w].step = "idle"

AloneInv ==
  /\ overlapped \in BOOLEAN
  /\ ~overlapped => OneAtATime /\ ActorsOwn /\ (OwnerExists \/ Fresh)

LEMMA NoOverlap ==
  ASSUME NEW ss \in [Workers -> Session], ~Overlap(ss), NEW v \in Workers, NEW w \in Workers
  PROVE  v = w \/ ss[v].step = "idle" \/ ss[w].step = "idle"
<1> SUFFICES ASSUME v # w, ss[v].step # "idle", ss[w].step # "idle" PROVE FALSE
  OBVIOUS
<1>1. {v, w} \subseteq Busy(ss) /\ Busy(ss) \subseteq Workers
  BY DEF Busy
<1>2. IsFiniteSet(Busy(ss))
  BY <1>1, WorkersAreFinite, FS_Subset
<1>3. Cardinality({v, w}) = 2
  <2>1. IsFiniteSet({v}) /\ Cardinality({v}) = 1
    BY FS_Singleton
  <2>2. {v, w} = {v} \cup {w} /\ w \notin {v}
    OBVIOUS
  <2>3. Cardinality({v} \cup {w}) = Cardinality({v}) + 1
    BY <2>1, <2>2, FS_AddElement
  <2> QED
    BY <2>1, <2>2, <2>3
<1>4. Cardinality({v, w}) <= Cardinality(Busy(ss)) /\ Cardinality(Busy(ss)) \in Nat
  BY <1>1, <1>2, FS_Subset, FS_CardinalityType
<1> QED
  BY <1>3, <1>4 DEF Overlap

(* A step of a request that is alone keeps its author and leaves an owner.   *)
LEMMA AloneStep ==
  ASSUME Rows, [Next]_vars, OneAtATime, ActorsOwn, OwnerExists \/ Fresh
  PROVE  ActorsOwn' /\ (OwnerExists \/ Fresh)'
<1>1. CASE \E w \in Workers : CommitUpdate(w)
  <2>1. PICK w \in Workers : CommitUpdate(w)
    BY <1>1
  <2>2. ActiveOwner(sessions[w].actor) /\ \A v \in Workers : v # w => sessions[v].step = "idle"
    BY <2>1 DEF CommitUpdate, ActorsOwn, OneAtATime
  <2>3. \A v \in Workers : sessions'[v].step = "idle"
    BY <2>1, <2>2 DEF CommitUpdate, Rows, Idle
  <2> QED
    BY <2>1, <2>2, <2>3, CommitKeepsOwner DEF ActorsOwn
<1>2. CASE ~\E w \in Workers : CommitUpdate(w)
  <2>1. \A u \in Users : ActiveOwner(u) => ActiveOwner(u)'
    BY <1>2, OthersKeepOwners
  <2>2. OwnerExists => OwnerExists'
    BY <2>1 DEF OwnerExists
  <2>3. ActorsOwn'
    <3> SUFFICES ASSUME NEW w \in Workers, sessions'[w].step # "idle"
                 PROVE  ActiveOwner(sessions[w].actor)'
      BY DEF ActorsOwn
    <3>1. sessions'[w].actor \in Users /\ ActiveOwner(sessions'[w].actor)
      <4>1. ASSUME sessions'[w].actor = sessions[w].actor, sessions[w].step # "idle"
            PROVE  sessions'[w].actor \in Users /\ ActiveOwner(sessions'[w].actor)
        BY <4>1 DEF ActorsOwn, Rows, Checked
      <4>2. ASSUME NEW v \in Workers, NEW a \in Users, NEW t \in Users, NEW p \in Patches,
                   BeginUpdate(v, a, t, p) \/ BeginCreate(v, a, t, p)
            PROVE  sessions'[w].actor \in Users /\ ActiveOwner(sessions'[w].actor)
        BY <4>1, <4>2 DEF BeginUpdate, BeginCreate, Authorise, Rows
      <4>3. ASSUME NEW v \in Workers, LoadTarget(v) \/ CountOwners(v)
            PROVE  sessions'[w].actor \in Users /\ ActiveOwner(sessions'[w].actor)
        BY <4>1, <4>3 DEF LoadTarget, CountOwners, Rows, Session
      <4>4. ASSUME NEW v \in Workers, CommitCreate(v) \/ Fail(v)
            PROVE  sessions'[w].actor \in Users /\ ActiveOwner(sessions'[w].actor)
        BY <4>1, <4>4 DEF CommitCreate, Fail, Rows, Idle
      <4>5. CASE Stop
        BY <4>5 DEF Stop, Idle
      <4>6. CASE Start \/ UNCHANGED vars
        BY <4>1, <4>6 DEF Start, vars
      <4> QED
        BY <1>2, <4>2, <4>3, <4>4, <4>5, <4>6 DEF Next
    <3> QED
      BY <2>1, <3>1 DEF ActiveOwner
  <2>4. Fresh => (OwnerExists \/ Fresh)'
    <3> SUFFICES ASSUME Fresh PROVE (OwnerExists \/ Fresh)'
      OBVIOUS
    <3>1. \A u \in Users : ~ActiveOwner(u)
      BY NoneIsNoRole DEF Fresh, ActiveOwner
    <3>2. \A w \in Workers : sessions[w].step = "idle"
      BY <3>1 DEF ActorsOwn, Rows, Checked
    <3>3. CASE Start
      <4>1. users' = [users EXCEPT ![DefaultOwner] = [role |-> "OWNER", active |-> TRUE]]
        BY <3>3, NoneIsNoRole DEF Start, Fresh
      <4> QED
        BY <4>1, DefaultIsUser DEF OwnerExists, ActiveOwner, Rows
    <3>4. CASE UNCHANGED <<users, up>>
      BY <3>4 DEF Fresh
    <3> QED
      BY <3>2, <3>3, <3>4
      DEF Next, vars, Fresh, Stop, BeginUpdate, BeginCreate, Authorise, LoadTarget, CountOwners,
          CommitUpdate, CommitCreate, Fail
  <2> QED
    BY <2>2, <2>3, <2>4
<1> QED
  BY <1>1, <1>2

LEMMA AloneInvariant == MCSpec => []AloneInv
<1>1. MCInit => Init /\ AloneInv
  <2> SUFFICES ASSUME MCInit PROVE Init /\ AloneInv
    OBVIOUS
  <2>1. Init /\ overlapped = FALSE /\ (\A w \in Workers : sessions[w].step = "idle")
    BY DEF MCInit, Init, Idle
  <2>2. Fresh
    BY <2>1 DEF Init, Fresh, NoAccount
  <2> QED
    BY <2>1, <2>2 DEF AloneInv, OneAtATime, ActorsOwn
<1>2. [MCNext]_<<vars, overlapped>> => [Next]_vars
  BY DEF MCNext
<1>3. MCSpec => Spec
  BY <1>1, <1>2, PTL DEF MCSpec, Spec
<1>4. Rows /\ Rows' /\ AloneInv /\ [MCNext]_<<vars, overlapped>> => AloneInv'
  <2> SUFFICES ASSUME Rows, Rows', AloneInv, [MCNext]_<<vars, overlapped>> PROVE AloneInv'
    OBVIOUS
  <2>1. CASE UNCHANGED <<vars, overlapped>>
    BY <2>1 DEF AloneInv, vars, OneAtATime, ActorsOwn, OwnerExists, Fresh, ActiveOwner
  <2>2. CASE MCNext
    <3>1. overlapped' = (overlapped \/ Overlap(sessions')) /\ Overlap(sessions') \in BOOLEAN
      BY <2>2 DEF MCNext, Overlap
    <3>2. ~Overlap(sessions') => OneAtATime'
      BY NoOverlap DEF OneAtATime, Rows
    <3>3. ~overlapped => ActorsOwn' /\ (OwnerExists \/ Fresh)'
      BY <1>2, AloneStep DEF AloneInv
    <3> QED
      BY <3>1, <3>2, <3>3 DEF AloneInv
  <2> QED
    BY <2>1, <2>2
<1> QED
  BY <1>1, <1>3, <1>4, RowsInvariant, PTL DEF MCSpec

(* Until requests overlap, a running server has an active owner.             *)
THEOREM OwnerKeptUntilOverlap == MCSpec => []OwnerKeptAlone
<1>1. AloneInv => OwnerKeptAlone
  BY DEF AloneInv, OwnerKeptAlone, OwnerKept, Fresh
<1> QED
  BY <1>1, AloneInvariant, PTL

(* Until requests overlap, the server can be started again.                  *)
THEOREM RestartableUntilOverlap == MCSpec => []RestartableAlone
<1>1. AloneInv => RestartableAlone
  BY DefaultIsUser DEF AloneInv, RestartableAlone, Restartable, Fresh, OwnerExists, ActiveOwner
<1> QED
  BY <1>1, AloneInvariant, PTL
--------------------------------------------------------------------------------
(* The audit log, whose requests publish events.                             *)
Working(op) == {w \in Requests : requests[w].step # "idle" /\ requests[w].op = op}

(* A session that has published holds an audit row exactly when the listener *)
(* is subscribed to its bus.                                                 *)
SessionsTyped ==
  /\ requests \in [Requests ->
       {AuditIdle} \cup [step : {"publish", "end"}, op : Ops, row : BOOLEAN]]
  /\ \A w \in Requests : requests[w].step = "end" => requests[w].row = Subscribed(requests[w].op)

CountsTyped == changed \in [Ops -> Nat] /\ audited \in [Ops -> Nat]

(* A change that is committed first is there once for every request that is  *)
(* still to publish it, beside those whose row is committed.                 *)
EarlyCounted ==
  \A op \in Ops :
    /\ IsFiniteSet(Working(op))
    /\ op.first => audited[op] + Cardinality(Working(op)) <= changed[op]

LateCounted == \A op \in Ops : ~op.first => audited[op] <= changed[op]

AuditInv == SessionsTyped /\ CountsTyped /\ EarlyCounted /\ LateCounted /\ AuditAtomic

(* A request in progress has an operation.                                   *)
LEMMA InProgress ==
  ASSUME SessionsTyped, NEW w \in Requests, requests[w].step # "idle"
  PROVE  /\ requests[w] \in [step : {"publish", "end"}, op : Ops, row : BOOLEAN]
         /\ requests[w].op \in Ops
BY DEF SessionsTyped, AuditIdle

(* An idle request that takes up an operation joins those working on it.     *)
LEMMA Joins ==
  ASSUME SessionsTyped, EarlyCounted, NEW w \in Requests, NEW op \in Ops,
         requests[w].step = "idle",
         requests' = [requests EXCEPT ![w] = [step |-> "publish", op |-> op, row |-> FALSE]]
  PROVE  /\ \A q \in Ops \ {op} : Working(q)' = Working(q)
         /\ IsFiniteSet(Working(op)')
         /\ Cardinality(Working(op)') = Cardinality(Working(op)) + 1
<1>1. \A v \in Requests \ {w} : requests'[v] = requests[v]
  BY DEF SessionsTyped
<1>2. requests'[w].step = "publish" /\ requests'[w].op = op
  BY DEF SessionsTyped
<1>3. Working(op)' = Working(op) \cup {w} /\ w \notin Working(op)
  BY <1>1, <1>2 DEF Working
<1>4. \A q \in Ops \ {op} : Working(q)' = Working(q)
  BY <1>1, <1>2 DEF Working
<1>5. IsFiniteSet(Working(op))
  BY DEF EarlyCounted
<1> QED
  BY <1>3, <1>4, <1>5, FS_AddElement

(* A request that ends leaves those working on its operation.                *)
LEMMA Leaves ==
  ASSUME SessionsTyped, EarlyCounted, NEW w \in Requests, requests[w].step # "idle",
         requests' = [requests EXCEPT ![w] = AuditIdle]
  PROVE  /\ \A q \in Ops \ {requests[w].op} : Working(q)' = Working(q)
         /\ IsFiniteSet(Working(requests[w].op))
         /\ \A q \in Ops : q = requests[w].op =>
              IsFiniteSet(Working(q)') /\ Cardinality(Working(q)') = Cardinality(Working(q)) - 1
         /\ \A q \in Ops : Cardinality(Working(q)) \in Nat
<1>1. \A v \in Requests \ {w} : requests'[v] = requests[v]
  BY DEF SessionsTyped
<1>2. requests'[w].step = "idle"
  BY DEF SessionsTyped, AuditIdle
<1>3. requests[w].op \in Ops
  BY InProgress
<1>4. \A q \in Ops : IsFiniteSet(Working(q)) /\ Cardinality(Working(q)) \in Nat
  BY FS_CardinalityType DEF EarlyCounted
<1>5. \A q \in Ops : q = requests[w].op => Working(q)' = Working(q) \ {w} /\ w \in Working(q)
  BY <1>1, <1>2 DEF Working
<1>6. \A q \in Ops \ {requests[w].op} : Working(q)' = Working(q)
  BY <1>1, <1>2 DEF Working
<1> QED
  BY <1>3, <1>4, <1>5, <1>6, FS_RemoveElement

(* What only the requests' steps change: their types and what they hold.     *)
LEMMA SessionsStep ==
  ASSUME SessionsTyped, [AuditNext]_auditVars
  PROVE  SessionsTyped'
<1>1. ASSUME NEW w \in Requests, requests' = [requests EXCEPT ![w] = AuditIdle]
      PROVE  SessionsTyped'
  BY <1>1 DEF SessionsTyped, AuditIdle, Subscribed
<1>2. ASSUME NEW w \in Requests, NEW op \in Ops, Change(w, op) PROVE SessionsTyped'
  <2>1. [step |-> "publish", op |-> op, row |-> FALSE]
          \in [step : {"publish", "end"}, op : Ops, row : BOOLEAN]
    OBVIOUS
  <2> QED
    BY <1>2, <2>1 DEF Change, SessionsTyped, Subscribed
<1>3. ASSUME NEW w \in Requests, Publish(w) PROVE SessionsTyped'
  <2>1. /\ requests[w] \in [step : {"publish", "end"}, op : Ops, row : BOOLEAN]
        /\ requests[w].op \in Ops
    BY <1>3, InProgress DEF Publish
  <2>2. Subscribed(requests[w].op) \in BOOLEAN
    BY DEF Subscribed
  <2>3. requests'[w] = [requests[w] EXCEPT !.step = "end", !.row = Subscribed(requests[w].op)]
    BY <1>3 DEF Publish, SessionsTyped
  <2>4. /\ requests'[w] \in [step : {"publish", "end"}, op : Ops, row : BOOLEAN]
        /\ requests'[w].row = Subscribed(requests[w].op) /\ requests'[w].op = requests[w].op
    BY <2>1, <2>2, <2>3
  <2>5. \A v \in Requests \ {w} : requests'[v] = requests[v]
    BY <1>3 DEF Publish, SessionsTyped
  <2>6. requests' \in [Requests ->
          {AuditIdle} \cup [step : {"publish", "end"}, op : Ops, row : BOOLEAN]]
    BY <1>3, <2>4, <2>5 DEF Publish, SessionsTyped
  <2> QED
    BY <2>4, <2>5, <2>6 DEF SessionsTyped, Subscribed
<1>4. CASE UNCHANGED requests
  BY <1>4 DEF SessionsTyped, Subscribed
<1> QED
  BY <1>1, <1>2, <1>3, <1>4 DEF AuditNext, auditVars, End, Abort

(* Taking up an operation: an early change is committed by the one request   *)
(* that joins those working on it.                                           *)
LEMMA ChangeStep ==
  ASSUME AuditInv, NEW w \in Requests, NEW op \in Ops, Change(w, op)
  PROVE  CountsTyped' /\ EarlyCounted' /\ LateCounted' /\ AuditAtomic'
<1>1. /\ \A q \in Ops \ {op} : Working(q)' = Working(q)
      /\ IsFiniteSet(Working(op)')
      /\ Cardinality(Working(op)') = Cardinality(Working(op)) + 1
  BY Joins DEF AuditInv, Change
<1>2. \A q \in Ops : IsFiniteSet(Working(q)) /\ Cardinality(Working(q)) \in Nat
  BY FS_CardinalityType DEF AuditInv, EarlyCounted
<1>3. /\ audited' = audited
      /\ \A q \in Ops \ {op} : changed'[q] = changed[q]
      /\ changed'[op] = IF op.first THEN changed[op] + 1 ELSE changed[op]
      /\ changed' \in [Ops -> Nat]
  BY DEF AuditInv, CountsTyped, Change
<1>4. CountsTyped' /\ LateCounted' /\ AuditAtomic'
  BY <1>3 DEF AuditInv, CountsTyped, LateCounted, AuditAtomic, Subscribed
<1>5. \A q \in Ops : IsFiniteSet(Working(q)')
  BY <1>1, <1>2
<1>6. ASSUME NEW q \in Ops, q.first
      PROVE  audited'[q] + Cardinality(Working(q)') <= changed'[q]
  <2>1. audited[q] + Cardinality(Working(q)) <= changed[q]
    BY <1>6 DEF AuditInv, EarlyCounted
  <2>2. audited[q] \in Nat /\ changed[q] \in Nat /\ Cardinality(Working(q)) \in Nat
    BY <1>2 DEF AuditInv, CountsTyped
  <2>3. CASE q = op
    BY <1>1, <1>3, <1>6, <2>1, <2>2, <2>3
  <2>4. CASE q # op
    BY <1>1, <1>3, <2>1, <2>4
  <2> QED
    BY <2>3, <2>4
<1> QED
  BY <1>4, <1>5, <1>6 DEF EarlyCounted

(* Ending a request: it leaves those working on its operation, whether or    *)
(* not it commits an audit row; a late change is committed with its row.     *)
LEMMA LeaveStep ==
  ASSUME AuditInv, NEW w \in Requests, End(w) \/ Abort(w)
  PROVE  CountsTyped' /\ EarlyCounted' /\ LateCounted' /\ AuditAtomic'
<1> DEFINE op == requests[w].op
<1>1. requests[w].step # "idle" /\ requests' = [requests EXCEPT ![w] = AuditIdle]
  BY DEF End, Abort
<1>2. op \in Ops /\ requests[w].row \in BOOLEAN
  BY <1>1, InProgress DEF AuditInv
<1>3. /\ \A q \in Ops \ {op} : Working(q)' = Working(q)
      /\ \A q \in Ops : q = op =>
           IsFiniteSet(Working(q)') /\ Cardinality(Working(q)') = Cardinality(Working(q)) - 1
      /\ \A q \in Ops : Cardinality(Working(q)) \in Nat
  BY <1>1, Leaves DEF AuditInv
<1>4. /\ \A q \in Ops \ {op} : changed'[q] = changed[q] /\ audited'[q] = audited[q]
      /\ changed' \in [Ops -> Nat] /\ audited' \in [Ops -> Nat]
      /\ audited'[op] \in {audited[op], audited[op] + 1}
      /\ op.first => changed'[op] = changed[op]
      /\ ~op.first => changed'[op] - changed[op] \in {0, 1}
      /\ ~op.first /\ audited'[op] # audited[op] => changed'[op] = changed[op] + 1
      /\ ~op.first /\ Subscribed(op) => changed'[op] - changed[op] = audited'[op] - audited[op]
  BY <1>2 DEF AuditInv, CountsTyped, SessionsTyped, End, Abort
<1>5. CountsTyped'
  BY <1>4 DEF CountsTyped
<1>6. \A q \in Ops : /\ audited[q] \in Nat /\ changed[q] \in Nat
                     /\ audited'[q] \in Nat /\ changed'[q] \in Nat
  BY <1>4 DEF AuditInv, CountsTyped
<1>7. LateCounted'
  BY <1>2, <1>4, <1>6 DEF AuditInv, LateCounted
<1>8. AuditAtomic'
  BY <1>2, <1>4, <1>6 DEF AuditInv, AuditAtomic, Subscribed
<1>9. ASSUME NEW q \in Ops, q.first
      PROVE  audited'[q] + Cardinality(Working(q)') <= changed'[q]
  <2>1. audited[q] + Cardinality(Working(q)) <= changed[q]
    BY <1>9 DEF AuditInv, EarlyCounted
  <2>2. CASE q = op
    BY <1>3, <1>4, <1>6, <1>9, <2>1, <2>2
  <2>3. CASE q # op
    BY <1>3, <1>4, <2>1, <2>3
  <2> QED
    BY <2>2, <2>3
<1>10. \A q \in Ops : IsFiniteSet(Working(q)')
  BY <1>3 DEF AuditInv, EarlyCounted
<1> QED
  BY <1>5, <1>7, <1>8, <1>9, <1>10 DEF EarlyCounted

LEMMA AuditInvariant == AuditSpec => []AuditInv
<1>1. AuditInit => AuditInv
  <2> SUFFICES ASSUME AuditInit PROVE AuditInv
    OBVIOUS
  <2>1. SessionsTyped
    BY DEF AuditInit, SessionsTyped, AuditIdle
  <2>2. \A op \in Ops : Working(op) = {}
    BY DEF AuditInit, AuditIdle, Working
  <2>3. EarlyCounted
    BY <2>2, FS_EmptySet DEF AuditInit, EarlyCounted
  <2> QED
    BY <2>1, <2>3 DEF AuditInit, AuditInv, CountsTyped, LateCounted, AuditAtomic
<1>2. AuditInv /\ [AuditNext]_auditVars => AuditInv'
  <2> SUFFICES ASSUME AuditInv, [AuditNext]_auditVars PROVE AuditInv'
    OBVIOUS
  <2>1. SessionsTyped'
    BY SessionsStep DEF AuditInv
  <2>2. ASSUME NEW w \in Requests, Publish(w)
        PROVE  CountsTyped' /\ EarlyCounted' /\ LateCounted' /\ AuditAtomic'
    <3>1. requests[w] \in [step : {"publish", "end"}, op : Ops, row : BOOLEAN]
      BY <2>2, InProgress DEF AuditInv, Publish
    <3>2. requests'[w].step = "end" /\ requests'[w].op = requests[w].op
      BY <2>2, <3>1 DEF AuditInv, SessionsTyped, Publish
    <3>3. \A v \in Requests \ {w} : requests'[v] = requests[v]
      BY <2>2 DEF AuditInv, SessionsTyped, Publish
    <3>4. \A op \in Ops : Working(op)' = Working(op)
      BY <2>2, <3>2, <3>3 DEF Publish, Working
    <3> QED
      BY <2>2, <3>4 DEF AuditInv, Publish, CountsTyped, EarlyCounted, LateCounted, AuditAtomic,
         Subscribed
  <2>3. CASE UNCHANGED auditVars
    BY <2>1, <2>3 DEF auditVars, AuditInv, CountsTyped, EarlyCounted, LateCounted,
       AuditAtomic, Subscribed, Working
  <2> QED
    BY <2>1, <2>2, <2>3, ChangeStep, LeaveStep DEF AuditNext, AuditInv
<1> QED
  BY <1>1, <1>2, PTL DEF AuditSpec

(* The audit log tells of nothing that did not happen.                       *)
THEOREM LogIsSound == AuditSpec => []AuditSound
<1>1. AuditInv => AuditSound
  <2> SUFFICES ASSUME AuditInv, NEW op \in Ops PROVE audited[op] <= changed[op]
    BY DEF AuditSound
  <2>1. audited[op] \in Nat /\ changed[op] \in Nat /\ Cardinality(Working(op)) \in Nat
    BY FS_CardinalityType DEF AuditInv, CountsTyped, EarlyCounted
  <2>2. op.first \in BOOLEAN
    BY DEF Ops
  <2> QED
    BY <2>1, <2>2 DEF AuditInv, EarlyCounted, LateCounted
<1> QED
  BY <1>1, AuditInvariant, PTL

(* A change committed at the end of its request is committed with its row.   *)
THEOREM LogIsAtomic == AuditSpec => []AuditAtomic
<1>1. AuditInv => AuditAtomic
  BY DEF AuditInv
<1> QED
  BY <1>1, AuditInvariant, PTL
=================================================================================
