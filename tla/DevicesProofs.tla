------------------------------ MODULE DevicesProofs ------------------------------
(***************************************************************************)
(* Proofs about Devices, for any number of machines and concurrent         *)
(* handlers, any length of a trial and any bounds.                         *)
(***************************************************************************)
EXTENDS Devices, TLAPS

Device == [id : 1 .. MaxRows, status : Statuses, ends : {None} \cup 0 .. LastDay + TrialDays]

Handler == [step : {"register", "heartbeat", "update", "delete"}, fp : Fingerprints,
            seen : Rows, arg : Statuses \cup {None}, now : 0 .. LastDay]

(* A handler in progress knows its machine, what it has read and what it was *)
(* asked for.                                                                *)
LEMMA InProgress ==
  ASSUME TypeOK, NEW w \in Workers, sessions[w].step # "idle"
  PROVE  sessions[w] \in Handler
BY DEF TypeOK, Idle, Handler

(* A row that was found is a device.                                         *)
LEMMA Found ==
  ASSUME TypeOK, NEW f \in Fingerprints, rows[f].id # 0
  PROVE  rows[f] \in Device
BY DEF TypeOK, Rows, NoRow, Device

(* An expiry or a status written to a device leaves a device with the same   *)
(* id and the same end of its trial.                                         *)
LEMMA StatusOnly ==
  ASSUME NEW row \in Device, NEW status \in Statuses
  PROVE  /\ [row EXCEPT !.status = status] \in Device
         /\ [row EXCEPT !.status = status].id = row.id
         /\ [row EXCEPT !.status = status].ends = row.ends
BY DEF Device

(* What a handler may do to the rows: nothing, insert a device where there   *)
(* was none, change the status of a device, or remove one.                   *)
RowsStep ==
  \/ UNCHANGED rows
  \/ \E f \in Fingerprints :
       /\ \/ rows[f].id = 0 /\ created + 1 \in 1 .. MaxRows
             /\ rows'[f] \in Device /\ rows'[f].id = created + 1
          \/ rows[f].id # 0 /\ rows'[f] \in Device
             /\ rows'[f].id = rows[f].id /\ rows'[f].ends = rows[f].ends
          \/ rows'[f] = NoRow
       /\ rows' = [rows EXCEPT ![f] = rows'[f]]

LEMMA InsertStep ==
  ASSUME TypeOK, NEW s \in Handler, NEW status \in Statuses,
         NEW ends \in {None} \cup 0 .. LastDay + TrialDays, Insert(s, status, ends)
  PROVE  RowsStep
<1>1. s.fp \in Fingerprints
  BY DEF Handler
<1>2. created + 1 \in 1 .. MaxRows
  BY NumbersAreNat DEF TypeOK, Insert
<1>3. [id |-> created + 1, status |-> status, ends |-> ends] \in Device
  BY <1>2 DEF Device
<1>4. rows'[s.fp] = [id |-> created + 1, status |-> status, ends |-> ends]
  BY <1>1 DEF TypeOK, Insert
<1>5. rows' = [rows EXCEPT ![s.fp] = rows'[s.fp]] /\ rows[s.fp].id = 0
  BY <1>4 DEF Insert
<1>6. rows'[s.fp] \in Device /\ rows'[s.fp].id = created + 1
  BY <1>3, <1>4
<1> QED
  BY <1>1, <1>2, <1>5, <1>6 DEF RowsStep

LEMMA UpdateStep ==
  ASSUME TypeOK, NEW s \in Handler, NEW row, Update(s, row),
         row = NoRow \/ (row \in Device /\ row.id = rows[s.fp].id /\ row.ends = rows[s.fp].ends)
  PROVE  RowsStep
<1>1. s.fp \in Fingerprints
  BY DEF Handler
<1>2. rows'[s.fp] = row /\ rows[s.fp].id # 0
  BY <1>1 DEF TypeOK, Update
<1> QED
  BY <1>1, <1>2 DEF RowsStep, Update

LEMMA AnyStep ==
  ASSUME TypeOK, [Next]_vars
  PROVE  RowsStep
<1>1. ASSUME NEW w \in Workers, RegisterNew(w) PROVE RowsStep
  <2>1. sessions[w] \in Handler
    BY <1>1, InProgress DEF RegisterNew
  <2>2. sessions[w].now + TrialDays \in 0 .. LastDay + TrialDays
    BY <2>1, NumbersAreNat DEF Handler
  <2>3. "TRIAL" \in Statuses
    BY DEF Statuses
  <2> QED
    BY <1>1, <2>1, <2>2, <2>3, InsertStep DEF RegisterNew
<1>2. ASSUME NEW w \in Workers, HeartbeatNew(w) PROVE RowsStep
  <2>1. sessions[w] \in Handler
    BY <1>2, InProgress DEF HeartbeatNew
  <2>2. (IF sessions[w].arg = None THEN "UNKNOWN" ELSE sessions[w].arg) \in Statuses
    BY <2>1 DEF Handler, Statuses
  <2> QED
    BY <1>2, <2>1, <2>2, InsertStep DEF HeartbeatNew
<1>3. ASSUME NEW w \in Workers, RegisterAgain(w) PROVE RowsStep
  <2> DEFINE row == rows[sessions[w].fp]
             new == Reregistered(row, sessions[w].seen, sessions[w].now)
  <2>1. sessions[w] \in Handler /\ sessions[w].fp \in Fingerprints
    BY <1>3, InProgress DEF RegisterAgain, Handler
  <2>2. Update(sessions[w], new)
    BY <1>3 DEF RegisterAgain
  <2>3. row \in Device
    BY <2>1, <2>2, Found DEF Update
  <2>4. "EXPIRED" \in Statuses
    BY DEF Statuses
  <2>5. new \in Device /\ new.id = row.id /\ new.ends = row.ends
    BY <2>3, <2>4, StatusOnly DEF Reregistered
  <2> HIDE DEF new
  <2> QED
    BY <2>1, <2>2, <2>5, UpdateStep
<1>4. ASSUME NEW w \in Workers, WriteStatus(w) PROVE RowsStep
  <2> DEFINE row == rows[sessions[w].fp]
             status == Written(row.status, sessions[w].seen.status, sessions[w].arg)
             new == [row EXCEPT !.status = status]
  <2>1. sessions[w] \in Handler /\ sessions[w].fp \in Fingerprints
    BY <1>4, InProgress DEF WriteStatus, Handler
  <2>2. Update(sessions[w], new)
    BY <1>4 DEF WriteStatus
  <2>3. row \in Device
    BY <2>1, <2>2, Found DEF Update
  <2>4. status \in Statuses
    BY <2>1, <2>3 DEF Written, Handler, Device
  <2>5. new \in Device /\ new.id = row.id /\ new.ends = row.ends
    BY <2>3, <2>4, StatusOnly
  <2> HIDE DEF new
  <2> QED
    BY <2>1, <2>2, <2>5, UpdateStep
<1>5. ASSUME NEW w \in Workers, DeleteCommit(w) PROVE RowsStep
  BY <1>5, InProgress, UpdateStep DEF DeleteCommit
<1>6. CASE UNCHANGED rows
  BY <1>6 DEF RowsStep
<1> QED
  BY <1>1, <1>2, <1>3, <1>4, <1>5, <1>6
     DEF Next, vars, NextDay, RegisterLoad, DeleteLoad, HeartbeatLoad, UpdateLoad, Load, Fail

(* The columns and the sessions keep their types.                            *)
THEOREM TypeCorrect == Spec => []TypeOK
<1>1. Init => TypeOK
  BY NumbersAreNat DEF Init, TypeOK, Rows
<1>2. TypeOK /\ [Next]_vars => TypeOK'
  <2> SUFFICES ASSUME TypeOK, [Next]_vars PROVE TypeOK'
    OBVIOUS
  <2>1. rows' \in [Fingerprints -> Rows]
    <3>1. \A f \in Fingerprints : rows'[f] \in Rows /\ rows' = [rows EXCEPT ![f] = rows'[f]]
            => rows' \in [Fingerprints -> Rows]
      BY DEF TypeOK
    <3>2. \A row \in Device \cup {NoRow} : row \in Rows
      BY DEF Device, Rows
    <3> QED
      BY <3>1, <3>2, AnyStep DEF RowsStep, TypeOK
  <2>2. created' \in 0 .. MaxRows
    <3>1. created' = created \/ (created < MaxRows /\ created' = created + 1)
      BY DEF Next, vars, NextDay, RegisterLoad, DeleteLoad, HeartbeatLoad, UpdateLoad, Load,
         Fail, RegisterNew, HeartbeatNew, RegisterAgain, WriteStatus, DeleteCommit, Insert, Update
    <3> QED
      BY <3>1, NumbersAreNat DEF TypeOK
  <2>7. today' \in 0 .. LastDay
    <3>1. today' = today \/ (today < LastDay /\ today' = today + 1)
      BY DEF Next, vars, NextDay, RegisterLoad, DeleteLoad, HeartbeatLoad, UpdateLoad, Load,
         Fail, RegisterNew, HeartbeatNew, RegisterAgain, WriteStatus, DeleteCommit, Done
    <3> QED
      BY <3>1, NumbersAreNat DEF TypeOK
  <2>3. ASSUME NEW w \in Workers, NEW f \in Fingerprints,
               NEW step \in {"register", "heartbeat", "update", "delete"},
               NEW arg \in Statuses \cup {None}, Load(w, f, step, arg)
        PROVE  sessions' \in [Workers -> {Idle} \cup Handler]
    <3>1. [step |-> step, fp |-> f, seen |-> rows[f], arg |-> arg, now |-> today] \in Handler
      BY DEF TypeOK, Handler
    <3> QED
      BY <2>3, <3>1 DEF Load, TypeOK, Handler
  <2>4. ASSUME NEW w \in Workers, Done(w)
        PROVE  sessions' \in [Workers -> {Idle} \cup Handler]
    BY <2>4 DEF Done, TypeOK, Handler
  <2>5. ASSUME UNCHANGED sessions
        PROVE  sessions' \in [Workers -> {Idle} \cup Handler]
    BY <2>5 DEF TypeOK, Handler
  <2>6. sessions' \in [Workers -> {Idle} \cup Handler]
    BY <2>3, <2>4, <2>5 DEF Next, vars, NextDay, RegisterLoad, DeleteLoad, HeartbeatLoad,
       UpdateLoad, Fail, RegisterNew, HeartbeatNew, RegisterAgain, WriteStatus, DeleteCommit
  <2> QED
    BY <2>1, <2>2, <2>6, <2>7 DEF TypeOK, Handler
<1> QED
  BY <1>1, <1>2, PTL DEF Spec

(* A device has one trial: the end of its trial moves only with its id.      *)
THEOREM TrialsNeverMove == Spec => OneTrial
<1>1. ASSUME TypeOK, [Next]_vars, NEW f \in Fingerprints,
             rows[f].id # 0, rows'[f].id = rows[f].id
      PROVE  rows'[f].ends = rows[f].ends
  <2>1. ASSUME NEW g \in Fingerprints, rows' = [rows EXCEPT ![g] = rows'[g]], g # f
        PROVE  rows'[f] = rows[f]
    BY <1>1, <2>1 DEF TypeOK
  <2> QED
    BY <1>1, <2>1, AnyStep DEF RowsStep, NoRow
<1>2. TypeOK /\ [Next]_vars =>
        [\A f \in Fingerprints :
           rows[f].id # 0 /\ rows'[f].id = rows[f].id => rows'[f].ends = rows[f].ends]_vars
  BY <1>1
<1> QED
  BY <1>2, TypeCorrect, PTL DEF Spec, OneTrial

-------------------------------------------------------------------------------
(* A handler took the time before now: what has expired for it has expired.  *)
Clock == \A w \in Workers : sessions[w].now <= today

LEMMA ClockRuns == Spec => []Clock
<1>1. Init => Clock
  BY DEF Init, Clock, Idle
<1>2. TypeOK /\ Clock /\ [Next]_vars => Clock'
  <2> SUFFICES ASSUME TypeOK, Clock, [Next]_vars, NEW v \in Workers
               PROVE  sessions'[v].now <= today'
    BY DEF Clock
  <2>1. today \in Nat /\ sessions[v].now <= today /\ sessions[v].now \in Nat
    BY NumbersAreNat DEF TypeOK, Clock, Idle
  <2>2. ASSUME NEW w \in Workers, NEW f \in Fingerprints, NEW step, NEW arg,
               Load(w, f, step, arg)
        PROVE  sessions'[v].now <= today'
    <3>1. sessions'[v].now = sessions[v].now \/ sessions'[v].now = today
      BY <2>2 DEF Load, TypeOK
    <3> QED
      BY <2>1, <2>2, <3>1 DEF Load
  <2>3. ASSUME NEW w \in Workers, Done(w)
        PROVE  sessions'[v].now <= today'
    <3>1. sessions'[v].now = sessions[v].now \/ sessions'[v].now = 0
      BY <2>3 DEF Done, TypeOK, Idle
    <3> QED
      BY <2>1, <2>3, <3>1 DEF Done
  <2>4. CASE NextDay
    BY <2>1, <2>4 DEF NextDay
  <2>5. CASE UNCHANGED vars
    BY <2>1, <2>5 DEF vars
  <2> QED
    BY <2>2, <2>3, <2>4, <2>5 DEF Next, RegisterLoad, DeleteLoad, HeartbeatLoad, UpdateLoad,
       Fail, RegisterNew, HeartbeatNew, RegisterAgain, WriteStatus, DeleteCommit
<1> QED
  BY <1>1, <1>2, TypeCorrect, PTL DEF Spec

(* A handler's steps leave the other handlers alone.                         *)
LEMMA OwnStep ==
  ASSUME TypeOK, [Next]_vars, NEW w \in Workers, sessions[w].step = "register", sessions'[w] = Idle
  PROVE  RegisterNew(w) \/ RegisterAgain(w) \/ UNCHANGED rows
<1>1. sessions'[w] # sessions[w]
  BY DEF Idle
<1>2. ASSUME NEW v \in Workers, v # w, Done(v) PROVE FALSE
  BY <1>1, <1>2 DEF Done, TypeOK
<1>3. ASSUME NEW v \in Workers, NEW f \in Fingerprints, NEW step, NEW arg, Load(v, f, step, arg)
      PROVE  UNCHANGED rows
  BY <1>3 DEF Load
<1> QED
  BY <1>1, <1>2, <1>3
     DEF Next, vars, NextDay, RegisterLoad, DeleteLoad, HeartbeatLoad, UpdateLoad, Fail,
         RegisterNew, HeartbeatNew, RegisterAgain, WriteStatus, DeleteCommit

(* A registration takes nothing from a device that is no longer in its trial *)
(* when it commits.                                                          *)
THEOREM RegistrationSparesOthers == Spec => RegistrationExpiresTrialsOnly
<1>1. ASSUME TypeOK, Clock, [Next]_vars, NEW w \in Workers,
             sessions[w].step = "register", sessions'[w] = Idle,
             NEW f \in Fingerprints, rows[f].id # 0, rows'[f] # rows[f]
      PROVE  TrialOver(rows[f], today)
  <2> DEFINE s == sessions[w]
  <2>1. s \in Handler /\ s.fp \in Fingerprints /\ s.now \in Nat /\ s.now <= today
    BY <1>1, InProgress, NumbersAreNat DEF Handler, Clock
  <2>2. CASE RegisterNew(w)
    BY <1>1, <2>1, <2>2 DEF RegisterNew, Insert, TypeOK
  <2>3. CASE RegisterAgain(w)
    <3>1. rows' = [rows EXCEPT ![s.fp] = Reregistered(rows[s.fp], s.seen, s.now)]
      BY <2>3 DEF RegisterAgain, Update
    <3>2. f = s.fp /\ rows'[f] = Reregistered(rows[f], s.seen, s.now)
      BY <1>1, <2>1, <3>1 DEF TypeOK
    <3>3. TrialOver(rows[f], s.now)
      BY <1>1, <3>2 DEF Reregistered
    <3>4. rows[f].ends \in {None} \cup 0 .. LastDay + TrialDays
      BY <1>1, Found DEF Device
    <3>5. rows[f].ends \in Nat /\ today \in Nat
      BY <1>1, <3>3, <3>4, NumbersAreNat DEF TrialOver, TypeOK
    <3> QED
      BY <2>1, <3>3, <3>5 DEF TrialOver
  <2> QED
    BY <1>1, <2>2, <2>3, OwnStep
<1>2. TypeOK /\ Clock /\ [Next]_vars =>
        [\A w \in Workers :
           sessions[w].step = "register" /\ sessions'[w] = Idle =>
             \A f \in Fingerprints :
               rows[f].id # 0 /\ rows'[f] # rows[f] => TrialOver(rows[f], today)]_vars
  BY <1>1
<1> QED
  BY <1>2, TypeCorrect, ClockRuns, PTL DEF Spec, RegistrationExpiresTrialsOnly

==================================================================================
