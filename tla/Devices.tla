-------------------------------- MODULE Devices --------------------------------
(***************************************************************************)
(* Installed clients: registration with its trial, heartbeats, and what an *)
(* owner does with a device (app/services/device_service.py,               *)
(* app/api/routes/devices.py).                                             *)
(*                                                                         *)
(* A handler reads the row of a fingerprint, then writes and commits.  A   *)
(* registration writes its telemetry first: the row is locked and read     *)
(* again before the expiry of the trial is decided, so that decision and   *)
(* its write are one step here.  A heartbeat of the client API writes      *)
(* telemetry only, which is not modelled.                                  *)
(***************************************************************************)
EXTENDS Naturals, FiniteSets

CONSTANTS
  Fingerprints,  \* machines
  OtherStatuses, \* ACTIVE, BLOCKED, REVOKED
  Workers,       \* handlers that may be in progress at the same time
  TrialDays,     \* length of a trial: 30
  LastDay,       \* bound on time
  MaxRows,       \* bound on the rows ever created
  None

Statuses == {"TRIAL", "EXPIRED", "UNKNOWN"} \cup OtherStatuses

ASSUME NumbersAreNat == TrialDays \in Nat /\ LastDay \in Nat /\ MaxRows \in Nat
ASSUME NoneIsNoValue == None \notin Statuses

VARIABLES
  rows,          \* devices: id, status and trial_ends; id 0: no such row
  created,       \* rows created so far, the last id given
  today,
  sessions

vars == <<rows, created, today, sessions>>

NoRow == [id |-> 0, status |-> None, ends |-> None]
Idle  == [step |-> "idle", fp |-> None, seen |-> NoRow, arg |-> None, now |-> 0]

Init ==
  /\ rows = [f \in Fingerprints |-> NoRow]
  /\ created = 0 /\ today = 0
  /\ sessions = [w \in Workers |-> Idle]

-------------------------------------------------------------------------------
(* A handler reads the row of the fingerprint.                               *)
Load(w, f, step, arg) ==
  /\ sessions[w].step = "idle"
  /\ sessions' = [sessions EXCEPT ![w] =
       [step |-> step, fp |-> f, seen |-> rows[f], arg |-> arg, now |-> today]]
  /\ UNCHANGED <<rows, created, today>>

Done(w) == sessions' = [sessions EXCEPT ![w] = Idle] /\ UNCHANGED today

(* The INSERT of a row: the fingerprint is unique.                           *)
Insert(s, status, ends) ==
  /\ s.seen.id = 0
  /\ rows[s.fp].id = 0
  /\ created < MaxRows
  /\ created' = created + 1
  /\ rows' = [rows EXCEPT ![s.fp] = [id |-> created + 1, status |-> status, ends |-> ends]]

(* The UPDATE of the row that was read, which may have been deleted since.   *)
Update(s, row) ==
  /\ s.seen.id # 0
  /\ rows[s.fp].id = s.seen.id
  /\ rows' = [rows EXCEPT ![s.fp] = row]
  /\ UNCHANGED created

-------------------------------------------------------------------------------
(* register_device.                                                          *)
RegisterLoad(w, f) == Load(w, f, "register", None)

RegisterNew(w) ==
  /\ sessions[w].step = "register"
  /\ Insert(sessions[w], "TRIAL", sessions[w].now + TrialDays)
  /\ Done(w)

TrialOver(row, now) == row.status = "TRIAL" /\ row.ends # None /\ row.ends < now

RestartTrial(row, seen, now) == [row EXCEPT !.ends = now + TrialDays] \* mutant of Reregistered
ExpireRead(row, seen, now) ==                           \* mutant of Reregistered
  IF TrialOver(seen, now) THEN [row EXCEPT !.status = "EXPIRED"] ELSE row
Reregistered(row, seen, now) ==
  IF TrialOver(row, now) THEN [row EXCEPT !.status = "EXPIRED"] ELSE row

RegisterAgain(w) ==
  LET s == sessions[w]
  IN  /\ s.step = "register"
      /\ Update(s, Reregistered(rows[s.fp], s.seen, s.now))
      /\ Done(w)

(* device_heartbeat: the status the client reports, if any.                  *)
HeartbeatLoad(w, f, reported) == Load(w, f, "heartbeat", reported)

HeartbeatNew(w) ==
  LET s == sessions[w]
  IN  /\ s.step = "heartbeat"
      /\ Insert(s, IF s.arg = None THEN "UNKNOWN" ELSE s.arg, None)
      /\ Done(w)

(* update_device, and the heartbeat of a known device: the status is written *)
(* when it is another than the one read.                                     *)
NullWritten(current, seen, new) == new                  \* mutant of Written
Written(current, seen, new) == IF new \in {None, seen} THEN current ELSE new

UpdateLoad(w, f, status) == rows[f].id # 0 /\ Load(w, f, "update", status)

WriteStatus(w) ==
  LET s == sessions[w]
  IN  /\ s.step \in {"heartbeat", "update"}
      /\ Update(s, [rows[s.fp] EXCEPT !.status = Written(@, s.seen.status, s.arg)])
      /\ Done(w)

(* delete_device removes the row; a later registration starts a new trial.   *)
DeleteLoad(w, f) == rows[f].id # 0 /\ Load(w, f, "delete", None)

DeleteCommit(w) ==
  /\ sessions[w].step = "delete"
  /\ Update(sessions[w], NoRow)
  /\ Done(w)

(* The unique constraint, a row that is gone, an error: rolled back.         *)
Fail(w) ==
  /\ sessions[w].step # "idle"
  /\ Done(w)
  /\ UNCHANGED <<rows, created>>

NextDay ==
  /\ today < LastDay
  /\ today' = today + 1
  /\ UNCHANGED <<rows, created, sessions>>

Next ==
  \/ NextDay
  \/ \E w \in Workers :
       \/ \E f \in Fingerprints :
            \/ RegisterLoad(w, f) \/ DeleteLoad(w, f)
            \/ \E status \in Statuses \cup {None} : HeartbeatLoad(w, f, status)
            \/ \E status \in Statuses : UpdateLoad(w, f, status)
       \/ RegisterNew(w) \/ RegisterAgain(w)
       \/ HeartbeatNew(w) \/ WriteStatus(w)
       \/ DeleteCommit(w)
       \/ Fail(w)

Spec == Init /\ [][Next]_vars

-------------------------------------------------------------------------------
(* Rows and sessions hold values of their columns.                           *)
Rows ==
  {NoRow} \cup [id : 1 .. MaxRows, status : Statuses, ends : {None} \cup 0 .. LastDay + TrialDays]

TypeOK ==
  /\ rows \in [Fingerprints -> Rows]
  /\ created \in 0 .. MaxRows /\ today \in 0 .. LastDay
  /\ sessions \in [Workers ->
       {Idle} \cup [step : {"register", "heartbeat", "update", "delete"}, fp : Fingerprints,
                    seen : Rows, arg : Statuses \cup {None}, now : 0 .. LastDay]]

(* A device has one trial: as long as its row exists its end never moves,    *)
(* however often it registers again, reports a state or is edited.           *)
OneTrial ==
  [][\A f \in Fingerprints :
       rows[f].id # 0 /\ rows'[f].id = rows[f].id => rows'[f].ends = rows[f].ends]_vars

(* A registration takes nothing from a device that is no longer in its       *)
(* trial: an activation, a block or a removal that was committed while it    *)
(* ran stands.                                                               *)
RegistrationExpiresTrialsOnly ==
  [][\A w \in Workers :
       sessions[w].step = "register" /\ sessions'[w] = Idle =>
         \A f \in Fingerprints :
           rows[f].id # 0 /\ rows'[f] # rows[f] => TrialOver(rows[f], today)]_vars

===============================================================================
