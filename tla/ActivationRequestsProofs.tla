----------------------- MODULE ActivationRequestsProofs -----------------------
(***************************************************************************)
(* Proofs about ActivationRequests, for any number of requests, licenses   *)
(* and concurrent handlers.                                                *)
(***************************************************************************)
EXTENDS MCActivationRequests, FiniteSetTheorems, TLAPS

Row == [status : Statuses \cup {None}, license : Licenses \cup {None}]

(* What a handler in progress knows of its session.                          *)
LEMMA SessionInProgress ==
  ASSUME TypeOK, NEW w \in Workers, sessions[w].step # "idle"
  PROVE  /\ sessions[w] \in [step : Steps, req : Requests, seen : Statuses \cup {None},
                             lic : Licenses \cup {None}]
         /\ sessions[w].req \in Requests
         /\ sessions[w].seen \in Statuses \cup {None}
         /\ sessions[w].lic \in Licenses \cup {None}
BY DEF TypeOK, Sessions, Idle

(* A status update of a handler keeps the rows and the events well-typed.    *)
LEMMA UpdateStatusType ==
  ASSUME TypeOK, NEW r \in Requests, NEW seen \in Statuses \cup {None}, NEW new \in Statuses,
         NEW lic \in Licenses \cup {None}, UpdateStatus(r, seen, new, lic)
  PROVE  rows' \in [Requests -> Row] /\ events' \in [Requests -> Seq(Events)]
<1>1. rows[r].status \in Statuses \cup {None}
  BY DEF TypeOK
<1>2. StatusWritten(rows[r].status, seen, new) \in Statuses \cup {None}
  BY <1>1 DEF StatusWritten
<1>3. [from |-> seen, to |-> new] \in Events
  BY DEF Events
<1>4. AddEvent(events[r], seen, new) \in Seq(Events)
  BY <1>3 DEF AddEvent, TypeOK
<1> QED
  BY <1>2, <1>4 DEF UpdateStatus, TypeOK, Row

(* The columns and the sessions keep their types.                            *)
THEOREM TypeCorrect == Spec => []TypeOK
<1>1. Init => TypeOK
  BY DEF Init, NoRow, TypeOK, Sessions
<1>2. TypeOK /\ [Next]_vars => TypeOK'
  <2> SUFFICES ASSUME TypeOK, [Next]_vars PROVE TypeOK'
    OBVIOUS
  <2> USE DEF Row
  <2>1. ASSUME NEW r \in Requests, Submit(r) PROVE TypeOK'
    <3>1. rows' \in [Requests -> Row] /\ events' \in [Requests -> Seq(Events)]
      BY <2>1, UpdateStatusType DEF Submit, Statuses
    <3> QED
      BY <2>1, <3>1 DEF Submit, TypeOK
  <2>2. ASSUME NEW w \in Workers, NEW r \in Requests, NEW step \in Steps, Load(w, r, step)
        PROVE TypeOK'
    <3>1. [step |-> step, req |-> r, seen |-> rows[r].status, lic |-> None] \in Sessions
      BY <2>2 DEF Load, Sessions, TypeOK
    <3> QED
      BY <2>2, <3>1 DEF Load, TypeOK
  <2>3. ASSUME NEW w \in Workers, ReviewCommit(w) PROVE TypeOK'
    <3>1. sessions[w].req \in Requests /\ sessions[w].seen \in Statuses \cup {None}
      BY <2>3, SessionInProgress DEF ReviewCommit
    <3>2. rows[sessions[w].req].license \in Licenses \cup {None}
      BY <3>1 DEF TypeOK
    <3>3. UpdateStatus(sessions[w].req, sessions[w].seen, "UNDER_REVIEW", rows[sessions[w].req].license)
      BY <2>3 DEF ReviewCommit
    <3>4. rows' \in [Requests -> Row] /\ events' \in [Requests -> Seq(Events)]
      BY <3>1, <3>2, <3>3, UpdateStatusType DEF Statuses
    <3> QED
      BY <2>3, <3>4 DEF ReviewCommit, TypeOK, Sessions
  <2>4. ASSUME NEW w \in Workers, RejectCommit(w) PROVE TypeOK'
    <3>1. sessions[w].req \in Requests /\ sessions[w].seen \in Statuses \cup {None}
      BY <2>4, SessionInProgress DEF RejectCommit
    <3>2. rows[sessions[w].req].license \in Licenses \cup {None}
      BY <3>1 DEF TypeOK
    <3>3. UpdateStatus(sessions[w].req, sessions[w].seen, "REJECTED", rows[sessions[w].req].license)
      BY <2>4 DEF RejectCommit
    <3>4. rows' \in [Requests -> Row] /\ events' \in [Requests -> Seq(Events)]
      BY <3>1, <3>2, <3>3, UpdateStatusType DEF Statuses
    <3> QED
      BY <2>4, <3>4 DEF RejectCommit, TypeOK, Sessions
  <2>5. ASSUME NEW w \in Workers, GenerateApprove(w) PROVE TypeOK'
    <3>1. sessions[w].step # "idle"
      BY <2>5 DEF GenerateApprove
    <3>2. sessions[w].req \in Requests /\ sessions[w].seen \in Statuses \cup {None}
      BY <3>1, SessionInProgress
    <3>3. rows[sessions[w].req].license \in Licenses \cup {None}
      BY <3>2 DEF TypeOK
    <3>4. UpdateStatus(sessions[w].req, sessions[w].seen, "APPROVED", rows[sessions[w].req].license)
      BY <2>5 DEF GenerateApprove
    <3>5. rows' \in [Requests -> Row] /\ events' \in [Requests -> Seq(Events)]
      BY <3>2, <3>3, <3>4, UpdateStatusType DEF Statuses
    <3>6. [sessions[w] EXCEPT !.step = "refresh"] \in Sessions
      BY <3>1, SessionInProgress DEF Sessions, Steps
    <3> QED
      BY <2>5, <3>5, <3>6 DEF GenerateApprove, TypeOK
  <2>6. ASSUME NEW w \in Workers, GenerateRefresh(w)
        PROVE TypeOK'
    <3>1. sessions[w].step # "idle"
      BY <2>6 DEF GenerateRefresh
    <3>2. rows[sessions[w].req].status \in Statuses \cup {None}
      BY <3>1, SessionInProgress DEF TypeOK
    <3>3. [sessions[w] EXCEPT !.step = "save", !.seen = rows[sessions[w].req].status] \in Sessions
      BY <3>1, <3>2, SessionInProgress DEF Sessions, Steps
    <3> QED
      BY <2>6, <3>3 DEF GenerateRefresh, TypeOK
  <2>7. ASSUME NEW w \in Workers, NEW l \in Licenses, GenerateSave(w, l) PROVE TypeOK'
    <3>1. sessions[w].step # "idle"
      BY <2>7 DEF GenerateSave
    <3>2. [sessions[w] EXCEPT !.step = "commit", !.lic = l] \in Sessions
      BY <3>1, SessionInProgress DEF Sessions, Steps
    <3> QED
      BY <2>7, <3>2 DEF GenerateSave, TypeOK
  <2>8. ASSUME NEW w \in Workers, GenerateCommit(w) PROVE TypeOK'
    <3>1. /\ sessions[w].req \in Requests
          /\ sessions[w].seen \in Statuses \cup {None}
          /\ sessions[w].lic \in Licenses \cup {None}
      BY <2>8, SessionInProgress DEF GenerateCommit
    <3>2. UpdateStatus(sessions[w].req, sessions[w].seen, "LICENSE_GENERATED", sessions[w].lic)
      BY <2>8 DEF GenerateCommit
    <3>3. rows' \in [Requests -> Row] /\ events' \in [Requests -> Seq(Events)]
      BY <3>1, <3>2, UpdateStatusType DEF Statuses
    <3>4. licenses' \in [Licenses -> Requests \cup {None}]
      BY <2>8, <3>1 DEF GenerateCommit, TypeOK
    <3> QED
      BY <2>8, <3>3, <3>4 DEF GenerateCommit, TypeOK, Sessions
  <2>9. ASSUME NEW w \in Workers, Fail(w) PROVE TypeOK'
    BY <2>9 DEF Fail, TypeOK, Sessions
  <2>10. CASE UNCHANGED vars
    BY <2>10 DEF vars, TypeOK
  <2> QED
    BY <2>1, <2>2, <2>3, <2>4, <2>5, <2>6, <2>7, <2>8, <2>9, <2>10
       DEF Next, ReviewLoad, RejectLoad, GenerateLoad, Steps
<1>3. QED
  BY <1>1, <1>2, PTL DEF Spec

-------------------------------------------------------------------------------
(* The inductive invariant behind the safety properties.  ReviewedFirst and  *)
(* GeneratedIsBacked speak of the database only; a step of a handler depends *)
(* on what its session remembers, so the invariant also says what a session  *)
(* in each step may rely on.                                                 *)

Generating == {"approve", "refresh", "save", "commit"}

Reviewed(log) == \E j \in DOMAIN log : log[j].to = "UNDER_REVIEW"

(* A handler that generates has seen its request reviewed; only one about to *)
(* commit holds a license, whose file is on disk and which is not yet in the *)
(* database.                                                                 *)
SessionsSound ==
  \A w \in Workers :
    /\ sessions[w].step \in Generating => Reviewed(events[sessions[w].req])
    /\ sessions[w].step = "commit" =>
         /\ sessions[w].lic \in Licenses
         /\ licenses[sessions[w].lic] = None
         /\ files[sessions[w].req] # None
    /\ sessions[w].step # "commit" => sessions[w].lic = None

LicensesUnshared ==
  \A v, w \in Workers :
    v # w /\ sessions[v].lic # None => sessions[v].lic # sessions[w].lic

RowsReviewed ==
  \A r \in Requests :
    rows[r].status \in {"UNDER_REVIEW", "APPROVED", "LICENSE_GENERATED"} => Reviewed(events[r])

RowsBacked ==
  \A r \in Requests :
    /\ rows[r].status = "LICENSE_GENERATED" => rows[r].license # None
    /\ rows[r].license # None =>
         licenses[rows[r].license] = r /\ files[r] # None

HistoryInv == TypeOK /\ RowsReviewed /\ ReviewedFirst
SessionInv == SessionsSound /\ LicensesUnshared /\ RowsBacked

(* What a status update does to the rows and the events.                     *)
LEMMA UpdateStatusEffect ==
  ASSUME TypeOK, NEW r \in Requests, NEW seen \in Statuses \cup {None},
         NEW new \in Statuses, NEW lic \in Licenses \cup {None},
         UpdateStatus(r, seen, new, lic)
  PROVE  /\ \A q \in Requests \ {r} : rows'[q] = rows[q] /\ events'[q] = events[q]
         /\ rows'[r].status \in {rows[r].status, new}
         /\ rows'[r].license = lic
         /\ events'[r] = Append(events[r], [from |-> seen, to |-> new])
         /\ DOMAIN events'[r] = 1 .. Len(events[r]) + 1
         /\ events'[r][Len(events[r]) + 1].to = new
         /\ \A i \in DOMAIN events[r] : i \in DOMAIN events'[r] /\ events'[r][i] = events[r][i]
         /\ \A q \in Requests : Reviewed(events[q]) => Reviewed(events'[q])
<1>1. events[r] \in Seq(Events) /\ [from |-> seen, to |-> new] \in Events
  BY DEF TypeOK, Events
<1>2. /\ \A q \in Requests \ {r} : rows'[q] = rows[q] /\ events'[q] = events[q]
      /\ rows'[r].status \in {rows[r].status, new}
      /\ rows'[r].license = lic
      /\ events'[r] = Append(events[r], [from |-> seen, to |-> new])
  BY DEF UpdateStatus, AddEvent, StatusWritten, TypeOK
<1>3. /\ DOMAIN events'[r] = 1 .. Len(events[r]) + 1
      /\ events'[r][Len(events[r]) + 1] = [from |-> seen, to |-> new]
      /\ \A i \in DOMAIN events[r] : i \in DOMAIN events'[r] /\ events'[r][i] = events[r][i]
  BY <1>1, <1>2
<1>4. ASSUME NEW q \in Requests, Reviewed(events[q]) PROVE Reviewed(events'[q])
  BY <1>2, <1>3, <1>4 DEF Reviewed
<1> QED
  BY <1>2, <1>3, <1>4

(* A status update keeps the history reviewed-first, provided it approves or *)
(* generates only for a reviewed request.                                    *)
LEMMA UpdateStatusReviewed ==
  ASSUME HistoryInv, NEW r \in Requests, NEW seen \in Statuses \cup {None},
         NEW new \in Statuses, NEW lic \in Licenses \cup {None},
         UpdateStatus(r, seen, new, lic),
         new \in {"APPROVED", "LICENSE_GENERATED"} => Reviewed(events[r])
  PROVE  RowsReviewed' /\ ReviewedFirst'
<1> DEFINE n == Len(events[r])
<1>1. TypeOK /\ RowsReviewed /\ ReviewedFirst
  BY DEF HistoryInv
<1>2. n \in Nat /\ DOMAIN events[r] = 1 .. n
  BY <1>1 DEF TypeOK
<1>3. /\ \A q \in Requests \ {r} : rows'[q] = rows[q] /\ events'[q] = events[q]
      /\ rows'[r].status \in {rows[r].status, new}
      /\ DOMAIN events'[r] = 1 .. n + 1
      /\ events'[r][n + 1].to = new
      /\ \A i \in DOMAIN events[r] : events'[r][i] = events[r][i]
      /\ \A q \in Requests : Reviewed(events[q]) => Reviewed(events'[q])
  BY <1>1, UpdateStatusEffect
<1> HIDE DEF n
<1>4. new = "UNDER_REVIEW" => Reviewed(events'[r])
  BY <1>2, <1>3 DEF Reviewed
<1>5. ASSUME NEW q \in Requests,
             rows'[q].status \in {"UNDER_REVIEW", "APPROVED", "LICENSE_GENERATED"}
      PROVE  Reviewed(events'[q])
  <2>1. CASE rows'[q].status = rows[q].status
    BY <1>1, <1>3, <1>5, <2>1 DEF RowsReviewed
  <2>2. CASE rows'[q].status # rows[q].status
    <3>1. q = r /\ rows'[q].status = new
      BY <1>3, <2>2
    <3> QED
      BY <1>3, <1>4, <1>5, <3>1
  <2> QED
    BY <2>1, <2>2
<1>6. ASSUME NEW q \in Requests, NEW i \in DOMAIN events'[q],
             events'[q][i].to \in {"APPROVED", "LICENSE_GENERATED"}
      PROVE  \E j \in 1 .. i - 1 : events'[q][j].to = "UNDER_REVIEW"
  <2>1. CASE q # r
    BY <1>1, <1>3, <1>6, <2>1 DEF ReviewedFirst
  <2>2. CASE q = r /\ i = n + 1
    <3>1. PICK j \in 1 .. n : events[r][j].to = "UNDER_REVIEW"
      BY <1>2, <1>3, <1>6, <2>2 DEF Reviewed
    <3>2. j \in 1 .. i - 1 /\ events'[q][j].to = "UNDER_REVIEW"
      BY <1>2, <1>3, <2>2, <3>1
    <3> QED
      BY <3>2
  <2>3. CASE q = r /\ i # n + 1
    <3>1. i \in 1 .. n /\ events'[r][i] = events[r][i]
      BY <1>2, <1>3, <1>6, <2>3
    <3>2. PICK j \in 1 .. i - 1 : events[r][j].to = "UNDER_REVIEW"
      BY <1>1, <1>2, <1>6, <2>3, <3>1 DEF ReviewedFirst
    <3>3. events'[q][j].to = "UNDER_REVIEW"
      BY <1>2, <1>3, <2>3, <3>1, <3>2
    <3> QED
      BY <3>3
  <2> QED
    BY <2>1, <2>2, <2>3
<1> QED
  BY <1>5, <1>6 DEF RowsReviewed, ReviewedFirst

(* Every step of the system keeps the history reviewed-first.                *)
LEMMA HistoryStep ==
  ASSUME HistoryInv, SessionInv, [Next]_vars
  PROVE  RowsReviewed' /\ ReviewedFirst'
<1>1. TypeOK /\ RowsReviewed /\ ReviewedFirst /\ SessionsSound
  BY DEF HistoryInv, SessionInv
<1>2. ASSUME NEW r \in Requests, Submit(r) PROVE RowsReviewed' /\ ReviewedFirst'
  BY <1>2, UpdateStatusReviewed DEF Submit, Statuses
<1>3. ASSUME NEW w \in Workers, NEW new \in Statuses, NEW lic \in Licenses \cup {None},
             sessions[w].step # "idle",
             UpdateStatus(sessions[w].req, sessions[w].seen, new, lic),
             new \in {"APPROVED", "LICENSE_GENERATED"} => sessions[w].step \in Generating
      PROVE  RowsReviewed' /\ ReviewedFirst'
  <2>1. sessions[w].req \in Requests /\ sessions[w].seen \in Statuses \cup {None}
    BY <1>1, <1>3, SessionInProgress
  <2>2. sessions[w].step \in Generating => Reviewed(events[sessions[w].req])
    BY <1>1 DEF SessionsSound
  <2> QED
    BY <1>3, <2>1, <2>2, UpdateStatusReviewed
<1>4. ASSUME NEW w \in Workers, sessions[w].step # "idle"
      PROVE  /\ rows[sessions[w].req].license \in Licenses \cup {None}
             /\ sessions[w].lic \in Licenses \cup {None}
  BY <1>1, <1>4, SessionInProgress DEF TypeOK
<1>5. ASSUME NEW w \in Workers, ReviewCommit(w) PROVE RowsReviewed' /\ ReviewedFirst'
  BY <1>3, <1>4, <1>5 DEF ReviewCommit, Statuses
<1>6. ASSUME NEW w \in Workers, RejectCommit(w) PROVE RowsReviewed' /\ ReviewedFirst'
  BY <1>3, <1>4, <1>6 DEF RejectCommit, Statuses
<1>7. ASSUME NEW w \in Workers, GenerateApprove(w) PROVE RowsReviewed' /\ ReviewedFirst'
  BY <1>3, <1>4, <1>7 DEF GenerateApprove, Statuses, Generating
<1>8. ASSUME NEW w \in Workers, GenerateCommit(w) PROVE RowsReviewed' /\ ReviewedFirst'
  BY <1>3, <1>4, <1>8 DEF GenerateCommit, Statuses, Generating
<1>9. CASE UNCHANGED <<rows, events>>
  BY <1>1, <1>9 DEF RowsReviewed, ReviewedFirst, Reviewed
<1> QED
  BY <1>2, <1>5, <1>6, <1>7, <1>8, <1>9
     DEF Next, vars, ReviewLoad, RejectLoad, GenerateLoad, Load, GenerateRefresh, GenerateSave, Fail

(* What a status update that issues no license leaves true of the rows.      *)
LEMMA UpdateStatusBacked ==
  ASSUME TypeOK, RowsBacked, NEW r \in Requests, NEW seen \in Statuses \cup {None},
         NEW new \in Statuses \ {"LICENSE_GENERATED"}, NEW lic \in Licenses \cup {None},
         UpdateStatus(r, seen, new, lic), UNCHANGED <<licenses, files>>
  PROVE  lic = rows[r].license => RowsBacked'
<1>1. /\ \A q \in Requests \ {r} : rows'[q] = rows[q]
      /\ rows'[r].status \in {rows[r].status, new}
      /\ rows'[r].license = lic
  BY DEF UpdateStatus, StatusWritten, TypeOK
<1> QED
  BY <1>1 DEF RowsBacked

(* A step that moves one session on, keeps the reviews and does not touch    *)
(* licenses or files keeps the sessions sound.                               *)
LEMMA OneSessionMoves ==
  ASSUME TypeOK, SessionsSound, LicensesUnshared, NEW w \in Workers, NEW s,
         sessions' = [sessions EXCEPT ![w] = s],
         s.step \in {"idle", "review", "reject", "approve", "refresh", "save"},
         s.lic = None,
         s.step \in Generating => Reviewed(events'[s.req]),
         \A q \in Requests : Reviewed(events[q]) => Reviewed(events'[q]),
         UNCHANGED <<licenses, files>>
  PROVE  SessionsSound' /\ LicensesUnshared'
<1>1. /\ sessions'[w] = s
      /\ \A v \in Workers \ {w} : sessions'[v] = sessions[v]
  BY DEF TypeOK
<1>2. \A v \in Workers : sessions[v].step # "idle" => sessions[v].req \in Requests
  BY SessionInProgress
<1>3. SessionsSound'
  BY <1>1, <1>2 DEF SessionsSound, Generating
<1>4. LicensesUnshared'
  BY <1>1 DEF LicensesUnshared
<1> QED
  BY <1>3, <1>4

(* Every step of the system keeps the sessions and the licenses consistent.  *)
LEMMA SessionStep ==
  ASSUME HistoryInv, SessionInv, [Next]_vars
  PROVE  SessionInv'
<1>1. TypeOK /\ RowsReviewed /\ SessionsSound /\ LicensesUnshared /\ RowsBacked
  BY DEF HistoryInv, SessionInv
<1>2. ASSUME NEW r \in Requests, Submit(r) PROVE SessionInv'
  <2>1. \A q \in Requests : Reviewed(events[q]) => Reviewed(events'[q])
    BY <1>1, <1>2, UpdateStatusEffect DEF Submit, Statuses
  <2>2. \A v \in Workers : sessions[v].step # "idle" => sessions[v].req \in Requests
    BY <1>1, SessionInProgress
  <2>3. SessionsSound' /\ LicensesUnshared'
    BY <1>1, <1>2, <2>1, <2>2 DEF Submit, SessionsSound, LicensesUnshared, Generating
  <2>4. /\ \A q \in Requests \ {r} : rows'[q] = rows[q]
        /\ rows'[r].status # "LICENSE_GENERATED" /\ rows'[r].license = None
    <3>1. "PENDING" \in Statuses
      BY DEF Statuses
    <3> QED
      BY <1>1, <1>2, <3>1, NoneIsNoValue, UpdateStatusEffect DEF Submit, Statuses
  <2>5. RowsBacked'
    BY <1>1, <1>2, <2>4 DEF Submit, RowsBacked
  <2> QED
    BY <2>3, <2>5 DEF SessionInv
<1>3. ASSUME NEW w \in Workers, NEW r \in Requests, NEW step \in {"review", "reject", "approve"},
             Load(w, r, step), step = "approve" => Reviewed(events[r])
      PROVE  SessionInv'
  <2> DEFINE s == [step |-> step, req |-> r, seen |-> rows[r].status, lic |-> None]
  <2>1. \A q \in Requests : Reviewed(events'[q]) <=> Reviewed(events[q])
    BY <1>3 DEF Load, Reviewed
  <2>2. sessions' = [sessions EXCEPT ![w] = s] /\ UNCHANGED <<licenses, files>>
    BY <1>3 DEF Load
  <2>3. /\ s.step \in {"idle", "review", "reject", "approve", "refresh", "save"}
        /\ s.lic = None
        /\ s.step \in Generating => Reviewed(events'[s.req])
    BY <1>3, <2>1 DEF Generating
  <2> HIDE DEF s
  <2>4. SessionsSound' /\ LicensesUnshared'
    BY <1>1, <2>1, <2>2, <2>3, OneSessionMoves
  <2> QED
    BY <1>1, <1>3, <2>4 DEF SessionInv, Load, RowsBacked
<1>4. ASSUME NEW w \in Workers, NEW new \in Statuses \ {"LICENSE_GENERATED"}, NEW s,
             sessions[w].step # "idle",
             UpdateStatus(sessions[w].req, sessions[w].seen, new, rows[sessions[w].req].license),
             sessions' = [sessions EXCEPT ![w] = s],
             s.step \in {"idle", "refresh"}, s.lic = None,
             s.step = "refresh" => s.req = sessions[w].req /\ Reviewed(events[sessions[w].req]),
             UNCHANGED <<licenses, files>>
      PROVE  SessionInv'
  <2>1. sessions[w].req \in Requests /\ sessions[w].seen \in Statuses \cup {None}
    BY <1>1, <1>4, SessionInProgress
  <2>2. rows[sessions[w].req].license \in Licenses \cup {None}
    BY <1>1, <2>1 DEF TypeOK
  <2>3. RowsBacked'
    BY <1>1, <1>4, <2>1, <2>2, UpdateStatusBacked
  <2>4. \A q \in Requests : Reviewed(events[q]) => Reviewed(events'[q])
    BY <1>1, <1>4, <2>1, <2>2, UpdateStatusEffect
  <2>5. s.step \in Generating => Reviewed(events'[s.req])
    BY <1>4, <2>1, <2>4 DEF Generating
  <2>6. SessionsSound' /\ LicensesUnshared'
    BY <1>1, <1>4, <2>4, <2>5, OneSessionMoves
  <2> QED
    BY <2>3, <2>6 DEF SessionInv
<1>5. ASSUME NEW w \in Workers, ReviewCommit(w) PROVE SessionInv'
  <2>1. "UNDER_REVIEW" \in Statuses \ {"LICENSE_GENERATED"}
    BY DEF Statuses
  <2>2. Idle.step = "idle" /\ Idle.lic = None
    BY DEF Idle
  <2> QED
    BY <1>4, <1>5, <2>1, <2>2 DEF ReviewCommit
<1>6. ASSUME NEW w \in Workers, RejectCommit(w) PROVE SessionInv'
  <2>1. "REJECTED" \in Statuses \ {"LICENSE_GENERATED"}
    BY DEF Statuses
  <2>2. Idle.step = "idle" /\ Idle.lic = None
    BY DEF Idle
  <2> QED
    BY <1>4, <1>6, <2>1, <2>2 DEF RejectCommit
<1>7. ASSUME NEW w \in Workers, GenerateApprove(w) PROVE SessionInv'
  <2>1. sessions[w].step = "approve"
    BY <1>7 DEF GenerateApprove
  <2> DEFINE s == [sessions[w] EXCEPT !.step = "refresh"]
  <2>2. s.step = "refresh" /\ s.req = sessions[w].req /\ s.lic = sessions[w].lic
    BY <1>1, <2>1, SessionInProgress
  <2>3. s.lic = None /\ Reviewed(events[sessions[w].req])
    BY <1>1, <2>1, <2>2 DEF SessionsSound, Generating
  <2>4. sessions' = [sessions EXCEPT ![w] = s]
    BY <1>7 DEF GenerateApprove
  <2> HIDE DEF s
  <2> QED
    BY <1>4, <1>7, <2>1, <2>2, <2>3, <2>4 DEF GenerateApprove, Statuses
<1>8. ASSUME NEW w \in Workers, GenerateRefresh(w) PROVE SessionInv'
  <2> DEFINE s == [sessions[w] EXCEPT !.step = "save", !.seen = rows[sessions[w].req].status]
  <2>1. sessions[w].step = "refresh"
    BY <1>8 DEF GenerateRefresh
  <2>2. s.step = "save" /\ s.req = sessions[w].req /\ s.lic = sessions[w].lic
    BY <1>1, <2>1, SessionInProgress
  <2>3. s.lic = None /\ Reviewed(events[s.req])
    BY <1>1, <2>1, <2>2 DEF SessionsSound, Generating
  <2>4. sessions' = [sessions EXCEPT ![w] = s]
    BY <1>8 DEF GenerateRefresh
  <2> HIDE DEF s
  <2>5. Reviewed(events'[s.req]) /\ \A q \in Requests : Reviewed(events[q]) => Reviewed(events'[q])
    <3>1. sessions[w].req \in Requests
      BY <1>1, <2>1, SessionInProgress
    <3>2. \A q \in Requests : Reviewed(events[q]) => Reviewed(events'[q])
      BY <1>8 DEF GenerateRefresh, Reviewed
    <3> QED
      BY <1>8, <2>2, <2>3, <3>1, <3>2
  <2>6. SessionsSound' /\ LicensesUnshared'
    BY <1>1, <1>8, <2>2, <2>3, <2>4, <2>5, OneSessionMoves DEF GenerateRefresh
  <2> QED
    BY <1>1, <1>8, <2>6 DEF SessionInv, GenerateRefresh, RowsBacked
<1>9. ASSUME NEW w \in Workers, NEW l \in Licenses, GenerateSave(w, l) PROVE SessionInv'
  <2>1. sessions[w].step = "save" /\ sessions[w].req \in Requests
    BY <1>1, <1>9, SessionInProgress DEF GenerateSave
  <2>2. /\ sessions'[w].step = "commit" /\ sessions'[w].req = sessions[w].req
        /\ sessions'[w].lic = l
        /\ \A v \in Workers \ {w} : sessions'[v] = sessions[v]
    BY <1>1, <1>9, <2>1, SessionInProgress DEF GenerateSave, TypeOK
  <2>3. \A q \in Requests : /\ Reviewed(events'[q]) <=> Reviewed(events[q])
                            /\ files[q] # None => files'[q] # None
                            /\ q = sessions[w].req => files'[q] # None
    BY <1>1, <1>9, NoneIsNoValue DEF GenerateSave, Reviewed, TypeOK
  <2>4. \A v \in Workers : sessions[v].step # "idle" => sessions[v].req \in Requests
    BY <1>1, SessionInProgress
  <2>5. licenses' = licenses /\ licenses[l] = None /\ \A v \in Workers : sessions[v].lic # l
    BY <1>9 DEF GenerateSave, Fresh
  <2>6. Reviewed(events[sessions[w].req])
    BY <1>1, <2>1 DEF SessionsSound, Generating
  <2>7. SessionsSound'
    <3> SUFFICES ASSUME NEW v \in Workers
                 PROVE  /\ sessions'[v].step \in Generating => Reviewed(events'[sessions'[v].req])
                        /\ sessions'[v].step = "commit" =>
                             /\ sessions'[v].lic \in Licenses
                             /\ licenses'[sessions'[v].lic] = None
                             /\ files'[sessions'[v].req] # None
                        /\ sessions'[v].step # "commit" => sessions'[v].lic = None
      BY DEF SessionsSound
    <3>1. CASE v = w
      BY <2>1, <2>2, <2>3, <2>5, <2>6, <3>1
    <3>2. CASE v # w
      BY <1>1, <2>2, <2>3, <2>4, <2>5, <3>2 DEF SessionsSound, Generating
    <3> QED
      BY <3>1, <3>2
  <2>8. LicensesUnshared'
    BY <1>1, <2>2, <2>5 DEF LicensesUnshared
  <2>9. RowsBacked'
    BY <1>1, <1>9, <2>3 DEF RowsBacked, GenerateSave
  <2> QED
    BY <2>7, <2>8, <2>9 DEF SessionInv
<1>10. ASSUME NEW w \in Workers, GenerateCommit(w) PROVE SessionInv'
  <2> DEFINE r == sessions[w].req
             l == sessions[w].lic
  <2>1. sessions[w].step = "commit" /\ r \in Requests /\ sessions[w].seen \in Statuses \cup {None}
    BY <1>1, <1>10, SessionInProgress DEF GenerateCommit
  <2>2. l \in Licenses /\ l # None /\ licenses[l] = None /\ files[r] # None
    BY <1>1, <2>1, NoneIsNoValue DEF SessionsSound
  <2>3. UpdateStatus(r, sessions[w].seen, "LICENSE_GENERATED", l)
    BY <1>10 DEF GenerateCommit
  <2>4. /\ \A q \in Requests \ {r} : rows'[q] = rows[q]
        /\ rows'[r].license = l
        /\ \A q \in Requests : Reviewed(events[q]) => Reviewed(events'[q])
    <3>1. "LICENSE_GENERATED" \in Statuses /\ l \in Licenses \cup {None}
      BY <2>2 DEF Statuses
    <3> HIDE DEF r, l
    <3> QED
      BY <1>1, <2>1, <2>3, <3>1, UpdateStatusEffect
  <2>5. /\ licenses'[l] = r /\ files' = files
        /\ \A k \in Licenses \ {l} : licenses'[k] = licenses[k]
    BY <1>1, <1>10, <2>2 DEF GenerateCommit, TypeOK
  <2>6. /\ sessions'[w].step = "idle" /\ sessions'[w].lic = None
        /\ \A v \in Workers \ {w} : sessions'[v] = sessions[v] /\ sessions[v].lic # l
    BY <1>1, <1>10, <2>2 DEF GenerateCommit, TypeOK, Idle, LicensesUnshared
  <2>7. \A v \in Workers : sessions[v].step # "idle" => sessions[v].req \in Requests
    BY <1>1, SessionInProgress
  <2> HIDE DEF r, l
  <2>8. SessionsSound'
    BY <1>1, <2>4, <2>5, <2>6, <2>7 DEF SessionsSound, Generating
  <2>9. LicensesUnshared'
    BY <1>1, <2>6 DEF LicensesUnshared
  <2>10. RowsBacked'
    <3> SUFFICES ASSUME NEW q \in Requests
                 PROVE  /\ rows'[q].status = "LICENSE_GENERATED" => rows'[q].license # None
                        /\ rows'[q].license # None =>
                             licenses'[rows'[q].license] = q /\ files'[q] # None
      BY DEF RowsBacked
    <3>1. CASE q = r
      BY <2>1, <2>2, <2>4, <2>5, <3>1
    <3>2. CASE q # r
      <4>1. rows[q].license \in Licenses \cup {None}
        BY <1>1 DEF TypeOK
      <4>2. rows[q].license # None => rows[q].license # l
        BY <1>1, <2>2, NoneIsNoValue DEF RowsBacked
      <4> QED
        BY <1>1, <2>4, <2>5, <3>2, <4>1, <4>2 DEF RowsBacked
    <3> QED
      BY <3>1, <3>2
  <2> QED
    BY <2>8, <2>9, <2>10 DEF SessionInv
<1>11. ASSUME NEW w \in Workers, Fail(w) PROVE SessionInv'
  <2>1. \A q \in Requests : Reviewed(events[q]) => Reviewed(events'[q])
    BY <1>11 DEF Fail, Reviewed
  <2>2. SessionsSound' /\ LicensesUnshared'
    <3>1. Idle.step = "idle" /\ Idle.lic = None
      BY DEF Idle
    <3> QED
      BY <1>1, <1>11, <2>1, <3>1, OneSessionMoves DEF Fail, Generating
  <2> QED
    BY <1>1, <1>11, <2>2 DEF SessionInv, Fail, RowsBacked
<1>12. CASE UNCHANGED vars
  BY <1>1, <1>12 DEF vars, SessionInv, SessionsSound, LicensesUnshared, RowsBacked, Reviewed
<1>13. ASSUME NEW w \in Workers, NEW r \in Requests,
              ReviewLoad(w, r) \/ RejectLoad(w, r) \/ GenerateLoad(w, r)
       PROVE  SessionInv'
  <2>1. CASE ReviewLoad(w, r)
    BY <1>3, <2>1 DEF ReviewLoad
  <2>2. CASE RejectLoad(w, r)
    BY <1>3, <2>2 DEF RejectLoad
  <2>3. CASE GenerateLoad(w, r)
    BY <1>1, <1>3, <2>3 DEF GenerateLoad, MayGenerate, RowsReviewed
  <2> QED
    BY <1>13, <2>1, <2>2, <2>3
<1> QED
  BY <1>2, <1>5, <1>6, <1>7, <1>8, <1>9, <1>10, <1>11, <1>12, <1>13 DEF Next

-------------------------------------------------------------------------------
LEMMA Invariance == Spec => [](HistoryInv /\ SessionInv)
<1>1. Init => HistoryInv /\ SessionInv
  <2> SUFFICES ASSUME Init PROVE HistoryInv /\ SessionInv
    OBVIOUS
  <2>1. RowsReviewed /\ ReviewedFirst /\ RowsBacked
    BY NoneIsNoValue DEF Init, NoRow, RowsReviewed, ReviewedFirst, RowsBacked, Statuses
  <2>2. SessionsSound /\ LicensesUnshared
    BY DEF Init, Idle, SessionsSound, LicensesUnshared, Generating
  <2>3. TypeOK
    BY DEF Init, NoRow, TypeOK, Sessions
  <2> QED
    BY <2>1, <2>2, <2>3 DEF HistoryInv, SessionInv
<1>2. TypeOK' /\ HistoryInv /\ SessionInv /\ [Next]_vars => (HistoryInv /\ SessionInv)'
  BY HistoryStep, SessionStep DEF HistoryInv
<1>3. QED
  BY <1>1, <1>2, TypeCorrect, PTL DEF Spec

(* No approval and no license without a review, however handlers interleave  *)
(* and fail.                                                                 *)
THEOREM ReviewedBeforeLicensed == Spec => []ReviewedFirst
<1>1. HistoryInv => ReviewedFirst
  BY DEF HistoryInv
<1>2. QED
  BY <1>1, Invariance, PTL

(* A request shown as LICENSE_GENERATED names a license issued for its own   *)
(* machine, and its file is on disk.                                         *)
THEOREM GeneratedBacked == Spec => []GeneratedIsBacked
<1>1. HistoryInv /\ SessionInv => GeneratedIsBacked
  <2> SUFFICES ASSUME HistoryInv, SessionInv, NEW r \in Requests,
                      rows[r].status = "LICENSE_GENERATED"
               PROVE  /\ rows[r].license \in Licenses
                      /\ licenses[rows[r].license] = r
                      /\ files[r] # None
    BY DEF GeneratedIsBacked
  <2>1. rows[r].license \in Licenses \cup {None}
    BY DEF HistoryInv, TypeOK
  <2> QED
    BY <2>1 DEF SessionInv, RowsBacked
<1>2. QED
  BY <1>1, Invariance, PTL

-------------------------------------------------------------------------------
(* The update of a session in progress, in the form the action properties    *)
(* need: only the request of the session is written, and only with new.      *)
LEMMA UpdateOfSession ==
  ASSUME TypeOK, NEW w \in Workers, sessions[w].step # "idle",
         NEW new \in Statuses, NEW lic \in Licenses \cup {None},
         UpdateStatus(sessions[w].req, sessions[w].seen, new, lic)
  PROVE  /\ sessions[w].req \in Requests
         /\ \A q \in Requests \ {sessions[w].req} : rows'[q] = rows[q]
         /\ rows'[sessions[w].req].status \in {rows[sessions[w].req].status, new}
         /\ rows'[sessions[w].req].license = lic
<1>1. sessions[w].req \in Requests /\ sessions[w].seen \in Statuses \cup {None}
  BY SessionInProgress
<1> QED
  BY <1>1 DEF UpdateStatus, StatusWritten, TypeOK

(* Rejecting settles a request: a handler that may write something else must *)
(* have started before, as no check lets one start on a REJECTED request.    *)
THEOREM RejectionIsFinal == Spec => RejectionSettles
<1>1. ASSUME TypeOK, [Next]_vars, NEW r \in Requests,
             rows[r].status = "REJECTED", ~InProgressOn(r)
      PROVE  rows'[r].status = "REJECTED"
  <2>1. ASSUME NEW w \in Workers, sessions[w].step \notin {"idle", "reject"},
               NEW new \in Statuses, NEW lic \in Licenses \cup {None},
               UpdateStatus(sessions[w].req, sessions[w].seen, new, lic)
        PROVE  rows'[r].status = "REJECTED"
    BY <1>1, <2>1, UpdateOfSession DEF InProgressOn
  <2>2. ASSUME NEW w \in Workers, sessions[w].step # "idle"
        PROVE  /\ rows[sessions[w].req].license \in Licenses \cup {None}
               /\ sessions[w].lic \in Licenses \cup {None}
    BY <1>1, <2>2, SessionInProgress DEF TypeOK
  <2>3. {"UNDER_REVIEW", "APPROVED", "LICENSE_GENERATED", "REJECTED"} \subseteq Statuses
    BY DEF Statuses
  <2>4. ASSUME NEW q \in Requests, Submit(q) PROVE rows'[r].status = "REJECTED"
    <3>1. q # r
      BY <1>1, <2>4, NoneIsNoValue, <2>3 DEF Submit
    <3> QED
      BY <1>1, <2>4, <3>1 DEF Submit, UpdateStatus, TypeOK
  <2>5. ASSUME NEW w \in Workers, ReviewCommit(w) PROVE rows'[r].status = "REJECTED"
    BY <2>1, <2>2, <2>3, <2>5 DEF ReviewCommit
  <2>6. ASSUME NEW w \in Workers, RejectCommit(w) PROVE rows'[r].status = "REJECTED"
    <3>1. sessions[w].step # "idle"
      BY <2>6 DEF RejectCommit
    <3>2. UpdateStatus(sessions[w].req, sessions[w].seen, "REJECTED", rows[sessions[w].req].license)
      BY <2>6 DEF RejectCommit
    <3> QED
      BY <1>1, <2>2, <2>3, <3>1, <3>2, UpdateOfSession
  <2>7. ASSUME NEW w \in Workers, GenerateApprove(w) PROVE rows'[r].status = "REJECTED"
    BY <2>1, <2>2, <2>3, <2>7 DEF GenerateApprove
  <2>8. ASSUME NEW w \in Workers, GenerateCommit(w) PROVE rows'[r].status = "REJECTED"
    BY <2>1, <2>2, <2>3, <2>8 DEF GenerateCommit
  <2>9. CASE UNCHANGED rows
    BY <1>1, <2>9
  <2> QED
    BY <1>1, <2>4, <2>5, <2>6, <2>7, <2>8, <2>9
       DEF Next, vars, ReviewLoad, RejectLoad, GenerateLoad, Load, GenerateRefresh, GenerateSave, Fail
<1>2. ASSUME TypeOK, [Next]_vars, NEW r \in Requests,
             rows[r].status = "REJECTED", ~InProgressOn(r), NEW v \in Workers
      PROVE  ~(sessions'[v].req = r /\ sessions'[v].step # "reject")
  <2>1. ~(sessions[v].req = r /\ sessions[v].step # "reject")
    BY <1>2 DEF InProgressOn
  <2>2. Idle.req # r
    BY NoneIsNoValue DEF Idle
  <2>3. ASSUME NEW w \in Workers, NEW q \in Requests, NEW step, Load(w, q, step),
               q # r \/ step = "reject"
        PROVE  ~(sessions'[v].req = r /\ sessions'[v].step # "reject")
    BY <1>2, <2>1, <2>3 DEF Load, TypeOK
  <2>4. ASSUME NEW w \in Workers, sessions' = [sessions EXCEPT ![w] = Idle]
        PROVE  ~(sessions'[v].req = r /\ sessions'[v].step # "reject")
    BY <1>2, <2>1, <2>2, <2>4 DEF TypeOK
  <2>5. ASSUME NEW w \in Workers, sessions[w].step \in Generating,
               sessions'[w].req = sessions[w].req,
               \A u \in Workers \ {w} : sessions'[u] = sessions[u]
        PROVE  ~(sessions'[v].req = r /\ sessions'[v].step # "reject")
    BY <1>2, <2>1, <2>5 DEF InProgressOn, Generating
  <2>6. CASE UNCHANGED sessions
    BY <2>1, <2>6
  <2>7. ASSUME NEW w \in Workers, NEW q \in Requests,
               ReviewLoad(w, q) \/ RejectLoad(w, q) \/ GenerateLoad(w, q)
        PROVE  ~(sessions'[v].req = r /\ sessions'[v].step # "reject")
    BY <1>2, <2>3, <2>7 DEF ReviewLoad, RejectLoad, GenerateLoad, MayReview, MayGenerate
  <2>8. ASSUME NEW w \in Workers, GenerateApprove(w) \/ GenerateRefresh(w)
        PROVE  ~(sessions'[v].req = r /\ sessions'[v].step # "reject")
    <3>1. sessions[w].step \in {"approve", "refresh"}
      BY <2>8 DEF GenerateApprove, GenerateRefresh
    <3>2. sessions[w] \in [step : Steps, req : Requests, seen : Statuses \cup {None},
                           lic : Licenses \cup {None}]
      BY <1>2, <3>1, SessionInProgress
    <3>3. sessions'[w].req = sessions[w].req
      BY <1>2, <2>8, <3>2 DEF GenerateApprove, GenerateRefresh, TypeOK
    <3>4. \A u \in Workers \ {w} : sessions'[u] = sessions[u]
      BY <1>2, <2>8 DEF GenerateApprove, GenerateRefresh, TypeOK
    <3> QED
      BY <2>5, <3>1, <3>3, <3>4 DEF Generating
  <2>9. ASSUME NEW w \in Workers, NEW l \in Licenses, GenerateSave(w, l)
        PROVE  ~(sessions'[v].req = r /\ sessions'[v].step # "reject")
    BY <1>2, <2>5, <2>9 DEF GenerateSave, Generating, TypeOK
  <2> QED
    BY <1>2, <2>4, <2>6, <2>7, <2>8, <2>9
       DEF Next, vars, Submit, ReviewCommit, RejectCommit, GenerateCommit, Fail
<1>3. TypeOK /\ [Next]_vars => [\A r \in Requests : Settled(r) => Settled(r)']_vars
  BY <1>1, <1>2 DEF Settled, InProgressOn
<1>4. QED
  BY <1>3, TypeCorrect, PTL DEF Spec, RejectionSettles

(* What was done is not undone.                                              *)
THEOREM NothingIsUndone == Spec => NothingUndone
<1> DEFINE Kept ==
      /\ \A r \in Requests :
           /\ rows[r].status # None => rows'[r].status # None
           /\ rows[r].status \notin {None, "PENDING"} => rows'[r].status # "PENDING"
           /\ rows[r].status # None /\ rows[r].license # None => rows'[r].license # None
      /\ \A l \in Licenses : licenses[l] # None => licenses'[l] = licenses[l]
<1>1. ASSUME HistoryInv, SessionInv, [Next]_vars PROVE Kept
  <2>1. TypeOK /\ SessionsSound
    BY <1>1 DEF HistoryInv, SessionInv
  <2>2. {"UNDER_REVIEW", "APPROVED", "LICENSE_GENERATED", "REJECTED"} \subseteq Statuses \ {None, "PENDING"}
    BY NoneIsNoValue DEF Statuses
  <2>3. ASSUME NEW w \in Workers, sessions[w].step # "idle",
               NEW new \in Statuses \ {None, "PENDING"}, NEW lic \in Licenses \cup {None},
               UpdateStatus(sessions[w].req, sessions[w].seen, new, lic),
               lic = None => rows[sessions[w].req].license = None,
               \A l \in Licenses : licenses[l] # None => licenses'[l] = licenses[l]
        PROVE  Kept
    <3>1. /\ sessions[w].req \in Requests
          /\ \A q \in Requests \ {sessions[w].req} : rows'[q] = rows[q]
          /\ rows'[sessions[w].req].status \in {rows[sessions[w].req].status, new}
          /\ rows'[sessions[w].req].license = lic
      BY <2>1, <2>3, UpdateOfSession
    <3> QED
      BY <2>3, <3>1
  <2>4. ASSUME NEW w \in Workers, sessions[w].step # "idle"
        PROVE  rows[sessions[w].req].license \in Licenses \cup {None}
    BY <2>1, <2>4, SessionInProgress DEF TypeOK
  <2>5. ASSUME NEW q \in Requests, Submit(q) PROVE Kept
    <3>1. /\ \A p \in Requests \ {q} : rows'[p] = rows[p]
          /\ rows[q].status = None /\ rows'[q].status = "PENDING" /\ licenses' = licenses
      BY <2>1, <2>5, NoneIsNoValue DEF Submit, UpdateStatus, StatusWritten, TypeOK, Statuses
    <3> QED
      BY <3>1
  <2>6. ASSUME NEW w \in Workers, ReviewCommit(w) PROVE Kept
    BY <2>2, <2>3, <2>4, <2>6 DEF ReviewCommit
  <2>7. ASSUME NEW w \in Workers, RejectCommit(w) PROVE Kept
    BY <2>2, <2>3, <2>4, <2>7 DEF RejectCommit
  <2>8. ASSUME NEW w \in Workers, GenerateApprove(w) PROVE Kept
    BY <2>2, <2>3, <2>4, <2>8 DEF GenerateApprove
  <2>9. ASSUME NEW w \in Workers, GenerateCommit(w) PROVE Kept
    <3>1. sessions[w].lic \in Licenses /\ licenses[sessions[w].lic] = None
      BY <2>1, <2>9 DEF SessionsSound, GenerateCommit
    <3>2. \A l \in Licenses : licenses[l] # None => licenses'[l] = licenses[l]
      BY <2>1, <2>9, <3>1 DEF GenerateCommit, TypeOK
    <3>3. sessions[w].lic # None
      BY <3>1, NoneIsNoValue
    <3> HIDE DEF Kept
    <3> QED
      BY <2>2, <2>3, <2>9, <3>1, <3>2, <3>3 DEF GenerateCommit
  <2>10. CASE UNCHANGED <<rows, licenses>>
    BY <2>10
  <2> QED
    BY <1>1, <2>5, <2>6, <2>7, <2>8, <2>9, <2>10
       DEF Next, vars, ReviewLoad, RejectLoad, GenerateLoad, Load, GenerateRefresh, GenerateSave, Fail
<1>2. HistoryInv /\ SessionInv /\ [Next]_vars => [Kept]_vars
  BY <1>1
<1>3. QED
  BY <1>2, Invariance, PTL DEF Spec, NothingUndone

-------------------------------------------------------------------------------
(* A request's licenses and its LICENSE_GENERATED events grow together.      *)
Accounted ==
  \A r \in Requests :
    /\ IsFiniteSet(Issued(r))
    /\ IsFiniteSet(GenerationEvents(r))
    /\ Cardinality(Issued(r)) = Cardinality(GenerationEvents(r))

(* A status update adds its event to the generations exactly when it says    *)
(* LICENSE_GENERATED.                                                        *)
LEMMA GenerationEventsGrow ==
  ASSUME TypeOK, NEW r \in Requests, NEW seen \in Statuses \cup {None},
         NEW new \in Statuses, NEW lic \in Licenses \cup {None},
         UpdateStatus(r, seen, new, lic)
  PROVE  /\ \A q \in Requests \ {r} : GenerationEvents(q)' = GenerationEvents(q)
         /\ new # "LICENSE_GENERATED" => GenerationEvents(r)' = GenerationEvents(r)
         /\ new = "LICENSE_GENERATED" =>
              GenerationEvents(r)' = GenerationEvents(r) \cup {Len(events[r]) + 1}
         /\ Len(events[r]) + 1 \notin GenerationEvents(r)
<1>1. events[r] \in Seq(Events) /\ [from |-> seen, to |-> new] \in Events
  BY DEF TypeOK, Events
<1>2. /\ \A q \in Requests \ {r} : events'[q] = events[q]
      /\ events'[r] = Append(events[r], [from |-> seen, to |-> new])
  BY DEF UpdateStatus, AddEvent, TypeOK
<1>3. /\ DOMAIN events[r] = 1 .. Len(events[r]) /\ Len(events[r]) \in Nat
      /\ DOMAIN events'[r] = 1 .. Len(events[r]) + 1
      /\ events'[r][Len(events[r]) + 1].to = new
      /\ \A i \in DOMAIN events[r] : events'[r][i] = events[r][i]
  BY <1>1, <1>2
<1>4. \A q \in Requests \ {r} : GenerationEvents(q)' = GenerationEvents(q)
  BY <1>2 DEF GenerationEvents
<1>5. Len(events[r]) + 1 \notin GenerationEvents(r)
  BY <1>3 DEF GenerationEvents
<1>6. new # "LICENSE_GENERATED" => GenerationEvents(r)' = GenerationEvents(r)
  BY <1>3 DEF GenerationEvents
<1>7. new = "LICENSE_GENERATED" =>
        GenerationEvents(r)' = GenerationEvents(r) \cup {Len(events[r]) + 1}
  BY <1>3 DEF GenerationEvents
<1> QED
  BY <1>4, <1>5, <1>6, <1>7

(* Every license of a request has its LICENSE_GENERATED event, and the other *)
(* way round.                                                                *)
THEOREM LicensesAreAccounted == Spec => []LicensesAccounted
<1>1. Init => Accounted
  <2> SUFFICES ASSUME Init, NEW r \in Requests
               PROVE  Issued(r) = {} /\ GenerationEvents(r) = {}
    BY FS_EmptySet DEF Accounted
  <2> QED
    BY NoneIsNoValue DEF Init, Issued, GenerationEvents
<1>2. ASSUME HistoryInv, SessionInv, Accounted, [Next]_vars PROVE Accounted'
  <2>1. TypeOK /\ SessionsSound
    BY <1>2 DEF HistoryInv, SessionInv
  <2>2. ASSUME NEW r \in Requests, NEW seen \in Statuses \cup {None},
               NEW new \in Statuses \ {"LICENSE_GENERATED"}, NEW lic \in Licenses \cup {None},
               UpdateStatus(r, seen, new, lic), licenses' = licenses
        PROVE  Accounted'
    <3>1. \A q \in Requests : GenerationEvents(q)' = GenerationEvents(q)
      BY <2>1, <2>2, GenerationEventsGrow
    <3>2. \A q \in Requests : Issued(q)' = Issued(q)
      BY <2>2 DEF Issued
    <3> QED
      BY <1>2, <3>1, <3>2 DEF Accounted
  <2>3. ASSUME NEW w \in Workers, sessions[w].step # "idle"
        PROVE  /\ sessions[w].req \in Requests /\ sessions[w].seen \in Statuses \cup {None}
               /\ rows[sessions[w].req].license \in Licenses \cup {None}
    BY <2>1, <2>3, SessionInProgress DEF TypeOK
  <2>4. {"PENDING", "UNDER_REVIEW", "APPROVED", "REJECTED"} \subseteq Statuses \ {"LICENSE_GENERATED"}
    BY DEF Statuses
  <2>5. ASSUME NEW r \in Requests, Submit(r) PROVE Accounted'
    BY <2>2, <2>4, <2>5 DEF Submit
  <2>6. ASSUME NEW w \in Workers, ReviewCommit(w) PROVE Accounted'
    BY <2>2, <2>3, <2>4, <2>6 DEF ReviewCommit
  <2>7. ASSUME NEW w \in Workers, RejectCommit(w) PROVE Accounted'
    BY <2>2, <2>3, <2>4, <2>7 DEF RejectCommit
  <2>8. ASSUME NEW w \in Workers, GenerateApprove(w) PROVE Accounted'
    BY <2>2, <2>3, <2>4, <2>8 DEF GenerateApprove
  <2>9. ASSUME NEW w \in Workers, GenerateCommit(w),
               NEW r \in Requests, r = sessions[w].req,
               NEW l \in Licenses, l = sessions[w].lic,
               NEW n, n = Len(events[r]) + 1
        PROVE  Accounted'
    <3>1. licenses[l] = None /\ sessions[w].seen \in Statuses \cup {None} /\ r # None
      BY <2>1, <2>3, <2>9, NoneIsNoValue DEF SessionsSound, GenerateCommit
    <3>2. UpdateStatus(r, sessions[w].seen, "LICENSE_GENERATED", l)
      BY <2>9 DEF GenerateCommit
    <3>3. licenses' = [licenses EXCEPT ![l] = r]
      BY <2>9 DEF GenerateCommit
    <3>4. /\ Issued(r)' = Issued(r) \cup {l} /\ l \notin Issued(r)
          /\ \A q \in Requests \ {r} : Issued(q)' = Issued(q)
      BY <2>1, <3>1, <3>3, NoneIsNoValue DEF TypeOK, Issued
    <3>5. "LICENSE_GENERATED" \in Statuses
      BY DEF Statuses
    <3>6. /\ GenerationEvents(r)' = GenerationEvents(r) \cup {n} /\ n \notin GenerationEvents(r)
          /\ \A q \in Requests \ {r} : GenerationEvents(q)' = GenerationEvents(q)
      BY <2>1, <2>9, <3>1, <3>2, <3>5, GenerationEventsGrow
    <3>7. /\ IsFiniteSet(Issued(r)') /\ Cardinality(Issued(r)') = Cardinality(Issued(r)) + 1
      BY <1>2, <3>4, FS_AddElement DEF Accounted
    <3>8. /\ IsFiniteSet(GenerationEvents(r)')
          /\ Cardinality(GenerationEvents(r)') = Cardinality(GenerationEvents(r)) + 1
      BY <1>2, <3>6, FS_AddElement DEF Accounted
    <3>9. ASSUME NEW q \in Requests
          PROVE  /\ IsFiniteSet(Issued(q)')
                 /\ IsFiniteSet(GenerationEvents(q)')
                 /\ Cardinality(Issued(q)') = Cardinality(GenerationEvents(q)')
      <4>1. CASE q = r
        BY <1>2, <3>7, <3>8, <4>1 DEF Accounted
      <4>2. CASE q # r
        BY <1>2, <3>4, <3>6, <4>2 DEF Accounted
      <4> QED
        BY <4>1, <4>2
    <3> QED
      BY <3>9 DEF Accounted
  <2>10. CASE UNCHANGED <<events, licenses>>
    BY <1>2, <2>10 DEF Accounted, Issued, GenerationEvents
  <2>11. ASSUME NEW w \in Workers, GenerateCommit(w) PROVE Accounted'
    <3>1. sessions[w].req \in Requests /\ sessions[w].lic \in Licenses
      BY <2>1, <2>3, <2>11 DEF SessionsSound, GenerateCommit
    <3> QED
      BY <2>9, <2>11, <3>1
  <2> QED
    BY <1>2, <2>5, <2>6, <2>7, <2>8, <2>10, <2>11
       DEF Next, vars, ReviewLoad, RejectLoad, GenerateLoad, Load, GenerateRefresh, GenerateSave, Fail
<1>3. Accounted => LicensesAccounted
  BY DEF Accounted, LicensesAccounted
<1>4. QED
  BY <1>1, <1>2, <1>3, Invariance, PTL DEF Spec

-------------------------------------------------------------------------------
(* Until requests overlap, a handler knows the status of its request, except  *)
(* between approving and reading again.                                       *)
OneAtATime ==
  \A v, w \in Workers : v = w \/ sessions[v].step = "idle" \/ sessions[w].step = "idle"

Current(w) ==
  LET s == sessions[w]
  IN  /\ s.step # "idle" => rows[s.req].status # None
      /\ s.step \in {"review", "reject", "approve", "save", "commit"} =>
           s.seen = rows[s.req].status
      /\ s.step \in {"refresh", "save", "commit"} => rows[s.req].status = "APPROVED"
      /\ s.step = "review" => MayReview(s.seen)
      /\ s.step = "approve" => MayGenerate(s.seen)
      /\ s.step = "commit" => files[s.req] = s.lic

(* The history ends with the status of its row, and a row names the only      *)
(* license of its request once it is generated.                               *)
HistoryEnds ==
  \A r \in Requests :
    IF events[r] = <<>> THEN rows[r].status = None
    ELSE events[r][Len(events[r])].to = rows[r].status

SingleLicense ==
  \A r \in Requests :
    /\ rows[r].status \notin {"LICENSE_GENERATED", "REJECTED"} => rows[r].license = None
    /\ rows[r].license = None => Issued(r) = {}
    /\ rows[r].license # None => Issued(r) = {rows[r].license} /\ files[r] = rows[r].license

Settles == HistoryEnds /\ HistoryChains /\ SingleLicense

AloneInv ==
  /\ overlapped \in BOOLEAN
  /\ ~overlapped => OneAtATime /\ (\A w \in Workers : Current(w)) /\ Settles

LEMMA NoOverlap ==
  ASSUME NEW ss \in [Workers -> Sessions], ~Overlap(ss), NEW v \in Workers, NEW w \in Workers
  PROVE  v = w \/ ss[v].step = "idle" \/ ss[w].step = "idle"
<1> SUFFICES ASSUME v # w, ss[v].step # "idle", ss[w].step # "idle" PROVE FALSE
  OBVIOUS
<1>1. {v, w} \subseteq Busy(ss) /\ Busy(ss) \subseteq Workers
  BY DEF Busy
<1>2. IsFiniteSet(Busy(ss))
  BY <1>1, WorkersAreFinite, FS_Subset
<1>3. Cardinality({v, w}) = 2
  <2>1. IsFiniteSet({v}) /\ Cardinality({v}) = 1
    BY FS_Singleton
  <2>2. {v, w} = {v} \cup {w} /\ w \notin {v}
    OBVIOUS
  <2>3. Cardinality({v} \cup {w}) = Cardinality({v}) + 1
    BY <2>1, <2>2, FS_AddElement
  <2> QED
    BY <2>1, <2>2, <2>3
<1>4. Cardinality({v, w}) <= Cardinality(Busy(ss)) /\ Cardinality(Busy(ss)) \in Nat
  BY <1>1, <1>2, FS_Subset, FS_CardinalityType
<1> QED
  BY <1>3, <1>4 DEF Overlap

(* An update by one who knows the status continues the chain.                 *)
LEMMA UpdateChains ==
  ASSUME TypeOK, HistoryEnds, HistoryChains, NEW r \in Requests, NEW new \in Statuses,
         NEW lic \in Licenses \cup {None}, UpdateStatus(r, rows[r].status, new, lic)
  PROVE  /\ HistoryEnds' /\ HistoryChains'
         /\ rows'[r].status = new /\ rows'[r].license = lic
         /\ \A q \in Requests \ {r} : rows'[q] = rows[q]
<1> DEFINE e == [from |-> rows[r].status, to |-> new]
<1>1. events[r] \in Seq(Events) /\ e \in Events
  BY DEF TypeOK, Events
<1>2. /\ \A q \in Requests \ {r} : rows'[q] = rows[q] /\ events'[q] = events[q]
      /\ rows'[r].status = new /\ rows'[r].license = lic
      /\ events'[r] = Append(events[r], e)
  BY DEF UpdateStatus, AddEvent, StatusWritten, TypeOK
<1>3. /\ Len(events'[r]) = Len(events[r]) + 1 /\ Len(events[r]) \in Nat
      /\ events'[r][Len(events[r]) + 1] = e /\ events'[r] # <<>>
      /\ \A i \in 1 .. Len(events[r]) : events'[r][i] = events[r][i]
  BY <1>1, <1>2
<1>4. HistoryEnds'
  BY <1>2, <1>3 DEF HistoryEnds
<1>5. ASSUME NEW i \in 2 .. Len(events'[r]) PROVE events'[r][i].from = events'[r][i - 1].to
  <2>1. CASE i = Len(events[r]) + 1
    <3>1. events[r] # <<>> /\ i - 1 = Len(events[r])
      BY <1>1, <1>3, <2>1
    <3>2. events[r][i - 1].to = rows[r].status
      BY <3>1 DEF HistoryEnds
    <3> QED
      BY <1>3, <2>1, <3>1, <3>2
  <2>2. CASE i # Len(events[r]) + 1
    <3>1. i \in 2 .. Len(events[r]) /\ i - 1 \in 1 .. Len(events[r]) /\ i \in 1 .. Len(events[r])
      BY <1>3, <1>5, <2>2
    <3> QED
      BY <1>3, <3>1 DEF HistoryChains
  <2> QED
    BY <2>1, <2>2
<1>6. HistoryChains'
  BY <1>2, <1>5 DEF HistoryChains
<1> QED
  BY <1>2, <1>4, <1>6

(* One that keeps the license keeps it single.                                *)
LEMMA UpdateSettles ==
  ASSUME TypeOK, Settles, NEW r \in Requests, NEW new \in Statuses,
         UpdateStatus(r, rows[r].status, new, rows[r].license),
         new = "REJECTED" \/ rows[r].license = None, UNCHANGED <<licenses, files>>
  PROVE  Settles'
<1>1. rows[r].license \in Licenses \cup {None}
  BY DEF TypeOK
<1>2. /\ HistoryEnds' /\ HistoryChains'
      /\ rows'[r].status = new /\ rows'[r].license = rows[r].license
      /\ \A q \in Requests \ {r} : rows'[q] = rows[q]
  BY <1>1, UpdateChains DEF Settles
<1>3. \A q \in Requests : Issued(q)' = Issued(q)
  BY DEF Issued
<1>4. SingleLicense'
  BY <1>2, <1>3 DEF SingleLicense, Settles
<1> QED
  BY <1>2, <1>4 DEF Settles

(* A handler that ends alone leaves none at work.                             *)
LEMMA EndsCurrent ==
  ASSUME TypeOK, OneAtATime, NEW w \in Workers, sessions[w].step # "idle",
         sessions' = [sessions EXCEPT ![w] = Idle]
  PROVE  \A v \in Workers : Current(v)'
<1>1. \A v \in Workers : sessions'[v].step = "idle"
  BY DEF OneAtATime, TypeOK, Idle
<1> QED
  BY <1>1 DEF Current

(* A step of a handler that is alone.                                         *)
LEMMA AloneStep ==
  ASSUME TypeOK, SessionsSound, [Next]_vars, OneAtATime, \A w \in Workers : Current(w), Settles
  PROVE  (\A w \in Workers : Current(w)') /\ Settles'
<1>1. ASSUME NEW w \in Workers, sessions[w].step # "idle"
      PROVE  /\ sessions[w].req \in Requests /\ rows[sessions[w].req].license \in Licenses \cup {None}
             /\ \A v \in Workers \ {w} : sessions[v].step = "idle"
  BY <1>1, SessionInProgress DEF TypeOK, OneAtATime
<1>2. {"PENDING", "UNDER_REVIEW", "APPROVED", "LICENSE_GENERATED", "REJECTED"} = Statuses
  BY DEF Statuses
<1>3. ASSUME NEW r \in Requests, Submit(r)
      PROVE  (\A w \in Workers : Current(w)') /\ Settles'
  <2>1. rows[r].status = None /\ rows[r].license = None /\ UpdateStatus(r, None, "PENDING", None)
    BY <1>3, NoneIsNoValue DEF Submit, Settles, SingleLicense, Statuses
  <2>2. Settles'
    BY <1>2, <1>3, <2>1, UpdateSettles DEF Submit
  <2>3. \A q \in Requests \ {r} : rows'[q] = rows[q]
    BY <2>1 DEF UpdateStatus
  <2>4. ASSUME NEW w \in Workers PROVE Current(w)'
    <3>1. sessions' = sessions /\ files' = files /\ Current(w)
      BY <1>3 DEF Submit
    <3>2. sessions[w].step # "idle" => sessions[w].req \in Requests \ {r}
      BY <1>1, <2>1 DEF Current
    <3> QED
      BY <2>3, <3>1, <3>2 DEF Current
  <2> QED
    BY <2>2, <2>4
<1>4. ASSUME NEW w \in Workers, NEW r \in Requests, NEW step \in {"review", "reject", "approve"},
             Load(w, r, step), step = "review" => MayReview(rows[r].status),
             step = "approve" => MayGenerate(rows[r].status)
      PROVE  (\A v \in Workers : Current(v)') /\ Settles'
  <2>1. sessions'[w] = [step |-> step, req |-> r, seen |-> rows[r].status, lic |-> None]
    BY <1>4 DEF Load, TypeOK
  <2>2. \A v \in Workers \ {w} : sessions'[v] = sessions[v]
    BY <1>4 DEF Load, TypeOK
  <2>3. Current(w)'
    <3>1. /\ sessions'[w].step = step /\ sessions'[w].req = r
          /\ sessions'[w].seen = rows[r].status
          /\ rows' = rows /\ rows[r].status # None
      BY <1>4, <2>1 DEF Load
    <3> QED
      BY <1>4, <3>1 DEF Current
  <2>4. \A v \in Workers \ {w} : Current(v)'
    BY <1>4, <2>2 DEF Load, Current
  <2>5. Settles'
    BY <1>4 DEF Load, Settles, HistoryEnds, HistoryChains, SingleLicense, Issued
  <2> QED
    BY <2>3, <2>4, <2>5
<1>5. ASSUME NEW w \in Workers, ReviewCommit(w)
      PROVE  (\A v \in Workers : Current(v)') /\ Settles'
  <2>1. /\ sessions[w].seen = rows[sessions[w].req].status
        /\ rows[sessions[w].req].status = "PENDING"
    BY <1>5 DEF ReviewCommit, Current, MayReview
  <2>2. rows[sessions[w].req].license = None
    BY <1>1, <1>5, <2>1 DEF ReviewCommit, Settles, SingleLicense
  <2>3. Settles'
    BY <1>1, <1>2, <1>5, <2>1, <2>2, UpdateSettles DEF ReviewCommit
  <2> QED
    BY <1>5, <2>3, EndsCurrent DEF ReviewCommit
<1>6. ASSUME NEW w \in Workers, RejectCommit(w)
      PROVE  (\A v \in Workers : Current(v)') /\ Settles'
  <2>1. sessions[w].seen = rows[sessions[w].req].status
    BY <1>6 DEF RejectCommit, Current
  <2>2. Settles'
    BY <1>1, <1>2, <1>6, <2>1, UpdateSettles DEF RejectCommit
  <2> QED
    BY <1>6, <2>2, EndsCurrent DEF RejectCommit
<1>7. ASSUME NEW w \in Workers, GenerateApprove(w)
      PROVE  (\A v \in Workers : Current(v)') /\ Settles'
  <2> DEFINE r == sessions[w].req
  <2>1. /\ sessions[w].seen = rows[r].status /\ r \in Requests
        /\ rows[r].status \in {"UNDER_REVIEW", "APPROVED"}
    BY <1>1, <1>7 DEF GenerateApprove, Current, MayGenerate
  <2>2. rows[r].license = None
    BY <2>1 DEF Settles, SingleLicense
  <2>3. UpdateStatus(r, rows[r].status, "APPROVED", rows[r].license) /\ UNCHANGED <<licenses, files>>
    BY <1>7, <2>1 DEF GenerateApprove
  <2>4. Settles'
    BY <1>2, <2>1, <2>2, <2>3, UpdateSettles
  <2>5. rows'[r].status = "APPROVED"
    BY <2>1, <2>3 DEF UpdateStatus, StatusWritten, TypeOK
  <2>6. sessions'[w] = [sessions[w] EXCEPT !.step = "refresh"]
    BY <1>7 DEF GenerateApprove, TypeOK
  <2>7. sessions'[w].step = "refresh" /\ sessions'[w].req = r
    BY <1>7, <2>6, SessionInProgress DEF GenerateApprove
  <2>8. Current(w)'
    <3>1. rows'[sessions'[w].req].status = "APPROVED" /\ "APPROVED" # None
      BY <2>5, <2>7, NoneIsNoValue DEF Statuses
    <3> QED
      BY <2>7, <3>1 DEF Current
  <2>9. ASSUME NEW v \in Workers \ {w} PROVE Current(v)'
    <3>1. sessions'[v] = sessions[v] /\ sessions[v].step = "idle"
      BY <1>1, <1>7 DEF GenerateApprove, TypeOK
    <3> QED
      BY <3>1 DEF Current
  <2> QED
    BY <2>4, <2>8, <2>9
<1>8. ASSUME NEW w \in Workers, GenerateRefresh(w) \/ \E l \in Licenses : GenerateSave(w, l)
      PROVE  (\A v \in Workers : Current(v)') /\ Settles'
  <2> DEFINE r == sessions[w].req
  <2>1. rows[r].status = "APPROVED" /\ r \in Requests /\ sessions[w].step # "idle"
    BY <1>1, <1>8 DEF GenerateRefresh, GenerateSave, Current
  <2>2. /\ rows' = rows /\ events' = events /\ licenses' = licenses
        /\ \A q \in Requests \ {r} : files'[q] = files[q]
    BY <1>8 DEF GenerateRefresh, GenerateSave, TypeOK
  <2>3. rows[r].license = None
    BY <2>1 DEF Settles, SingleLicense
  <2>4. Settles'
    BY <2>2, <2>3 DEF Settles, HistoryEnds, HistoryChains, SingleLicense, Issued
  <2>5. /\ sessions'[w].step \in {"save", "commit"} /\ sessions'[w].req = r
        /\ sessions'[w].seen = rows[r].status
        /\ sessions'[w].step = "commit" => files'[r] = sessions'[w].lic
    <3>1. CASE GenerateRefresh(w)
      <4>1. sessions'[w] = [sessions[w] EXCEPT !.step = "save", !.seen = rows[r].status]
        BY <3>1 DEF GenerateRefresh, TypeOK
      <4> QED
        BY <2>1, <4>1, SessionInProgress
    <3>2. ASSUME NEW l \in Licenses, GenerateSave(w, l)
          PROVE  /\ sessions'[w].step \in {"save", "commit"} /\ sessions'[w].req = r
                 /\ sessions'[w].seen = rows[r].status
                 /\ files'[r] = sessions'[w].lic
      <4>1. /\ sessions'[w] = [sessions[w] EXCEPT !.step = "commit", !.lic = l]
            /\ files'[r] = l
        BY <2>1, <3>2 DEF GenerateSave, TypeOK
      <4>2. sessions[w].seen = rows[r].status
        BY <3>2 DEF GenerateSave, Current
      <4> QED
        BY <2>1, <4>1, <4>2, SessionInProgress
    <3> QED
      BY <1>8, <3>1, <3>2
  <2>6. Current(w)'
    BY <2>1, <2>2, <2>5, NoneIsNoValue DEF Current, Statuses
  <2>7. ASSUME NEW v \in Workers \ {w} PROVE Current(v)'
    <3>1. sessions'[v] = sessions[v] /\ sessions[v].step = "idle"
      BY <1>1, <1>8, <2>1 DEF GenerateRefresh, GenerateSave, TypeOK
    <3> QED
      BY <3>1 DEF Current
  <2> QED
    BY <2>4, <2>6, <2>7
<1>9. ASSUME NEW w \in Workers, GenerateCommit(w)
      PROVE  (\A v \in Workers : Current(v)') /\ Settles'
  <2> DEFINE r == sessions[w].req
             l == sessions[w].lic
  <2>1. /\ rows[r].status = "APPROVED" /\ sessions[w].seen = rows[r].status
        /\ r \in Requests /\ l \in Licenses /\ licenses[l] = None
    BY <1>1, <1>9 DEF GenerateCommit, Current, SessionsSound
  <2>2. rows[r].license = None /\ Issued(r) = {}
    BY <2>1 DEF Settles, SingleLicense
  <2>3. UpdateStatus(r, rows[r].status, "LICENSE_GENERATED", l)
    BY <1>9, <2>1 DEF GenerateCommit
  <2>4. /\ HistoryEnds' /\ HistoryChains'
        /\ rows'[r].status = "LICENSE_GENERATED" /\ rows'[r].license = l
        /\ \A q \in Requests \ {r} : rows'[q] = rows[q]
    BY <1>2, <2>1, <2>3, UpdateChains DEF Settles
  <2>5. files'[r] = l /\ licenses' = [licenses EXCEPT ![l] = r]
    <3>1. sessions[w].step = "commit" /\ files' = files
      BY <1>9 DEF GenerateCommit
    <3>2. files[r] = l
      BY <3>1 DEF Current
    <3> QED
      BY <1>9, <3>1, <3>2 DEF GenerateCommit
  <2>6. /\ {m \in Licenses : licenses'[m] = r} = {l}
        /\ \A q \in Requests \ {r} : {m \in Licenses : licenses'[m] = q} = Issued(q)
    BY <2>1, <2>2, <2>5, NoneIsNoValue DEF Issued, TypeOK
  <2>7. \A q \in Requests : files'[q] = files[q]
    BY <1>9 DEF GenerateCommit
  <2>8. SingleLicense'
    <3> SUFFICES ASSUME NEW q \in Requests
                 PROVE  /\ rows'[q].status \notin {"LICENSE_GENERATED", "REJECTED"} =>
                             rows'[q].license = None
                        /\ rows'[q].license = None => {m \in Licenses : licenses'[m] = q} = {}
                        /\ rows'[q].license # None =>
                             /\ {m \in Licenses : licenses'[m] = q} = {rows'[q].license}
                             /\ files'[q] = rows'[q].license
      BY DEF SingleLicense, Issued
    <3>1. CASE q = r
      BY <2>1, <2>4, <2>5, <2>6, <3>1, NoneIsNoValue
    <3>2. CASE q # r
      BY <2>4, <2>6, <2>7, <3>2 DEF SingleLicense, Settles
    <3> QED
      BY <3>1, <3>2
  <2> QED
    BY <1>9, <2>4, <2>8, EndsCurrent DEF GenerateCommit, Settles
<1>10. ASSUME NEW w \in Workers, Fail(w)
       PROVE  (\A v \in Workers : Current(v)') /\ Settles'
  <2>1. Settles'
    BY <1>10 DEF Fail, Settles, HistoryEnds, HistoryChains, SingleLicense, Issued
  <2> QED
    BY <1>10, <2>1, EndsCurrent DEF Fail
<1>11. CASE UNCHANGED vars
  BY <1>11 DEF vars, Current, Settles, HistoryEnds, HistoryChains, SingleLicense, Issued
<1>12. ASSUME NEW w \in Workers, NEW r \in Requests,
              ReviewLoad(w, r) \/ RejectLoad(w, r) \/ GenerateLoad(w, r)
       PROVE  (\A v \in Workers : Current(v)') /\ Settles'
  BY <1>4, <1>12 DEF ReviewLoad, RejectLoad, GenerateLoad
<1> QED
  BY <1>3, <1>5, <1>6, <1>7, <1>8, <1>9, <1>10, <1>11, <1>12 DEF Next

LEMMA AloneInvariant == MCSpec => []AloneInv
<1>1. MCInit => Init /\ AloneInv
  <2> SUFFICES ASSUME MCInit PROVE Init /\ AloneInv
    OBVIOUS
  <2>1. Init /\ overlapped = FALSE /\ (\A w \in Workers : sessions[w].step = "idle")
    BY DEF MCInit, Init, Idle
  <2>2. OneAtATime /\ \A w \in Workers : Current(w)
    BY <2>1 DEF OneAtATime, Current
  <2>3. Settles
    BY <2>1, NoneIsNoValue DEF Init, NoRow, Settles, HistoryEnds, HistoryChains, SingleLicense, Issued
  <2> QED
    BY <2>1, <2>2, <2>3 DEF AloneInv
<1>2. [MCNext]_<<vars, overlapped>> => [Next]_vars
  BY DEF MCNext
<1>3. MCSpec => Spec
  BY <1>1, <1>2, PTL DEF MCSpec, Spec
<1>4. HistoryInv /\ HistoryInv' /\ SessionInv /\ AloneInv /\ [MCNext]_<<vars, overlapped>> => AloneInv'
  <2> SUFFICES ASSUME HistoryInv, TypeOK', SessionInv, AloneInv, [MCNext]_<<vars, overlapped>>
               PROVE  AloneInv'
    BY DEF HistoryInv
  <2>1. CASE UNCHANGED <<vars, overlapped>>
    BY <2>1 DEF AloneInv, vars, OneAtATime, Current, Settles, HistoryEnds, HistoryChains,
                SingleLicense, Issued
  <2>2. CASE MCNext
    <3>1. overlapped' = (overlapped \/ Overlap(sessions')) /\ Overlap(sessions') \in BOOLEAN
      BY <2>2 DEF MCNext, Overlap
    <3>2. ~Overlap(sessions') => OneAtATime'
      BY NoOverlap DEF OneAtATime, TypeOK
    <3>3. ~overlapped => (\A w \in Workers : Current(w)') /\ Settles'
      BY <1>2, AloneStep DEF AloneInv, HistoryInv, SessionInv
    <3> QED
      BY <3>1, <3>2, <3>3 DEF AloneInv
  <2> QED
    BY <2>1, <2>2
<1> QED
  BY <1>1, <1>3, <1>4, Invariance, PTL DEF MCSpec

(* Until requests overlap, each event starts from the status the previous one *)
(* reached.                                                                   *)
THEOREM HistoryChainsUntilOverlap == MCSpec => []HistoryChainsAlone
<1>1. AloneInv => HistoryChainsAlone
  BY DEF AloneInv, HistoryChainsAlone, Settles
<1> QED
  BY <1>1, AloneInvariant, PTL

(* Until requests overlap, a request gets one license, which its file holds.  *)
THEOREM OneLicenseUntilOverlap == MCSpec => []OneLicenseAlone
<1>1. AloneInv => OneLicenseAlone
  <2> SUFFICES ASSUME Settles, NEW r \in Requests
               PROVE  /\ Cardinality(Issued(r)) <= 1
                      /\ rows[r].license # None => files[r] = rows[r].license
    BY DEF AloneInv, OneLicenseAlone, OneLicense
  <2>1. Cardinality(Issued(r)) \in {0, 1}
    BY FS_EmptySet, FS_Singleton DEF Settles, SingleLicense
  <2> QED
    BY <2>1 DEF Settles, SingleLicense
<1> QED
  BY <1>1, AloneInvariant, PTL

===============================================================================
