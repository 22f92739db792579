-------------------------- MODULE ActivationRequests --------------------------
(***************************************************************************)
(* The life of an activation request once it is in the database: review,   *)
(* rejection and generation of the offline license                         *)
(* (app/services/activation_request_service.py), run by concurrent HTTP    *)
(* handlers.                                                               *)
(*                                                                         *)
(* A handler owns one AsyncSession.  It reads the row once, decides on the *)
(* copy it has read, and writes back at a commit; no row is locked, so     *)
(* other handlers run between any two of its database calls.  A session    *)
(* writes only the columns whose value it has changed: assigning a status  *)
(* equal to the one read writes nothing.                                   *)
(***************************************************************************)
EXTENDS Naturals, Sequences, FiniteSets

CONSTANTS
  Requests,      \* rows of activation_requests that may come to exist
  Licenses,      \* license ids (uuid4 values), a supply of fresh ones
  Workers,       \* HTTP handlers that may be in progress at the same time
  MaxEvents,     \* bound on the events recorded for one request
  None           \* SQL NULL, or "no such row"

Statuses == {"PENDING", "UNDER_REVIEW", "APPROVED", "LICENSE_GENERATED", "REJECTED"}

ASSUME NoneIsNoValue == None \notin Requests \cup Licenses \cup Statuses
ASSUME WorkersAreFinite == IsFiniteSet(Workers)
ASSUME MaxEventsIsNat == MaxEvents \in Nat

VARIABLES
  rows,          \* activation_requests: status and generated_license_id
  events,        \* activation_request_events of each request, oldest first
  licenses,      \* licenses: the request whose fingerprint the license carries
  files,         \* licenses/WFA-LIC-nnnnnn.wfalic: the license written there
  sessions       \* what each handler is doing, and what it has read

vars == <<rows, events, licenses, files, sessions>>

NoRow == [status |-> None, license |-> None]
Idle  == [step |-> "idle", req |-> None, seen |-> None, lic |-> None]

Init ==
  /\ rows     = [r \in Requests |-> NoRow]
  /\ events   = [r \in Requests |-> <<>>]
  /\ licenses = [l \in Licenses |-> None]
  /\ files    = [r \in Requests |-> None]
  /\ sessions = [w \in Workers  |-> Idle]

-------------------------------------------------------------------------------
(* The guards of the handlers, evaluated on the status they have read.       *)

MayReview(s) == s = "PENDING"

GenerateUnreviewed(s) == s \notin {None, "LICENSE_GENERATED", "REJECTED"} \* mutant
GenerateRejected(s)   == s \in {"UNDER_REVIEW", "APPROVED", "REJECTED"}   \* mutant
GenerateAgain(s) == s \in {"UNDER_REVIEW", "APPROVED", "LICENSE_GENERATED"} \* mutant
MayGenerate(s) == s \in {"UNDER_REVIEW", "APPROVED"}

(* What the commit of update_status stores.  current: the status in the row  *)
(* at the commit; seen: the one the session had read.                        *)
StatusWritten(current, seen, new) == IF seen = new THEN current ELSE new

AddIfChanged(log, from, to) ==                          \* mutant of AddEvent
  IF from = to THEN log ELSE Append(log, [from |-> from, to |-> to])
AddEvent(log, from, to) == Append(log, [from |-> from, to |-> to])

(* db.add(event); db.commit(): the status and its event in one transaction,  *)
(* with the license column when the session changed it.                      *)
UpdateStatus(r, seen, new, lic) ==
  /\ Len(events[r]) < MaxEvents
  /\ rows'   = [rows EXCEPT ![r] =
                  [status  |-> StatusWritten(@.status, seen, new), license |-> lic]]
  /\ events' = [events EXCEPT ![r] = AddEvent(@, seen, new)]

(* A handler reads the row of r and stays in progress at the given step.     *)
Load(w, r, step) ==
  /\ sessions[w].step = "idle"
  /\ rows[r].status # None
  /\ sessions' = [sessions EXCEPT ![w] =
                    [step |-> step, req |-> r, seen |-> rows[r].status, lic |-> None]]
  /\ UNCHANGED <<rows, events, licenses, files>>

-------------------------------------------------------------------------------
(* create_from_upload inserts the row PENDING with its first event.          *)
Submit(r) ==
  /\ rows[r].status = None
  /\ UpdateStatus(r, None, "PENDING", None)
  /\ UNCHANGED <<licenses, files, sessions>>

ReviewLoad(w, r) == MayReview(rows[r].status) /\ Load(w, r, "review")

ReviewCommit(w) ==
  /\ sessions[w].step = "review"
  /\ LET r == sessions[w].req
     IN  UpdateStatus(r, sessions[w].seen, "UNDER_REVIEW", rows[r].license)
  /\ sessions' = [sessions EXCEPT ![w] = Idle]
  /\ UNCHANGED <<licenses, files>>

(* reject has no guard on the status.                                        *)
RejectLoad(w, r) == Load(w, r, "reject")

RejectAsCancelled(w) ==                                 \* mutant of RejectCommit
  /\ sessions[w].step = "reject"
  /\ LET r == sessions[w].req
     IN  UpdateStatus(r, sessions[w].seen, "CANCELLED", rows[r].license)
  /\ sessions' = [sessions EXCEPT ![w] = Idle]
  /\ UNCHANGED <<licenses, files>>

RejectWithLicense(w) ==                                 \* mutant of RejectCommit
  /\ sessions[w].step = "reject"
  /\ UpdateStatus(sessions[w].req, sessions[w].seen, "REJECTED", None)
  /\ sessions' = [sessions EXCEPT ![w] = Idle]
  /\ UNCHANGED <<licenses, files>>

RejectCommit(w) ==
  /\ sessions[w].step = "reject"
  /\ LET r == sessions[w].req
     IN  UpdateStatus(r, sessions[w].seen, "REJECTED", rows[r].license)
  /\ sessions' = [sessions EXCEPT ![w] = Idle]
  /\ UNCHANGED <<licenses, files>>

(* generate_license: read, commit APPROVED, read again, write the signed     *)
(* file, then commit the license with the final status.                      *)
GenerateLoad(w, r) == MayGenerate(rows[r].status) /\ Load(w, r, "approve")

GenerateApprove(w) ==
  /\ sessions[w].step = "approve"
  /\ LET r == sessions[w].req
     IN  UpdateStatus(r, sessions[w].seen, "APPROVED", rows[r].license)
  /\ sessions' = [sessions EXCEPT ![w].step = "refresh"]
  /\ UNCHANGED <<licenses, files>>

RefreshForgotten(w) ==                                  \* mutant of GenerateRefresh
  /\ sessions[w].step = "refresh"
  /\ sessions' = [sessions EXCEPT ![w].step = "save"]
  /\ UNCHANGED <<rows, events, licenses, files>>

GenerateRefresh(w) ==
  /\ sessions[w].step = "refresh"
  /\ sessions' = [sessions EXCEPT ![w].step = "save",
                                  ![w].seen = rows[sessions[w].req].status]
  /\ UNCHANGED <<rows, events, licenses, files>>

(* uuid4: an id nothing in the database, on disk or in a handler carries.    *)
Fresh(l) ==
  /\ licenses[l] = None
  /\ \A r \in Requests : files[r] # l
  /\ \A w \in Workers : sessions[w].lic # l

(* The file name comes from the request number: every generation for a       *)
(* request writes the same path.                                             *)
GenerateSave(w, l) ==
  /\ sessions[w].step = "save"
  /\ Fresh(l)
  /\ files'    = [files EXCEPT ![sessions[w].req] = l]
  /\ sessions' = [sessions EXCEPT ![w].step = "commit", ![w].lic = l]
  /\ UNCHANGED <<rows, events, licenses>>

UnrecordedCommit(w) ==                                  \* mutant of GenerateCommit
  /\ sessions[w].step = "commit"
  /\ LET r == sessions[w].req
     IN  /\ UpdateStatus(r, sessions[w].seen, "LICENSE_GENERATED", rows[r].license)
         /\ licenses' = [licenses EXCEPT ![sessions[w].lic] = r]
  /\ sessions' = [sessions EXCEPT ![w] = Idle]
  /\ UNCHANGED files

GenerateCommit(w) ==
  /\ sessions[w].step = "commit"
  /\ LET r == sessions[w].req
     IN  /\ UpdateStatus(r, sessions[w].seen, "LICENSE_GENERATED", sessions[w].lic)
         /\ licenses' = [licenses EXCEPT ![sessions[w].lic] = r]
  /\ sessions' = [sessions EXCEPT ![w] = Idle]
  /\ UNCHANGED files

(* A handler ends early: no signing key, a foreign key that does not exist,  *)
(* a lost connection or a crash of the process.  The session rolls back what *)
(* it has not committed; the file it may have written stays.                 *)
Fail(w) ==
  /\ sessions[w].step # "idle"
  /\ sessions' = [sessions EXCEPT ![w] = Idle]
  /\ UNCHANGED <<rows, events, licenses, files>>

Next ==
  \/ \E r \in Requests : Submit(r)
  \/ \E w \in Workers :
       \/ \E r \in Requests : ReviewLoad(w, r) \/ RejectLoad(w, r) \/ GenerateLoad(w, r)
       \/ ReviewCommit(w) \/ RejectCommit(w)
       \/ GenerateApprove(w) \/ GenerateRefresh(w) \/ GenerateCommit(w)
       \/ \E l \in Licenses : GenerateSave(w, l)
       \/ Fail(w)

Spec == Init /\ [][Next]_vars

-------------------------------------------------------------------------------
(* Every row, event, license, file and session holds values of its columns.  *)
Steps == {"review", "reject", "approve", "refresh", "save", "commit"}

Sessions ==
  {Idle} \cup [step : Steps, req : Requests, seen : Statuses \cup {None},
                lic : Licenses \cup {None}]

Events == [from : Statuses \cup {None}, to : Statuses]

TypeOK ==
  /\ rows     \in [Requests -> [status : Statuses \cup {None}, license : Licenses \cup {None}]]
  /\ events   \in [Requests -> Seq(Events)]
  /\ licenses \in [Licenses -> Requests \cup {None}]
  /\ files    \in [Requests -> Licenses \cup {None}]
  /\ sessions \in [Workers -> Sessions]

(* No approval and no license without a review: in the history of every      *)
(* request, each APPROVED or LICENSE_GENERATED event has an UNDER_REVIEW     *)
(* event before it, however handlers interleave and fail.                    *)
ReviewedFirst ==
  \A r \in Requests : \A i \in DOMAIN events[r] :
    events[r][i].to \in {"APPROVED", "LICENSE_GENERATED"}
      => \E j \in 1 .. i - 1 : events[r][j].to = "UNDER_REVIEW"

(* A request shown as LICENSE_GENERATED can be downloaded: it names a        *)
(* license, that license was issued for this request's machine, and the file *)
(* its artifact points to is on disk.                                        *)
GeneratedIsBacked ==
  \A r \in Requests : rows[r].status = "LICENSE_GENERATED" =>
    /\ rows[r].license \in Licenses
    /\ licenses[rows[r].license] = r
    /\ files[r] # None

(* The history accounts for every license: a request has as many licenses in *)
(* the database as LICENSE_GENERATED events.                                 *)
Issued(r) == {l \in Licenses : licenses[l] = r}

GenerationEvents(r) == {i \in DOMAIN events[r] : events[r][i].to = "LICENSE_GENERATED"}

LicensesAccounted ==
  \A r \in Requests : Cardinality(Issued(r)) = Cardinality(GenerationEvents(r))

(* Rejecting settles a request: once it is REJECTED and no handler that had  *)
(* passed its check before is still running on it, it stays REJECTED and no  *)
(* handler starts on it but to reject it again.                              *)
InProgressOn(r) == \E w \in Workers : sessions[w].req = r /\ sessions[w].step # "reject"

Settled(r) == rows[r].status = "REJECTED" /\ ~InProgressOn(r)

RejectionSettles == [][\A r \in Requests : Settled(r) => Settled(r)']_vars

(* What was done is not undone: a request never returns to PENDING or        *)
(* disappears, a recorded license is never dropped from its request, and a   *)
(* license is never reassigned to another machine.                           *)
NothingUndone ==
  [][/\ \A r \in Requests :
          /\ rows[r].status # None => rows'[r].status # None
          /\ rows[r].status \notin {None, "PENDING"} => rows'[r].status # "PENDING"
          /\ rows[r].status # None /\ rows[r].license # None => rows'[r].license # None
     /\ \A l \in Licenses : licenses[l] # None => licenses'[l] = licenses[l]]_vars

-------------------------------------------------------------------------------
(* What holds as long as requests to the server do not overlap.              *)

(* The history is a chain: each event starts from the status the previous    *)
(* one reached.                                                              *)
HistoryChains ==
  \A r \in Requests : \A i \in 2 .. Len(events[r]) :
    events[r][i].from = events[r][i - 1].to

(* A request gets at most one license, and the file a download serves is the *)
(* recorded license, also when a generation fails half-way and is retried.   *)
OneLicense ==
  \A r \in Requests :
    /\ Cardinality(Issued(r)) <= 1
    /\ rows[r].license # None => files[r] = rows[r].license

===============================================================================
