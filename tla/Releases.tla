-------------------------------- MODULE Releases --------------------------------
(***************************************************************************)
(* The releases of one product: publication, the latest release of each    *)
(* channel and the update check of installed clients                       *)
(* (app/services/release_service.py, app/repositories/release.py).         *)
(*                                                                         *)
(* Marking a release as the latest first runs an UPDATE that demotes the   *)
(* rows it finds, then writes its own row; both become visible at the      *)
(* commit.  The demotion locks the rows it finds; what a handler waiting   *)
(* for that lock may do afterwards it may also do before it was taken, so  *)
(* the locks are left out and a row is demoted at the commit when it still *)
(* matches.                                                                *)
(***************************************************************************)
EXTENDS Naturals, FiniteSets

CONSTANTS
  Releases,      \* rows of releases that may come to exist
  Channels,      \* STABLE, BETA, ...
  Builds,        \* (version, build number) pairs
  OtherStatuses, \* every status but PUBLISHED and ARCHIVED
  Patches,       \* what the bodies of PATCH requests set
  Workers,       \* handlers that may be in progress at the same time
  None

Statuses == {"PUBLISHED", "ARCHIVED"} \cup OtherStatuses

AllPatches ==
  [status : Statuses \cup {None}, channel : Channels \cup {None},
   build : Builds \cup {None}, latest : BOOLEAN \cup {None}]

ASSUME PatchesAreBodies == Patches \subseteq AllPatches
ASSUME WorkersAreFinite == IsFiniteSet(Workers)
ASSUME NoneIsNoValue    == None \notin Statuses \cup Channels \cup Builds /\ None \notin BOOLEAN

VARIABLES
  rows,          \* releases; stamped: are published_at and published_by set
  sessions

vars == <<rows, sessions>>

NoRow == [status |-> None, channel |-> None, build |-> None,
          latest |-> FALSE, deleted |-> FALSE, stamped |-> FALSE]

NoPatch == [status |-> None, channel |-> None, build |-> None, latest |-> None]

Idle == [step |-> "idle", id |-> None, patch |-> NoPatch, seen |-> NoRow, matched |-> {}]

Init ==
  /\ rows = [r \in Releases |-> NoRow]
  /\ sessions = [w \in Workers |-> Idle]

Exists(r) == rows[r].status # None /\ ~rows[r].deleted

(* get_latest_release: the rows it may return for the channel.               *)
Latest(c) == {r \in Releases : Exists(r) /\ rows[r].channel = c /\ rows[r].latest}

-------------------------------------------------------------------------------
(* The check of update_release: which patches it takes for the row it read.  *)
Protected(status) == status \in {"PUBLISHED", "ARCHIVED"}

ProtectChannel(seen, patch) ==                          \* mutant of MayUpdate
  Protected(seen.status) => patch.channel = None
MayUpdate(seen, patch) ==
  Protected(seen.status) => patch.build = None /\ patch.channel = None

(* Does the request demote the latest release first, and in which channel.   *)
Demotes(seen, patch) == patch.latest = TRUE /\ ~seen.latest

Target(seen, patch) == IF patch.channel = None THEN seen.channel ELSE patch.channel

Go(w, step, r, patch, seen) ==
  /\ sessions[w].step = "idle"
  /\ sessions' = [sessions EXCEPT ![w] =
       [step |-> step, id |-> r, patch |-> patch, seen |-> seen, matched |-> {}]]
  /\ UNCHANGED rows

(* create_release carries every column.                                      *)
BeginCreate(w, r, patch) ==
  /\ rows[r].status = None
  /\ \A v \in Workers : sessions[v].id # r
  /\ \A f \in DOMAIN patch : patch[f] # None
  /\ \A x \in Releases : Exists(x) => rows[x].build # patch.build
  /\ Go(w, IF patch.latest THEN "demote" ELSE "create", r, patch, NoRow)

BeginUpdate(w, r, patch) ==
  /\ Exists(r)
  /\ MayUpdate(rows[r], patch)
  /\ Go(w, IF Demotes(rows[r], patch) THEN "demote" ELSE "update", r, patch, rows[r])

BeginDelete(w, r) == Exists(r) /\ Go(w, "delete", r, NoPatch, rows[r])

(* demote_latest_release: soft-deleted rows are demoted too.                 *)
DemoteNothing(w) ==                                     \* mutant of Demote
  /\ sessions[w].step = "demote"
  /\ sessions' = [sessions EXCEPT
       ![w].step = IF sessions[w].seen = NoRow THEN "create" ELSE "update"]
  /\ UNCHANGED rows

Demote(w) ==
  LET s == sessions[w]
      c == Target(s.seen, s.patch)
  IN  /\ s.step = "demote"
      /\ sessions' = [sessions EXCEPT ![w] =
           [s EXCEPT !.step    = IF s.seen = NoRow THEN "create" ELSE "update",
                     !.matched = {r \in Releases : rows[r].channel = c /\ rows[r].latest}]]
      /\ UNCHANGED rows

-------------------------------------------------------------------------------
(* The unique constraint on product, version and build: soft-deleted rows    *)
(* keep theirs.  The handlers look for a conflict among the other rows       *)
(* first, which refuses nothing this constraint does not.                    *)
UniqueBuilds(table) ==
  \A r, x \in Releases :
    table[r].build # None /\ table[r].build = table[x].build => r = x

(* A column is written when the request sets it to another value than the    *)
(* one read.                                                                 *)
Patched(current, seen, new) == IF new \in {None, seen} THEN current ELSE new

StampForgotten(row, seen, patch) ==                     \* mutant of PatchedRow
  [row EXCEPT !.status  = Patched(@, seen.status, patch.status),
              !.channel = Patched(@, seen.channel, patch.channel),
              !.build   = Patched(@, seen.build, patch.build),
              !.latest  = Patched(@, seen.latest, patch.latest)]
PatchedRow(row, seen, patch) ==
  [row EXCEPT !.status  = Patched(@, seen.status, patch.status),
              !.channel = Patched(@, seen.channel, patch.channel),
              !.build   = Patched(@, seen.build, patch.build),
              !.latest  = Patched(@, seen.latest, patch.latest),
              !.stamped = @ \/ (patch.status = "PUBLISHED" /\ seen.status # "PUBLISHED")]

(* The demotion and the row in one transaction.                              *)
Commit(w, new) ==
  LET s == sessions[w]
      c == Target(s.seen, s.patch)
  IN  /\ rows' = [r \in Releases |->
            IF r = s.id THEN new
            ELSE IF r \in s.matched /\ rows[r].channel = c
                   THEN [rows[r] EXCEPT !.latest = FALSE]
                   ELSE rows[r]]
      /\ UniqueBuilds(rows')
      /\ sessions' = [sessions EXCEPT ![w] = Idle]

(* ReleaseCreate has no published_at and published_by: create_release sets   *)
(* them for a published release and the schema drops them.                   *)
CommitCreate(w) ==
  /\ sessions[w].step = "create"
  /\ LET p == sessions[w].patch
     IN  Commit(w, [status |-> p.status, channel |-> p.channel, build |-> p.build,
                    latest |-> p.latest, deleted |-> FALSE, stamped |-> FALSE])

CommitUpdate(w) ==
  LET s == sessions[w]
  IN  /\ s.step = "update"
      /\ Commit(w, PatchedRow(rows[s.id], s.seen, s.patch))

CommitDelete(w) ==
  /\ sessions[w].step = "delete"
  /\ Commit(w, [rows[sessions[w].id] EXCEPT !.deleted = TRUE])

(* A conflict, a constraint, a deadlock of two demotions, a lost connection. *)
Fail(w) ==
  /\ sessions[w].step # "idle"
  /\ sessions' = [sessions EXCEPT ![w] = Idle]
  /\ UNCHANGED rows

Next ==
  \E w \in Workers :
    \/ \E r \in Releases :
         \/ \E patch \in Patches : BeginCreate(w, r, patch) \/ BeginUpdate(w, r, patch)
         \/ BeginDelete(w, r)
    \/ Demote(w)
    \/ CommitCreate(w) \/ CommitUpdate(w) \/ CommitDelete(w)
    \/ Fail(w)

Spec == Init /\ [][Next]_vars

-------------------------------------------------------------------------------
(* What holds as long as requests to the server do not overlap.              *)

OneLatest(c) == Cardinality(Latest(c)) <= 1

(* Only moving a release to another channel gives a channel a second latest  *)
(* release: no sequence of creations, promotions and deletions does.         *)
SecondLatestIsMoved ==
  \A c \in Channels :
    OneLatest(c) /\ ~OneLatest(c)' =>
      \E r \in Releases : r \in Latest(c)' /\ rows[r].channel \notin {None, c}

(* A published or archived release keeps its version, build and channel, and *)
(* demoting it for another release changes nothing else of it.               *)
PublishedFrozen ==
  \A r \in Releases :
    Protected(rows[r].status) =>
      /\ rows'[r].build = rows[r].build
      /\ rows'[r].channel = rows[r].channel

(* "Enforce PUBLISHED status logic": a published release says when and by    *)
(* whom it was published, except the one that was created published, and     *)
(* only until it is published anew: no step publishes another without a      *)
(* stamp or takes a stamp away.                                              *)
UnstampedAreBornPublished ==
  [][\A r \in Releases :
       rows[r].status # None =>
         /\ rows[r].stamped => rows'[r].stamped
         /\ rows'[r].status = "PUBLISHED" =>
              rows'[r].stamped \/ rows[r].status = "PUBLISHED"]_vars

===============================================================================
