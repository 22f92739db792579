----------------------------- MODULE UserAccounts -----------------------------
(***************************************************************************)
(* The admin accounts and the protection of the last OWNER                 *)
(* (app/services/user_service.py, app/api/routes/users.py), with the       *)
(* account the server creates when it starts (app/main.py).                *)
(*                                                                         *)
(* A PATCH /users/{id} reads the acting user, reads the target, counts the *)
(* active owners when the patch would take one away, and commits: the four *)
(* are separate database calls.                                            *)
(***************************************************************************)
EXTENDS Naturals, FiniteSets

CONSTANTS
  Users,         \* accounts, one for each email address
  DefaultOwner,  \* admin@xecurity.com
  OtherRoles,    \* ADMIN, SUPPORT and VIEWER
  Workers,       \* requests that may be in progress at the same time
  None

ASSUME DefaultIsUser  == DefaultOwner \in Users
ASSUME OwnerIsNoOther == "OWNER" \notin OtherRoles
ASSUME WorkersAreFinite == IsFiniteSet(Workers)
ASSUME NoneIsNoRole   == None \notin {"OWNER"} \cup OtherRoles /\ None \notin BOOLEAN

VARIABLES
  users,         \* role and is_active of each account; role None: no such row
  up,            \* is the server running
  sessions       \* what each request is doing and what it has read

vars == <<users, up, sessions>>

Roles   == {"OWNER"} \cup OtherRoles
Patches == [role : Roles \cup {None}, active : BOOLEAN \cup {None}]

NoAccount == [role |-> None, active |-> FALSE]
NoPatch   == [role |-> None, active |-> None]
Idle == [step |-> "idle", actor |-> None, target |-> None, patch |-> NoPatch, seen |-> NoAccount]

Init ==
  /\ users = [u \in Users |-> NoAccount]
  /\ up = FALSE
  /\ sessions = [w \in Workers |-> Idle]

ActiveOwner(u) == users[u].role = "OWNER" /\ users[u].active

-------------------------------------------------------------------------------
(* The server starts: it inserts the default owner when no row has the role, *)
(* active or not.  When that email belongs to another role the insert fails  *)
(* and the server does not come up.                                          *)
Start ==
  /\ ~up
  /\ \/ /\ \E u \in Users : users[u].role = "OWNER"
        /\ UNCHANGED users
     \/ /\ \A u \in Users : users[u].role # "OWNER"
        /\ users[DefaultOwner].role = None
        /\ users' = [users EXCEPT ![DefaultOwner] = [role |-> "OWNER", active |-> TRUE]]
  /\ up' = TRUE
  /\ UNCHANGED sessions

Stop ==
  /\ up
  /\ up' = FALSE
  /\ sessions' = [w \in Workers |-> Idle]
  /\ UNCHANGED users

-------------------------------------------------------------------------------
(* RoleChecker([OWNER]) on the acting user.                                  *)
Authorise(w, actor, target, patch, step) ==
  /\ up
  /\ sessions[w].step = "idle"
  /\ ActiveOwner(actor)
  /\ sessions' = [sessions EXCEPT ![w] =
       [step |-> step, actor |-> actor, target |-> target, patch |-> patch,
        seen |-> users[actor]]]
  /\ UNCHANGED <<users, up>>

BeginUpdate(w, actor, target, patch) == Authorise(w, actor, target, patch, "load")

(* The patch takes the OWNER role away or disables the account.              *)
DisablesOnly(patch) == patch.active = FALSE             \* mutant of Demotes
Demotes(patch) == patch.active = FALSE \/ patch.role \notin {None, "OWNER"}

SelfUnprotected(actor, target, patch) == TRUE           \* mutant of SelfAllowed
SelfAllowed(actor, target, patch) == actor = target => ~Demotes(patch)

(* The target is read; the session already holds it when it is the acting    *)
(* user, and then keeps what it has.                                         *)
LoadTarget(w) ==
  LET s    == sessions[w]
      seen == IF s.target = s.actor THEN s.seen ELSE users[s.target]
  IN  /\ s.step = "load"
      /\ users[s.target].role # None
      /\ SelfAllowed(s.actor, s.target, s.patch)
      /\ sessions' = [sessions EXCEPT
           ![w].seen = seen,
           ![w].step = IF seen.role = "OWNER" /\ Demotes(s.patch) THEN "count" ELSE "commit"]
      /\ UNCHANGED <<users, up>>

(* Last Owner protection.                                                    *)
CountOwners(w) ==
  /\ sessions[w].step = "count"
  /\ Cardinality({u \in Users : ActiveOwner(u)}) > 1
  /\ sessions' = [sessions EXCEPT ![w].step = "commit"]
  /\ UNCHANGED <<users, up>>

(* A column is written when the patch sets it to another value than the one  *)
(* read.                                                                     *)
Patched(current, seen, new) == IF new = None \/ new = seen THEN current ELSE new

CommitUpdate(w) ==
  LET s == sessions[w]
  IN  /\ s.step = "commit"
      /\ users' = [users EXCEPT
           ![s.target] = [role   |-> Patched(@.role, s.seen.role, s.patch.role),
                          active |-> Patched(@.active, s.seen.active, s.patch.active)]]
      /\ sessions' = [sessions EXCEPT ![w] = Idle]
      /\ UNCHANGED up

(* POST /users: no account with the email, then the insert, which the unique *)
(* constraint on the email refuses when another request was faster.          *)
BeginCreate(w, actor, target, patch) ==
  /\ users[target].role = None
  /\ None \notin {patch.role, patch.active}
  /\ Authorise(w, actor, target, patch, "insert")

CommitCreate(w) ==
  LET s == sessions[w]
  IN  /\ s.step = "insert"
      /\ users[s.target].role = None
      /\ users' = [users EXCEPT ![s.target] = s.patch]
      /\ sessions' = [sessions EXCEPT ![w] = Idle]
      /\ UNCHANGED up

(* A refusal, an error or a lost connection: nothing is committed.           *)
Fail(w) ==
  /\ sessions[w].step # "idle"
  /\ sessions' = [sessions EXCEPT ![w] = Idle]
  /\ UNCHANGED <<users, up>>

Next ==
  \/ Start \/ Stop
  \/ \E w \in Workers :
       \/ \E a, t \in Users, p \in Patches : BeginUpdate(w, a, t, p) \/ BeginCreate(w, a, t, p)
       \/ LoadTarget(w) \/ CountOwners(w) \/ CommitUpdate(w) \/ CommitCreate(w)
       \/ Fail(w)

Spec == Init /\ [][Next]_vars

-------------------------------------------------------------------------------
OwnerExists == \E u \in Users : ActiveOwner(u)

(* Self protection is what keeps an owner: a step takes the last active      *)
(* owner away only when the request that does it acts for an account that    *)
(* has itself stopped being an active owner since the request began.         *)
OnlyOustedOwnersEndIt ==
  [][OwnerExists /\ ~OwnerExists' =>
       \E w \in Workers : sessions[w].step = "commit" /\ ~ActiveOwner(sessions[w].actor)]_vars

-------------------------------------------------------------------------------
(* What holds as long as requests to the server do not overlap.              *)

(* A running server has an active owner, who can undo any other change.      *)
OwnerKept == up => OwnerExists

(* A stopped server can be started again: the default owner's email is free  *)
(* whenever the role has no row.                                             *)
Restartable ==
  \/ \E u \in Users : users[u].role = "OWNER"
  \/ users[DefaultOwner].role = None

(* "Cannot disable or downgrade the last OWNER.": the same, of requests that *)
(* overlap.                                                                  *)
LastOwnerProtected == [][OwnerExists => OwnerExists']_vars

===============================================================================
