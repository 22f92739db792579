------------------------------ MODULE TrialTokens ------------------------------
(***************************************************************************)
(* The community trial tokens, one for each month, and the manifest file   *)
(* on GitHub that tells installed clients which one is active              *)
(* (app/services/trial_token_service.py, app/services/github_service.py).  *)
(*                                                                         *)
(* A handler changes the tokens in its transaction, pushes the manifest    *)
(* that transaction sees, and only then commits.  Rows it has updated stay *)
(* locked until then.  GitHub takes a push only with the sha of the        *)
(* version it replaces; a push it refuses is logged and the handler goes   *)
(* on.                                                                     *)
(***************************************************************************)
EXTENDS Naturals, FiniteSets

CONSTANTS
  LastMonth,     \* the tokens are those of the months 1 .. LastMonth
  Workers,       \* handlers that may be in progress at the same time
  MaxStarts,     \* bound on the number of handlers started
  None

Months == 1 .. LastMonth

ASSUME BoundsAreNat == LastMonth \in Nat /\ MaxStarts \in Nat
ASSUME NoneIsNoMonth == None \notin Months
ASSUME WorkersAreFinite == IsFiniteSet(Workers)

VARIABLES
  tokens,        \* trial_tokens: is_active, and the start of the transaction
                 \* that created it (created_at); created 0: no such row
  manifest,      \* the month in community-trial.json, None: active false
  sha,           \* its version
  starts,        \* handlers started so far: the order of transaction starts
  now,           \* the current month
  sessions

vars == <<tokens, manifest, sha, starts, now, sessions>>

NoToken == [active |-> FALSE, created |-> 0]

Idle == [step |-> "idle", op |-> None, month |-> None, old |-> None, start |-> 0,
         content |-> None, sha |-> 0, pushed |-> FALSE]

Init ==
  /\ tokens = [m \in Months |-> NoToken]
  /\ manifest = None /\ sha = 0 /\ starts = 0 /\ now = 1
  /\ sessions = [w \in Workers |-> Idle]

-------------------------------------------------------------------------------
(* get_active_token: the active row of a table that was created last.        *)
ActiveTokens(table) == {m \in Months : table[m].active}

ActiveToken(table) ==
  IF ActiveTokens(table) = {} THEN None
  ELSE CHOOSE m \in ActiveTokens(table) :
         \A x \in ActiveTokens(table) : table[x].created <= table[m].created

(* get_active_manifest.                                                      *)
ActiveManifest(table) ==
  LET m == ActiveToken(table)
  IN  IF m # None /\ m >= now THEN m ELSE None

(* What the transaction of a session has written: the token it deactivated   *)
(* and the one it inserted.                                                  *)
View(s) ==
  [m \in Months |->
     IF s.op = "generate" /\ m = s.month THEN [active |-> TRUE, created |-> s.start]
     ELSE IF m = s.old THEN [tokens[m] EXCEPT !.active = FALSE]
     ELSE tokens[m]]

(* The rows a session has written and not committed yet.                     *)
Written(s) == IF s.step \in {"insert", "read", "get", "put", "commit"} THEN {s.old} \ {None} ELSE {}
Inserted(s) == IF s.op = "generate" /\ s.step \in {"read", "get", "put", "commit"} THEN {s.month} ELSE {}

Begin(w, op, m, step) ==
  /\ sessions[w].step = "idle"
  /\ starts < MaxStarts
  /\ starts' = starts + 1
  /\ sessions' = [sessions EXCEPT ![w] =
       [Idle EXCEPT !.step = step, !.op = op, !.month = m, !.start = starts + 1]]
  /\ UNCHANGED <<tokens, manifest, sha, now>>

Move(w, new) == sessions' = [sessions EXCEPT ![w] = new]

-------------------------------------------------------------------------------
(* generate_token: no row with the string, the active token deactivated.     *)
BeginGenerate(w, m) == tokens[m].created = 0 /\ Begin(w, "generate", m, "find")

KeepActive(w) ==                                        \* mutant of FindActive
  /\ sessions[w].step = "find"
  /\ Move(w, [sessions[w] EXCEPT !.step = "deactivate"])
  /\ UNCHANGED <<tokens, manifest, sha, starts, now>>

FindActive(w) ==
  /\ sessions[w].step = "find"
  /\ Move(w, [sessions[w] EXCEPT !.step = "deactivate", !.old = ActiveToken(tokens)])
  /\ UNCHANGED <<tokens, manifest, sha, starts, now>>

(* revoke_token: the row is read; deactivating an inactive token writes      *)
(* nothing.                                                                  *)
BeginRevoke(w, m) == tokens[m].created # 0 /\ Begin(w, "revoke", m, "load")

LoadToken(w) ==
  LET s == sessions[w]
  IN  /\ s.step = "load"
      /\ Move(w, [s EXCEPT !.step = "deactivate",
                           !.old  = IF tokens[s.month].active THEN s.month ELSE None])
      /\ UNCHANGED <<tokens, manifest, sha, starts, now>>

(* The UPDATE waits for the lock of the row.                                 *)
Deactivate(w) ==
  LET s == sessions[w]
  IN  /\ s.step = "deactivate"
      /\ \A v \in Workers \ {w} : s.old \notin Written(sessions[v])
      /\ Move(w, [s EXCEPT !.step = IF s.op = "generate" THEN "insert" ELSE "read"])
      /\ UNCHANGED <<tokens, manifest, sha, starts, now>>

(* token_string is unique; an INSERT waits for another one of the string.    *)
InsertUnconstrained(w) ==                               \* mutant of Insert
  /\ sessions[w].step = "insert"
  /\ Move(w, [sessions[w] EXCEPT !.step = "read"])
  /\ UNCHANGED <<tokens, manifest, sha, starts, now>>

Insert(w) ==
  LET s == sessions[w]
  IN  /\ s.step = "insert"
      /\ tokens[s.month].created = 0
      /\ \A v \in Workers \ {w} : s.month \notin Inserted(sessions[v])
      /\ Move(w, [s EXCEPT !.step = "read"])
      /\ UNCHANGED <<tokens, manifest, sha, starts, now>>

-------------------------------------------------------------------------------
(* sync_github_manifest.                                                     *)
ReadCommitted(w) ==                                     \* mutant of ReadManifest
  /\ sessions[w].step = "read"
  /\ Move(w, [sessions[w] EXCEPT !.step = "get", !.content = ActiveManifest(tokens)])
  /\ UNCHANGED <<tokens, manifest, sha, starts, now>>

ReadManifest(w) ==
  LET s == sessions[w]
  IN  /\ s.step = "read"
      /\ Move(w, [s EXCEPT !.step = "get", !.content = ActiveManifest(View(s))])
      /\ UNCHANGED <<tokens, manifest, sha, starts, now>>

GetSha(w) ==
  /\ sessions[w].step = "get"
  /\ Move(w, [sessions[w] EXCEPT !.step = "put", !.sha = sha])
  /\ UNCHANGED <<tokens, manifest, sha, starts, now>>

PutManifest(w) ==
  /\ sessions[w].step = "put"
  /\ sessions[w].sha = sha
  /\ manifest' = sessions[w].content
  /\ sha' = sha + 1
  /\ Move(w, [sessions[w] EXCEPT !.step = "commit", !.pushed = TRUE])
  /\ UNCHANGED <<tokens, starts, now>>

(* GitHub answers something else: the sha is old, no right, an error; or no  *)
(* access token is configured and nothing is sent.                           *)
PutRefused(w) ==
  /\ sessions[w].step = "put"
  /\ Move(w, [sessions[w] EXCEPT !.step = "commit"])
  /\ UNCHANGED <<tokens, manifest, sha, starts, now>>

Commit(w) ==
  /\ sessions[w].step = "commit"
  /\ tokens' = View(sessions[w])
  /\ Move(w, Idle)
  /\ UNCHANGED <<manifest, sha, starts, now>>

(* An error, a refused insert, a crash: rolled back, what was pushed stays.  *)
Fail(w) ==
  /\ sessions[w].step # "idle"
  /\ Move(w, Idle)
  /\ UNCHANGED <<tokens, manifest, sha, starts, now>>

NextMonth ==
  /\ now <= LastMonth
  /\ now' = now + 1
  /\ UNCHANGED <<tokens, manifest, sha, starts, sessions>>

Next ==
  \/ NextMonth
  \/ \E w \in Workers :
       \/ \E m \in Months : BeginGenerate(w, m) \/ BeginRevoke(w, m)
       \/ FindActive(w) \/ LoadToken(w) \/ Deactivate(w) \/ Insert(w)
       \/ ReadManifest(w) \/ GetSha(w) \/ PutManifest(w) \/ PutRefused(w)
       \/ Commit(w) \/ Fail(w)

Spec == Init /\ [][Next]_vars

-------------------------------------------------------------------------------
(* A token that was revoked or replaced never becomes active again, however  *)
(* handlers for the same month overlap and however often it is asked for.    *)
IssuedOnce ==
  [][\A m \in Months : tokens[m].created # 0 /\ ~tokens[m].active => ~tokens'[m].active]_vars

-------------------------------------------------------------------------------
(* What holds as long as requests to the server do not overlap.              *)

(* "Any currently active tokens will be revoked.": at most one is active.    *)
OneActiveToken == Cardinality(ActiveTokens(tokens)) <= 1

(* A handler whose push GitHub took leaves the file and the database in      *)
(* agreement: clients are told of the active token, and of no other.         *)
Finishes(w) == sessions[w].step = "commit" /\ tokens' # tokens

ManifestFollows ==
  \A w \in Workers :
    Finishes(w) /\ sessions[w].pushed =>
      LET active == ActiveToken(tokens')
      IN  /\ manifest # None => manifest = active
          /\ active # None /\ active >= now => manifest = active

===============================================================================
