--------------------------------- MODULE Console ---------------------------------
(***************************************************************************)
(* One tab of the admin front end at work on one entity: its list page and *)
(* the pages of its rows over the query cache, with the dialogs, the       *)
(* forms, the requests they send, navigation and the session; other        *)
(* administrators write the same rows.                                     *)
(***************************************************************************)
EXTENDS QueryCache, AdminPages, Integers

CONSTANTS
  Topics,      \* what is explored: an entity, one of its fields, the operations, the pages
               \* a document is loaded at, whether the cache and the session do all they can, who
               \* is signed in at first, how far local time is behind UTC, and the
               \* bounds on versions and requests
  Opened,      \* the rows whose own page is opened
  RoleOf,      \* the role of each user
  Absent, Deleted, None

ASSUME ConsoleAssumption ==
  /\ Opened \subseteq Rows
  /\ RoleOf \in [Users -> Roles]
  /\ None \notin Rows
  /\ \A t \in Topics : t.entity \in DOMAIN Pages /\ t.zone \in Int
  /\ Keys = {"list", "stats", "manifest"} \cup Opened
  /\ Opened \cap {"list", "stats", "manifest"} = {}

VARIABLES
  topic,        \* the entity and the field explored
  history,      \* the rows of the entity, version by version
  uncommitted,  \* the transactions that are answered and not yet committed
  route,        \* the page shown, its row, and whether the document came from the list
  dialog,       \* the open dialog
  calls,        \* the requests sent and not yet answered
  stored,       \* the user in localStorage, which the tabs share
  signedIn      \* who has signed in since the document was loaded

consoleVars == <<topic, history, uncommitted, route, dialog, calls, stored, signedIn>>
vars == <<cacheVars, consoleVars>>

entity == topic.entity
Page(n) == Pages[entity][n]
AnyRow == CHOOSE n \in Rows : TRUE
Form == IF entity \in DOMAIN Forms THEN Forms[entity] ELSE [f \in {} |-> Plain]
DetailsOf(n) == Details[entity][n]
Role == IF who = Nobody THEN "VIEWER" ELSE RoleOf[who]
--------------------------------------------------------------------------------
(* A row is a function of the tracked fields: the status that its removal  *)
(* sets, where removal sets one, and the field explored.                   *)
Life ==
  [ subscriptions |-> [field |-> "status", begins |-> "ACTIVE", ends |-> "CANCELLED",
                       course |-> {<<"ACTIVE", "CANCELLED">>, <<"CANCELLED", "ACTIVE">>}],
    users |-> [field |-> "is_active", begins |-> "true", ends |-> "false",
               course |-> {<<"true", "false">>, <<"false", "true">>}],
    plans |-> [field |-> "status", begins |-> "ACTIVE", ends |-> "DEPRECATED",
               course |-> {<<"ACTIVE", "DEPRECATED">>, <<"DEPRECATED", "ACTIVE">>}],
    licenses |-> [field |-> "status", begins |-> "ACTIVE", ends |-> "REVOKED",
                  course |-> {<<"ACTIVE", "REVOKED">>}],
    trialTokens |-> [field |-> "is_active", begins |-> "true", ends |-> "false",
                     course |-> {<<"true", "false">>}],
    requests |-> [field |-> "status", begins |-> "PENDING", ends |-> "LICENSE_GENERATED",
                  course |-> {<<"PENDING", "UNDER_REVIEW">>,
                              <<"UNDER_REVIEW", "LICENSE_GENERATED">>}] ]

HasLife == entity \in DOMAIN Life
Tracked == (IF HasLife THEN {Life[entity].field} ELSE {}) \cup ({topic.field} \ {None})

(* The fields that people write: the one explored, or the status. *)
Explored == IF topic.field = None THEN Tracked ELSE {topic.field}

(* A value, with how far an instant has moved from the one first stored,   *)
(* and whether it has seconds.                                             *)
Value(text) == [text |-> text, shift |-> 0, seconds |-> FALSE]
Live(row) == row \notin {Absent, Deleted}
Status(row) == IF HasLife THEN row[Life[entity].field].text ELSE Blank

(* Only a field that the form lets be blank is ever empty. *)
Nullable(f) == f \in DOMAIN Form /\ ~Form[f].required

Texts(f) ==
  IF HasLife /\ f = Life[entity].field
  THEN UNION {{step[1], step[2]} : step \in Life[entity].course}
  ELSE {"old"} \cup (IF Nullable(f) THEN {Blank} ELSE {})

(* Instants with seconds do not come from the form but from other clients. *)
IsInstant(f) == f \in DOMAIN Form /\ Form[f].shifted
ValuesOf(f) ==
  {Value(text) : text \in Texts(f)} \cup
  {[Value(text) EXCEPT !.seconds = TRUE] : text \in IF IsInstant(f) THEN Texts(f) \ {Blank} ELSE {}}
--------------------------------------------------------------------------------
(* The keys: the list, the dashboard, the manifest and the opened rows. *)
QueryKeys(k) ==
  CASE k = "list" -> {Page(AnyRow).list}
    [] k = "stats" -> {Stats}
    [] k = "manifest" -> {Manifest}
    [] OTHER -> IF entity \in DOMAIN Details THEN DetailsOf(k).reads ELSE {}

(* What a page reads once user u is signed in. *)
ShownAt(r, u) ==
  CASE r.page = "login" -> {}
    [] r.page = "home" -> {"stats"}
    [] r.page = "list" ->
         (IF RoleOf[u] \in Page(AnyRow).reads THEN {"list"} ELSE {})
           \cup (IF entity = "trialTokens" THEN {"manifest"} ELSE {})
    [] r.page = "detail" -> {r.row}

At(page) == [page |-> page, row |-> None, soft |-> FALSE]
AtRow(n, soft) == [page |-> "detail", row |-> n, soft |-> soft]

(* The keys an operation on row n invalidates. *)
Touched(op, n) ==
  {k \in Keys : Under(Page(n).refreshes[op], QueryKeys(k)) # {}}

(* The keys whose answer it changes, except three that the code forgets:   *)
(* the page of a subscription, the manifest and the dashboard's counts.    *)
Changed(op, n) ==
  {"list"} \cup (IF op # "create" /\ entity \in DOMAIN Details \ {"subscriptions"}
                THEN {n} \cap Opened ELSE {})

(* The rows a list page shows: none while it has no answer or an error,    *)
(* which the trial tokens' page does not look at.                          *)
Listing == cache["list"].seen > 0 /\ (cache["list"].error => entity = "trialTokens")
Listed(n) == history[cache["list"].seen][n]
--------------------------------------------------------------------------------
Init ==
  /\ CacheInit
  /\ topic \in Topics
  /\ \E row \in [Tracked -> UNION {ValuesOf(f) : f \in Tracked}], n \in Opened :
       /\ \A f \in Tracked : row[f] \in ValuesOf(f)
       /\ history = <<[m \in Rows |-> IF m = n THEN row ELSE Absent]>>
  /\ uncommitted = {}
  /\ who \in topic.starts
  /\ route = At("login")
  /\ dialog = None
  /\ calls = {}
  /\ stored = who
  /\ signedIn = {who} \ {Nobody}

(* An instant is cut to minutes and shown in UTC, and the browser takes it *)
(* for local time.                                                         *)
ReadBack(v) == [text |-> v.text, shift |-> v.shift + topic.zone, seconds |-> FALSE]

(* The form that opens on a row, or empty. *)
ShownByDefault(f, v) ==                               \* mutant of Shown
  IF f \notin DOMAIN Form THEN v
  ELSE IF v.text = Blank \/ Form[f].empty # Blank THEN [v EXCEPT !.text = Form[f].empty]
  ELSE IF Form[f].shifted THEN ReadBack(v)
  ELSE v

Shown(f, v) ==
  IF f \notin DOMAIN Form THEN v
  ELSE IF v.text = Blank THEN [v EXCEPT !.text = Form[f].empty]
  ELSE IF Form[f].shifted THEN ReadBack(v)
  ELSE v

Draft(op, n, base, row) ==
  [ op |-> op, row |-> n, base |-> base, touched |-> {},
    inputs |-> [f \in Tracked |-> Shown(f, row[f])] ]

MayCreate == entity \in {"plans", "releases"} => Role \in Managers

OpenCreate ==
  /\ route.page = "list" /\ dialog = None
  /\ "create" \in Dialogs[entity] /\ MayCreate
  /\ dialog' = Draft("create", None, version, [f \in Tracked |-> Value(Blank)])
  /\ UNCHANGED <<cacheVars, topic, history, uncommitted, route, calls, stored, signedIn>>

(* A row's menu opens a dialog on the row as the list shows it. *)
OpenRow(op, n) ==
  /\ route.page = "list" /\ dialog = None
  /\ Listing /\ Live(Listed(n))
  /\ op \in Dialogs[entity] \cap Menu(entity, Status(Listed(n)), Role)
  /\ dialog' = Draft(op, n, cache["list"].seen, Listed(n))
  /\ UNCHANGED <<cacheVars, topic, history, uncommitted, route, calls, stored, signedIn>>

(* The page of a request opens the wizard. *)
OpenWizard ==
  /\ entity = "requests" /\ route.page = "detail" /\ dialog = None
  /\ LET q == cache[route.row]
     IN  /\ q.seen > 0 /\ ~q.error /\ Live(history[q.seen][route.row])
         /\ "generate" \in RequestActions(Status(history[q.seen][route.row]))
         /\ dialog' = Draft("generate", route.row, q.seen, history[q.seen][route.row])
  /\ UNCHANGED <<cacheVars, topic, history, uncommitted, route, calls, stored, signedIn>>

(* The user changes an input. *)
Type(f, text) ==
  /\ dialog # None /\ entity \in DOMAIN Inputs
  /\ dialog.op \in DOMAIN Inputs[entity] /\ f \in Inputs[entity][dialog.op]
  /\ dialog' = [dialog EXCEPT !.inputs[f] = Value(text), !.touched = @ \cup {f}]
  /\ UNCHANGED <<cacheVars, topic, history, uncommitted, route, calls, stored, signedIn>>

Dismiss ==
  /\ dialog # None
  /\ dialog' = None
  /\ UNCHANGED <<cacheVars, topic, history, uncommitted, route, calls, stored, signedIn>>

(* A request the page itself waits for. *)
Pending(op) == \E c \in calls : c.op = op /\ c.by = "page"

Sent(draft) ==
  [op |-> draft.op, row |-> draft.row, draft |-> draft, by |-> "page", state |-> "sent"]

(* The schema of the form has nothing against the inputs. *)
Valid(draft) ==
  draft.op \in {"create", "update"} =>
    \A f \in Tracked \cap DOMAIN Form : Form[f].required => draft.inputs[f].text # Blank

(* The dialog's button sends the request; it is disabled until the answer. *)
Submit ==
  /\ dialog # None /\ Valid(dialog)
  /\ ~Pending(dialog.op) /\ Cardinality(calls) < topic.requests
  /\ dialog.op = "generate" => ~cache[route.row].error
  /\ calls' = calls \cup {Sent(dialog)}
  /\ UNCHANGED <<cacheVars, topic, history, uncommitted, route, dialog, stored, signedIn>>

(* Operations without a dialog: uploading, disabling a user, revoking a    *)
(* token, starting the review of a request.                                *)
Press(op, n) ==
  /\ op \in DOMAIN Page(n).refreshes \ Dialogs[entity]
  /\ Cardinality(calls) < topic.requests
  /\ \/ /\ op = "create" /\ route.page = "list" /\ Listing /\ ~Pending(op) /\ n = AnyRow
     \/ /\ op = "remove" /\ route.page = "list" /\ dialog = None
        /\ Listing /\ Live(Listed(n))
        /\ op \in Menu(entity, Status(Listed(n)), Role)
        /\ entity = "users" \/ ~Pending(op)
     \/ /\ op = "review" /\ route.page = "detail" /\ n = route.row /\ ~Pending(op)
        /\ cache[n].seen > 0 /\ ~cache[n].error
        /\ Live(history[cache[n].seen][n])
        /\ op \in RequestActions(Status(history[cache[n].seen][n]))
  /\ calls' = calls \cup {Sent([op |-> op, row |-> n, base |-> version, touched |-> {},
                                inputs |-> [f \in Tracked |-> Value(Blank)]])}
  /\ UNCHANGED <<cacheVars, topic, history, uncommitted, route, dialog, stored, signedIn>>
--------------------------------------------------------------------------------
now == history[version]

(* What the server stores in a field: an update leaves fields that are not *)
(* sent or not its own as they are.                                        *)
Stored(op, f, s, old) ==
  IF f \notin DOMAIN Form THEN old
  ELSE IF (op = "update" /\ Form[f].fixed) \/ (Form[f].dropped /\ s.text = Blank) THEN old
  ELSE s

Ended(row) == [row EXCEPT ![Life[entity].field] = Value(Life[entity].ends)]

Born == [f \in Tracked |->
           IF HasLife /\ f = Life[entity].field THEN Value(Life[entity].begins) ELSE Value(Blank)]

(* The row after the server has carried out a request. *)
Applied(d, row) ==
  CASE d.op = "create" -> [f \in Tracked |-> Stored("create", f, d.inputs[f], Born[f])]
    [] d.op = "update" -> [f \in Tracked |-> Stored("update", f, d.inputs[f], row[f])]
    [] d.op \in {"remove", "generate"} -> IF HasLife THEN Ended(row) ELSE Deleted
    [] d.op = "review" -> [row EXCEPT ![Life[entity].field] = Value("UNDER_REVIEW")]

(* Which rows the server accepts a request for. *)
Accepts(d, row) ==
  CASE d.op = "create" -> row = Absent
    [] d.op = "update" -> Live(row)
    [] d.op = "remove" -> Live(row) /\ (HasLife => Status(row) # Life[entity].ends)
    [] d.op = "review" -> Live(row) /\ Status(row) = "PENDING"
    [] d.op = "generate" -> Live(row) /\ Status(row) = "UNDER_REVIEW"

(* The rows a request on row n writes: a new token ends the active ones.   *)
Written(op, n) ==
  {n} \cup {m \in Rows : /\ entity = "trialTokens" /\ op = "create"
                        /\ Live(now[m]) /\ Status(now[m]) # Life[entity].ends}

Flushed(d, n) ==
  [m \in Written(d.op, n) |-> IF m = n THEN Applied(d, now[n]) ELSE Ended(now[m])]

With(rows) == [m \in Rows |-> IF m \in DOMAIN rows THEN rows[m] ELSE now[m]]

(* The operations that commit before they answer: their services do.  What *)
(* the others flush, the session's dependency commits when the answer has  *)
(* been sent.                                                              *)
SubscriptionsCommitted == {"remove"}
PlansCommitted == {"create"}
DeploymentsCommitted == {"remove"}
LicensesCommitted == {"create", "remove"}
RequestsCommitted == {"create", "review", "generate"}

Committed ==
  CASE entity = "subscriptions" -> SubscriptionsCommitted
    [] entity = "plans" -> PlansCommitted
    [] entity = "deployments" -> DeploymentsCommitted
    [] entity = "licenses" -> LicensesCommitted
    [] entity = "requests" -> RequestsCommitted
    [] OTHER -> {}

(* The rows that a transaction has written and not yet committed; others   *)
(* who write them wait.                                                    *)
Held == UNION {DOMAIN t.rows : t \in uncommitted}

(* Bound: the versions there can be. *)
Room == version + Cardinality(uncommitted) < topic.versions

(* The server carries out a request on row n, which a creation chooses. *)
Received(c, n) ==
  /\ c.state = "sent" /\ Room
  /\ n \in IF c.op = "create" THEN Rows ELSE {c.row}
  /\ Accepts(c.draft, now[n])
  /\ Written(c.op, n) \cap Held = {}

Told(c, n, outcome) ==
  (calls \ {c}) \cup {[c EXCEPT !.state = outcome, !.row = n, !.draft = None]}

(* It commits and answers, and the answer may get lost. *)
Handle(c) ==
  /\ c.op \in Committed /\ Write
  /\ \E n \in Rows, outcome \in {"done", "failed"} :
       /\ Received(c, n)
       /\ history' = Append(history, With(Flushed(c.draft, n)))
       /\ calls' = Told(c, n, outcome)
  /\ UNCHANGED <<topic, uncommitted, route, dialog, stored, signedIn>>

(* It answers, and commits later. *)
Answer(c) ==
  /\ c.op \notin Committed
  /\ \E n \in Rows, outcome \in {"done", "failed"} :
       /\ Received(c, n)
       /\ uncommitted' = uncommitted \cup {[draft |-> c.draft, rows |-> Flushed(c.draft, n)]}
       /\ calls' = Told(c, n, outcome)
  /\ UNCHANGED <<cacheVars, topic, history, route, dialog, stored, signedIn>>

Commit(t) ==
  /\ Write
  /\ history' = Append(history, With(t.rows))
  /\ uncommitted' = uncommitted \ {t}
  /\ UNCHANGED <<topic, route, dialog, calls, stored, signedIn>>

(* The commit fails, or the server stops before it; nobody is told. *)
Lose(t) ==
  /\ uncommitted' = uncommitted \ {t}
  /\ UNCHANGED <<cacheVars, topic, history, route, dialog, calls, stored, signedIn>>

(* The server refuses a request, or it never gets there. *)
Refuse(c) ==
  /\ c.state = "sent"
  /\ calls' = Told(c, c.row, "failed")
  /\ UNCHANGED <<cacheVars, topic, history, uncommitted, route, dialog, stored, signedIn>>

(* Success invalidates the queries of the operation, also when the page    *)
(* that sent it is left; on the page it closes the operation's dialog,     *)
(* whatever row that is open on.                                           *)
Succeed(c) ==
  /\ c.state = "done" /\ c.by # "gone"
  /\ Acknowledge(Touched(c.op, c.row), Changed(c.op, c.row))
  /\ calls' = calls \ {c}
  /\ dialog' = IF c.by = "page" /\ dialog # None /\ dialog.op = c.op THEN None ELSE dialog
  /\ UNCHANGED <<topic, history, uncommitted, route, stored, signedIn>>

(* A failure is shown and leaves the dialog open.  Nothing hears of what a *)
(* document sent that is no more.                                          *)
GiveUp(c) ==
  /\ c.state = "failed" \/ (c.state = "done" /\ c.by = "gone")
  /\ calls' = calls \ {c}
  /\ UNCHANGED <<cacheVars, topic, history, uncommitted, route, dialog, stored, signedIn>>

(* Another administrator writes a field of a row, or removes the row. *)
Others(n) ==
  /\ Room /\ Write
  /\ Live(now[n]) /\ n \notin Held
  /\ \/ /\ ~HasLife
        /\ history' = Append(history, [now EXCEPT ![n] = Deleted])
     \/ \E f \in Explored : \E text \in {"old", "theirs", Blank} \cup Texts(f) :
          /\ IF HasLife /\ f = Life[entity].field
             THEN <<now[n][f].text, text>> \in Life[entity].course
             ELSE text # now[n][f].text /\ (text = Blank => Nullable(f))
          /\ history' = Append(history, [now EXCEPT ![n][f] = Value(text)])
  /\ UNCHANGED <<topic, uncommitted, route, dialog, calls, stored, signedIn>>
--------------------------------------------------------------------------------
(* A page is left: its dialog goes with it, and nothing but the mutation   *)
(* itself hears the answers to its requests.                               *)
Left(by) == {[c EXCEPT !.by = IF c.by = "page" THEN by ELSE @] : c \in calls}

(* Navigation within the document; the query cache stays. *)
GoTo(r, u) ==
  /\ route' = r
  /\ dialog' = None
  /\ calls' = Left("left")
  /\ Show(ShownAt(r, u), u)

Open(n) ==
  /\ route.page = "list" /\ dialog = None /\ n \in Opened
  /\ Listing /\ Live(Listed(n))
  /\ "open" \in Menu(entity, Status(Listed(n)), Role)
  /\ GoTo(AtRow(n, TRUE), who)
  /\ UNCHANGED <<topic, history, uncommitted, stored, signedIn>>

(* The back button of a row's page, or the browser's. *)
Back ==
  /\ route.page = "detail"
  /\ DetailsOf(route.row).back = "list" \/ route.soft
  /\ GoTo(At("list"), who)
  /\ UNCHANGED <<topic, history, uncommitted, stored, signedIn>>

(* A page sends the roles it does not admit to the dashboard. *)
Redirect ==
  /\ route.page = "list" /\ Role \notin Page(AnyRow).admits
  /\ GoTo(At("home"), who)
  /\ UNCHANGED <<topic, history, uncommitted, stored, signedIn>>

(* The sidebar, the address bar and some links load the document anew: the *)
(* session is what localStorage holds, and nothing of the old document is  *)
(* left.                                                                   *)
LoadPage(r) ==
  /\ r.page = "detail" => entity \in DOMAIN Details
  /\ route' = IF stored = Nobody THEN At("login") ELSE r
  /\ dialog' = None
  /\ calls' = Left("gone")
  /\ signedIn' = {stored} \ {Nobody}
  /\ Load(ShownAt(route', stored), stored)
  /\ UNCHANGED <<topic, history, uncommitted, stored>>

SignIn(u) ==
  /\ route.page = "login"
  /\ stored' = u
  /\ signedIn' = signedIn \cup {u}
  /\ GoTo(At("home"), u)
  /\ UNCHANGED <<topic, history, uncommitted>>

SignOut ==
  /\ who # Nobody
  /\ stored' = Nobody
  /\ GoTo(At("login"), Nobody)
  /\ UNCHANGED <<topic, history, uncommitted, signedIn>>

(* Somebody signs in or out in another tab. *)
Elsewhere(u) ==
  /\ stored # u
  /\ stored' = u
  /\ UNCHANGED <<cacheVars, topic, history, uncommitted, route, dialog, calls, signedIn>>
--------------------------------------------------------------------------------
Work ==
  \/ "create" \in topic.ops /\ OpenCreate
  \/ OpenWizard \/ Dismiss \/ Submit
  \/ \E op \in {"update", "remove"} \cap topic.ops, n \in Rows : OpenRow(op, n)
  \/ \E f \in Explored : \E text \in IF f = topic.field THEN {"mine", Blank} ELSE Texts(f) :
       Type(f, text)
  \/ \E op \in {"create", "remove", "review"} \cap topic.ops, n \in Rows : Press(op, n)
  \/ \E c \in calls : Handle(c) \/ Answer(c) \/ Refuse(c) \/ Succeed(c) \/ GiveUp(c)
  \/ \E t \in uncommitted : Commit(t) \/ Lose(t)
  \/ \E n \in Rows : Others(n)

Navigate ==
  \/ "detail" \in topic.pages /\ \E n \in Rows : Open(n)
  \/ Back \/ Redirect
  \/ \E r \in {At("home"), At("list")} \cup {AtRow(n, FALSE) : n \in Opened} :
       /\ r.page \in topic.pages \/ (route.page = "login" /\ r.page = "list")
       /\ LoadPage(r)

Session ==
  \/ \E u \in Users : SignIn(u)
  \/ SignOut
  \/ \E u \in Users \cup {Nobody} : Elsewhere(u)

(* What the cache does of itself; in a topic that does not explore it,     *)
(* reads succeed and their data stay fresh.                                *)
Fetching(k) ==
  /\ Serve(k) \/ Deliver(k) \/ (topic.cache /\ FailFetch(k))
  /\ UNCHANGED consoleVars

Next ==
  \/ Work
  \/ Navigate
  \/ topic.sessions /\ Session
  \/ \E k \in Keys : Fetching(k)
  \/ topic.cache /\ CacheNext /\ UNCHANGED consoleVars

(* A read the browser has sent is answered in the end, or fails; of what   *)
(* people do nothing is assumed.                                           *)
Spec == Init /\ [][Next]_vars /\ \A k \in Keys : WF_vars(Fetching(k))
--------------------------------------------------------------------------------
(* A page does not go on for ever showing data older than what was         *)
(* committed when its user was told of a success, without saying that      *)
(* reading them has failed; but one success after the other may keep       *)
(* starting the read again.                                                *)
Lagging(k) ==
  /\ k \in shown
  /\ 0 < cache[k].seen /\ cache[k].seen < owed[k]
  /\ ~cache[k].error

CatchesUp ==
  \A k \in Keys : []<>~Lagging(k) \/ []<><<\E c \in calls : Succeed(c)>>_vars

(* What an edit makes of a field its user has not touched: two fields are  *)
(* known to change, an instant that is read back as local time without its *)
(* seconds, and the missing duration of a custom plan.                     *)
Redrawn(f, v) ==
  IF IsInstant(f) /\ v.text # Blank THEN ReadBack(v)
  ELSE IF f = "duration_months" /\ v.text = Blank THEN [v EXCEPT !.text = "12"]
  ELSE v

(* An edit leaves a field its user has not touched as it was, or redraws   *)
(* it in just that way, if nobody has written the row since the list it    *)
(* was opened from was read: the forms' default values and what they leave *)
(* out of the request.  No edit commits before it is answered.             *)
UntouchedKept ==
  [][\A t \in uncommitted :
       LET d == t.draft
       IN  (d.op = "update" /\ t \notin uncommitted' /\ version' > version
              /\ history[d.base][d.row] = now[d.row]) =>
             \A f \in Tracked \ d.touched :
               history'[version'][d.row][f] \in {now[d.row][f], Redrawn(f, now[d.row][f])}]_vars

(* The cache only holds what was fetched for somebody who has signed in    *)
(* since the document was loaded: signing out and in as somebody else      *)
(* keeps it, loading a page empties it.                                    *)
OwnDataSinceLoad ==
  \A k \in Keys : cache[k].seen > 0 => cache[k].by \in signedIn
================================================================================
