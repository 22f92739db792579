# Xecurity Platform: TLA+ specifications

These specifications model the two halves of the platform: the back end under
`src/backend/app`, a FastAPI server over PostgreSQL through SQLAlchemy, which
keeps the products, releases, plans, subscriptions, deployments, licenses,
devices and activation requests of a software vendor, publishes a manifest of
trial tokens on GitHub and keeps an audit log; and the admin interface under
`src/frontend/src`, a Next.js application over the HTTP API with a TanStack
Query cache.

## 1. The system

### What the components of the back end share

* One HTTP request is one handler with one `AsyncSession`
  (`core/database.py`). The session commits when the handler has returned and
  rolls back on an exception; several services also commit in the middle. The
  commit is the exit code of a `yield` dependency (`database.py:38-39`), which
  fastapi 0.141.1 (`uv.lock`) runs after the answer has been sent: a client may
  have its answer before the change is visible, or although it never will be.
* The database runs at its default isolation (READ COMMITTED). Nothing locks a
  row (`FOR UPDATE`), no row carries a version: between any two database calls
  of a handler, other handlers commit.
* `expire_on_commit=False` and the identity map: a handler decides on the copy
  of a row it has read first, until it refreshes it.
* The ORM writes only columns whose value differs from the one read. Assigning
  the value that was read writes nothing, so it does not undo what another
  handler has committed since.
* Queries see other sessions' changes only once committed (`autoflush=False`,
  explicit `flush()` before they are read back).

The modules of the back end use one shape: `sessions[w]` is what handler `w` is
doing (`step`) and what it has read (`seen`), one action for each segment of a
handler between two points where others may run, and `Fail(w)` for an
exception, a lost connection or the crash of the process: what is not committed
is rolled back, what was written elsewhere (a file, GitHub) stays. Reading and
the checks that follow are one action, and so are the flush and the commit that
follow: nothing another handler can see happens between them. In `AuditTrail`
the sessions are called `requests` and in `PlanCapabilities` `edits`, and the
names of their specifications begin with `Audit` and `Link`, so that one module
can state theorems about them beside those about another service.

### What the components of the front end share

* Reads go through one query cache per browser document
  (`lib/react-query/queryClient.ts`: five minutes of `staleTime`, one retry),
  writes through mutations whose success handlers invalidate query keys. What a
  page shows is therefore a copy, and each page must name the right keys. The
  read that a success handler starts may come before the commit of the change it
  reads for.
* A dialog is opened on a row of the copy; its form turns the row into inputs
  and the inputs into a request. An edit sends every field it has, touched or
  not, so that a field the form shows wrongly is written wrongly.
* The session is a token in `localStorage`, which the tabs share; the document
  keeps the user it has found there. Some links load the document anew, others
  keep it, and signing out keeps the cache.

### Components

| Component | State | Operations | What is hard | What makes it correct |
|---|---|---|---|---|
| Activation requests | request rows, their history, licenses, license files | submit, review, reject, generate license | stale checks, a commit in the middle, a file written before the rows | no license without review, a generated request is downloadable, a rejection stands, the history accounts for the licenses |
| Request intake | request numbers, uploaded files | upload (admin and client API) | number drawn by reading the last one, file stored before the insert, under a path with the client's file name | dense unique numbers, every row has its own file, one request per document |
| User accounts | users, the running server | create, update, disable, start-up | counting owners before demoting one | an active owner remains, the server can restart |
| Subscriptions, licenses and deployments | their rows, soft deletion | create, update, suspend, cancel; issue, revoke; create, update, delete | uniqueness checked by a query only, lost updates, a row deleted under an update | one active license per deployment, issued under an entitled subscription, no accidental revival |
| Releases | releases, latest flag, stamp | create, update, delete | demotion and insertion are not atomic | one latest release per channel, published releases are frozen and stamped |
| Trial tokens | tokens, GitHub manifest | generate, revoke | two calls to GitHub inside a transaction, a refused push | one active token, issued once, the manifest agrees |
| Devices | device rows, trial period | register, heartbeat, edit, delete | every client call races with the operator's | one trial, only trials expire |
| Plans and capabilities | the two link tables, deleted capabilities | assign, withdraw, attach, detach, delete | a rule over two tables | a plan has capabilities of its product |
| Events and audit log | event buses, audit rows | publish, listen, commit | events before or after the commit, swallowed errors | the log tells the truth and misses nothing |
| Query cache | per key the data, their age, the fetch under way | fetch, retry, invalidate, expire, poll, focus, collect | an answer read before a change and delivered after it, an answer before its commit | fresh data include what was committed when the user was told, no view goes back |
| Admin pages and forms | the page, the dialog, the requests under way | list, open, edit, submit, for twelve entities | tables that must agree with the cache, answers after the page is left | an edit changes what its user changed, and otherwise only what is known |
| Session and navigation | who is signed in, here and in other tabs | sign in and out, load, redirect | a cache that outlives the session | no data of somebody who has not signed in here |
| Products, organizations | rows | CRUD | little: a unique column backs the check | - |
| Authentication | none on the server | login, refresh | cryptography | - |

## 2. Modules

| Module | Models | Actions and their code |
|---|---|---|
| `ActivationRequests` | `activation_request_service.py` after the insert | `Submit`; `ReviewLoad`/`ReviewCommit`; `RejectLoad`/`RejectCommit`; `GenerateLoad`, `GenerateApprove` (the commit inside `update_status`), `GenerateRefresh`, `GenerateSave` (signed file), `GenerateCommit` |
| `RequestIntake` | `create_from_upload`, `generate_request_number`, `LocalDiskStorageService.save` | `Begin` (deduplication), `DrawNumber`, `SaveFile`, `Insert` (unique number) |
| `UserAccounts` | `user_service.py`, `deps.py`, the start-up in `main.py` | `Start`, `Stop`, `BeginUpdate` (role check), `LoadTarget` (self protection), `CountOwners`, `CommitUpdate`, `BeginCreate`, `CommitCreate` |
| `Licensing` | `subscription_service.py`, `license_service.py`, `deployment_service.py` | `CreateCheck`/`CreateCommit`, `UpdateLoad`, `SuspendLoad`, `CancelLoad`, `ChangeCommit`; `IssueLoad`, `IssueCheck`, `IssueCommit`, `RevokeLoad`, `RevokeCommit`; `CreateDeployment`, `DeploymentLoad`, `ModifyCommit`, `RetireCommit` |
| `Releases` | `release_service.py`, `repositories/release.py` | `BeginCreate`, `BeginUpdate`, `BeginDelete`, `Demote`, `CommitCreate`, `CommitUpdate`, `CommitDelete` |
| `TrialTokens` | `trial_token_service.py`, `github_service.py` | `BeginGenerate`, `FindActive`, `BeginRevoke`, `LoadToken`, `Deactivate`, `Insert`, `ReadManifest`, `GetSha`, `PutManifest`, `PutRefused`, `Commit`, `NextMonth` |
| `Devices` | `device_service.py`, `routes/devices.py` | `RegisterLoad`, `RegisterNew`, `RegisterAgain`, `HeartbeatLoad`, `HeartbeatNew`, `UpdateLoad`, `WriteStatus`, `DeleteLoad`, `DeleteCommit`, `NextDay` |
| `PlanCapabilities` | `plan_service.py`, `capability_service.py` (links) | `Assign*`, `Withdraw*`, `Attach*`, `Detach*`, `Delete*` |
| `AuditTrail` | `bus.py`, `audit_service.py`, the publishing services | `Change`, `Publish`, `End` |
| `ClientViews` | what the interface promises of the data it shows (abstract) | `Change`, `Acknowledge`, `Look`, `Doubt`, `Forget` |
| `QueryCache` | TanStack Query as configured and called | `Show` (mounting), `Load` (a new document), `Acknowledge` (`invalidateQueries`), `Serve`, `Deliver`, `FailFetch`, `Expire`, `Refocus`, `Poll`, `Collect`; implements `ClientViews` |
| `AdminPages` | the pages and forms of `app/(admin)` and `features` as tables | no actions: per entity the query key, the keys each operation invalidates, the menu of a row, the dialogs, the treatment of each form field |
| `Console` | one tab at work on one entity: `AdminPages` over `QueryCache` | `OpenCreate`, `OpenRow`, `OpenWizard`, `Type`, `Dismiss`, `Submit`, `Press`; `Handle` (commits, then answers), `Answer` (answers, the commit open), `Commit`, `Lose`, `Refuse`, `Succeed`, `GiveUp` (the request, its transaction and its answer); `Others` (other administrators); `Open`, `Back`, `Redirect`, `LoadPage`; `SignIn`, `SignOut`, `Elsewhere` |
| `Overlap` | - | when two handlers are in progress at once |
| `MC...` | - | symmetry, small sets, and the properties that hold until requests overlap |
| `...Proofs` | - | theorems about the module each is named after; `AdministrationProofs` about `UserAccounts` and `AuditTrail`, `CatalogueProofs` about `Releases` and `PlanCapabilities`, `ConsoleProofs` about `QueryCache` and `Console` |

`Console` composes: it `EXTENDS QueryCache` and `AdminPages`, and its steps on
the cache are the cache's own actions. `UserAccounts`, `Licensing` and the
other services of the back end meet `Console` through versions: each change of
a row is a new version of the server's data (`history`), whoever makes it.

Data is abstracted to what the properties tell apart. Ids are model values;
documents, names, builds and fingerprints are members of small sets; a device or
a subscription keeps its status and what its rules depend on; a row in the
interface keeps its status and one field. Text that no property depends on
(reasons, notes, versions, host names, error messages) is left out. Conversions
are modelled by what they do: the request number's text order
(`RequestIntake!Precedes`, with the limit of 999999 scaled to `Limit`), the
storage path, which two generations for a request share, and in the forms the
empty input, the default value, the blank that is left out of the request and
the instant cut to minutes, shown in UTC and read back as local time (`Shown`,
`ReadBack`, `Stored`): a value remembers how far it has moved and whether it has
seconds.

The path of an uploaded file is a parameter of `RequestIntake`, `Path(number,
name)`: `requests/<number>_<name>` is joined to the base directory and not
normalised (`activation_request_service.py:49`, `storage_service.py:29`), so that
only of `Plain` names, those without a directory, is it assumed that number and
name can be told from the path (`PlainPaths`). `MCRequestIntake!MCPath` gives any
other name one path for all numbers.

`Console` has the two ways in which the server carries out a request. Where the
service commits (`SubscriptionsCommitted` to `RequestsCommitted`, by service),
`Handle` writes the rows and answers. Everywhere else `Answer` answers and leaves
the rows in `uncommitted`; `Commit` writes them later, or `Lose` drops them,
because the commit fails or the server stops, and nobody hears of it. A request
that would write a row which an open transaction holds (`Held`) waits, as it does
in PostgreSQL; that it may have read the row before is the subject of
`Licensing` and the other modules of the services and is not repeated here.

## 3. Runs

Several properties of the back end are not true once requests overlap. They are
checked with a history variable of the `MC` modules, `overlapped` (`crossed` for
`PlanCapabilities`), which becomes true in the step that brings two handlers in
progress together: a property named `...Alone` says that the plain property
holds in every state, or step, up to that moment, and nothing of what comes
after it. So none of these excludes the race it is named beside in the list of
hazards; section 4 says what the races do. In the same way some properties
characterise an event and do not exclude it: `RejectionSettles`,
`RevivedOnPurpose`, `SecondLatestIsMovedAlone`, `DuplicatesBounded` and
`LatestBounded` on the server, `OwnDataSinceLoad` (which allows the data of all
who have used the document) and `UntouchedKept` (which allows the two known ways
of redrawing a field) in the interface. `MCRequestIntake` also remembers in
`wandered` that a name with directories has been uploaded. `MCReleases` also remembers in
`moved` the channels that a release of another channel has moved to: the code
lets the latest flag travel with its release, so that `LatestBounded` can only
speak of the others. The other properties are checked for every interleaving.

| Run | Checks | Bounds, and why they are enough |
|---|---|---|
| `requests` | `ReviewedFirst`, `GeneratedIsBacked`, `LicensesAccounted`, `RejectionSettles`, `NothingUndone`; alone: `HistoryChains`, `OneLicense` | one request (requests share nothing but the supply of ids), two handlers, three licenses, `MaxEvents` = 7: two complete generations and a rejection |
| `intake` | `NumbersDense`, `FileStored`, `OpenUntilLimit`; alone: `FileIsDocument` until the numbers run out or a name has directories, `Deduplicated` | four documents, three names (a plain one, one with directories, one that cannot be parsed), two uploads, `Limit` = 3 so that numbering is exhausted, also by uploads that do not overlap; documents and uploads are interchangeable (`Symmetry`), 920 thousand states |
| `users` | `OnlyOustedOwnersEndIt`; alone: `OwnerKept`, `Restartable` | the default owner and two users, OWNER and one other role, two requests, restarts |
| `licensing` | `DuplicatesBounded`, `RevivedOnPurpose`, `DeletedForGood`; alone: `OneActiveLicense`, `ChecksStand` | two subscriptions of one plan, one deployment (deployments meet only through a subscription), three licenses: one more than handlers, so that the bound could be exceeded; 2.3 million states |
| `releases` | `LatestBounded`, `UnstampedAreBornPublished`; alone: `SecondLatestIsMoved`, `PublishedFrozen` | three releases (one more than handlers), two channels, three builds; DRAFT and PUBLISHED, the code treats ARCHIVED like PUBLISHED; once requests overlap, published releases of one channel, to which none has moved (`OneChannel`); 380 thousand states |
| `tokens` | `IssuedOnce`; alone: `OneActiveToken`, `ManifestFollows` | two months and the month after, two handlers, four handlers started in all (`MaxStarts`) |
| `devices` | `OneTrial`, `RegistrationExpiresTrialsOnly` | one fingerprint (rows are independent), two handlers, a trial of one day in three, two rows after each other (`MaxRows`) |
| `plans` | alone: `AttachedWithinProduct` | two products with a plan each, two capabilities, two handlers |
| `audit` | `AuditSound`, `AuditAtomic` | each kind of operation twice (`MaxChanges`), two handlers |
| `console` | `FreshSinceSuccess`, `OwnDataSinceLoad`, `UntouchedKept`, the refinement `MonotoneView`, the liveness `CatchesUp` | see below; 450 thousand states |
| `last_owner` | violated: `LastOwnerProtected` | as `users` |
| `every_event_audited` | violated: `EveryEventAudited` | one handler |

`console` explores the entities one by one, each in the topics
(`MCConsole!MCTopics`) where it differs from the others: the whole cache
(failing, expiring and polled reads) on devices and organizations; the list and
the pages of rows on every entity that has them; two users signing in and out,
here and in another tab, on an entity for owners only, one that admits some
roles and one for all roles but one; one field of each treatment of the forms;
and two requests under way at once. There are two rows, of which one page is
opened, one request at a time and two versions of the data (two and three in
the overlap topic, one version where signing in is all that is explored): enough
for an answer read before a change and delivered after it, for a read between an
answer and its commit, for a dialog open on a row that somebody else
writes, and for an answer that closes the dialog of another row. A topic also
names the operations it explores (`ops`) and how far local time is behind UTC
(`zone`): the end of a subscription is explored in UTC and away from it, with and
without seconds.

`CHECK_DEADLOCK FALSE` is set where a bound ends the behaviour (`MaxStarts`,
`MaxChanges`, release ids, request numbers or versions used up) or where the
modelled server may stop for good: two of the divergences below leave it without
an owner, so that nobody may do anything (`users`).

**Fairness.** `Console!Spec` assumes one thing, `WF_vars(Fetching(k))` for every
key: a read that the browser has sent is answered or fails in the end, and its
answer is taken. Connections time out, and TanStack Query resolves or rejects
every fetch; a rejected one is retried once and then is an error. Nothing is
assumed of people: nobody need click, sign in or look. Under that, `CatchesUp`
says that no page goes on for ever showing data older than what was committed
when its user was last told of a success, without saying that reading them has
failed, unless one success after the other keeps starting the read again.
For the back end no liveness is claimed and no fairness assumed: nothing in it
runs by itself. There is no worker, timer or retry, a handler that ends leaves
nothing that must be completed later, and a client is free never to ask again.

**Refinement.** `QueryCache!MonotoneView` is `ClientViews!Spec` with a view for
every key: the version its data were read at. A view that counts as fresh shows
at least what was owed when a success was last announced, which is what was
committed by then (`owed`) and need not include the change announced; and a view
is brought up to newer data only, or emptied.

## 4. What the runs show, and where code and text part

Holds for every interleaving: no request is approved or licensed that was never
under review; a request marked `LICENSE_GENERATED` names a license issued for
it whose file exists; a rejected request with no review or generation in
progress stays rejected; request numbers are dense; a trial token is issued
once; a channel that no release has moved to has at most one latest release per
handler; a published release without a stamp was created published; a device has one trial; a suspended subscription entitles again and a
deleted deployment lives again for no stale write; nothing in the audit log did
not happen. In the interface: data that count as fresh are no older than what was
committed when the user was last told of a success, no list or page goes back to
older data, a page that lags behind that catches up or says that reading failed,
the cache of a document holds nothing fetched for somebody who has not signed in
since it was loaded, and an edit keeps the fields its user left alone, up to the
exceptions below.

Four exceptions are written into the properties of the interface, each by name:

* `owed` is what was committed when the user was told, not what he was told. The
  operations that commit before they answer (`Committed`) are part of it; of the
  others the read that their success starts may miss the change, and the data then
  count as fresh for five minutes. Organizations, devices, products, users,
  capabilities, releases and trial tokens never commit before the answer.

* `Changed` promises nothing of the page of a subscription
  (`subscriptions/[id]/page.tsx:18`), of the manifest (`useTrialTokens.ts`) and
  of the dashboard's counts: no success handler invalidates their keys, so that
  they show what was for up to five minutes.
* `Redrawn`: an instant is cut to minutes, shown in UTC and read back as local
  time (`SubscriptionForm.tsx:80`), so that a save takes its seconds away and,
  away from UTC, moves it by the offset; and a plan of custom duration becomes one
  of twelve months when anything of it is edited (`PlanForm.tsx:58`).
* A row that somebody else has written since the list was read is out of reach
  of `UntouchedKept`: an edit form sends every field as its list showed it and
  so writes back over another administrator's change.

`FreshSinceSuccess` makes no promise of a first answer that was already under way
when the change was announced: the query has no data then, and
`invalidateQueries` lets such a fetch go on.

Two runs end in a violation, each of a text of the repository:

* `last_owner`: "Cannot disable or downgrade the last OWNER."
  (`user_service.py:45`). Two owners who demote each other at the same time
  both count two owners (line 43), and no owner remains.
* `every_event_audited`: "Listens for DomainEvents and writes them to the
  AuditLog table." (`audit_service.py:11`). The license, subscription, plan,
  capability and organization services publish on an `EventBus()` of their own
  to which nothing subscribes: a request publishes there and reaches its end
  without an audit row.

The `...Alone` properties mark the others, which only overlapping requests
reach; removing `~overlapped` from each gives its counterexample:

* a review or a generation whose check has passed overwrites a rejection
  ("Only pending requests can be reviewed", "Request must be under review or
  approved": `activation_request_service.py:142`, `:153`), and two generations
  issue two licenses for a request;
* two uploads of one document pass the deduplication (`:34`), and the loser of a
  race for a number may overwrite the winner's file (`:50`);
* two issues for a deployment leave two active licenses
  (`license_service.py:32`), and a license may be issued under a subscription
  suspended since it was read;
* two latest releases in a channel (`release_service.py:33`);
* two active trial tokens (`trial_token_service.py:65`);
* a capability withdrawn while it is attached joins another product's plan
  (`plan_service.py:114`).

Without any overlap: an upload whose name has directories in it may be stored over
the file of another request (`activation_request_service.py:49`); a deletion of a
deployment is committed before it is published (`deployment_service.py:97`), so
that a crash in between leaves it without an audit row; a release created as PUBLISHED carries no stamp
(`release_service.py:41` sets it in a dictionary that line 49 passes through
`ReleaseCreate`, which has no such fields; `UnstampedAreBornPublished` says that
this is the only way to one); `update_subscription` may reactivate a
subscription beside a newer one of the plan (its status is not checked against
`subscription_service.py:37`); a published release may return to DRAFT
(`release_service.py:107`, against the text of `releases/[id]/page.tsx:232`);
a push that GitHub refuses is ignored, so that a revoked token stays in the
manifest (`github_service.py:51`, `community-trials/page.tsx:66`);
a license stays ACTIVE when its subscription is cancelled, or its deployment
deleted; a request rejected after generation keeps its license; withdrawing a
capability leaves it in the product's plans; a heartbeat overwrites an
operator's BLOCKED, and a device first seen by a heartbeat is on a trial without
an end; the request numbering stops for good after 999999.

Texts of the interface that the server does not keep, read while modelling its
dialogs: "This will immediately revoke their access." (`subscriptions/page.tsx:266`;
the licenses stay ACTIVE), "This will prevent any new subscriptions to this
plan." (`plans/page.tsx:296`; `create_subscription` does not read the plan's
status), "This will disable access for all users in this organization."
(`organizations/page.tsx:239`; the row is marked deleted, its users are not
looked at). A success closes the dialog of its operation whatever row it is open
on by then (`subscriptions/page.tsx:69`), and signing out keeps the cache
(`authContext.tsx:54`): the next user of the document sees what the last one was
shown until it is fetched again.

## 5. Proofs

Every theorem holds for all values of the constants; TLC has checked the same
property on the instance of section 3 first. Several modules need the
assumption `WorkersAreFinite`: the connection pool admits a fixed number of
sessions.

`ActivationRequestsProofs`, for every set of requests, licenses and handlers and
every `MaxEvents`:

| Theorem | Says |
|---|---|
| `TypeCorrect` | `Spec => []TypeOK` |
| `ReviewedBeforeLicensed` | `Spec => []ReviewedFirst` |
| `GeneratedBacked` | `Spec => []GeneratedIsBacked` |
| `LicensesAreAccounted` | `Spec => []LicensesAccounted` |
| `RejectionIsFinal` | `Spec => RejectionSettles` |
| `NothingIsUndone` | `Spec => NothingUndone` |
| `HistoryChainsUntilOverlap` | `MCSpec => []HistoryChainsAlone` |
| `OneLicenseUntilOverlap` | `MCSpec => []OneLicenseAlone` |

Assumptions: `NoneIsNoValue` (NULL is no id and no status), `MaxEventsIsNat` and,
for the last two, `WorkersAreFinite`.

The properties are not inductive as they stand: what a handler may write
depends on what it has read, so the invariant has to speak of handlers at work.
`HistoryInv` adds to `TypeOK` and `ReviewedFirst` that a row under review,
approved or generated has UNDER_REVIEW in its history (`RowsReviewed`).
`SessionInv` adds that a handler inside a generation works on a reviewed
request and that its license id is in no row of the database (`SessionsSound`),
that two handlers never hold the same id (`LicensesUnshared`), and that a row's
license was issued for it and has a file (`RowsBacked`). Each is preserved by
every action, one step per action. `LicensesAccounted` compares two
cardinalities: its invariant `Accounted` is a step from `n` to `n + 1` on both
sides in `GenerateCommit`, and needs that the id committed was free.

The theorems about what holds until requests overlap, here and below, share an
argument. As long as `overlapped` is false at most one handler is at work
(`NoOverlap`), so what it has read is what the row holds (`Current`), except
between approving and reading again. The history then ends with the status of
its row (`HistoryEnds`), and a request has no license before it is generated
and one after (`SingleLicense`), whatever generations fail on the way.

`LicensingProofs`, for any subscriptions, licenses, plans and deployments:

| Theorem | Says |
|---|---|
| `TypeCorrect` | `Spec => []TypeOK` |
| `OnlyOnPurpose` | `Spec => RevivedOnPurpose` |
| `DecommissionStands` | `Spec => DeletedForGood` |
| `DuplicatesAreBounded` | `Spec => []DuplicatesBounded` |
| `OneActiveUntilOverlap` | `MCSpec => []OneActiveLicenseAlone` |
| `ChecksStandUntilOverlap` | `MCSpec => ChecksStandAlone` |

Assumptions: `NoneIsNoValue` and `WorkersAreFinite`. The type invariant needs to
know what a handler about to commit may rely on: `Rows` adds that the id of a
subscription to insert is free and drawn by that handler only, and that a row to
change exists. That also gives `OnlyOnPurpose`: an insert never lands on a
suspended row, so only a `ChangeCommit` can change a status, and it writes a
status only when asked for one. `DecommissionStands` needs that a deleted row is
decommissioned (`Decommissioned`) and that `ModifyCommit` is refused on one. For
the bound, `Room` says that the active licenses of a deployment *and* the
handlers that have passed the check for it are together no more than the
handlers there are: the check starts from none active, the insert turns a
handler into a license. `Stands` is what a handler that is alone has checked and
still finds at its commit.

`RequestIntakeProofs`, for any documents, names, uploads and limit:

| Theorem | Says |
|---|---|
| `NumbersAreDense` | `MCSpec => []NumbersDense` |
| `FilesAreStored` | `MCSpec => []FileStored` |
| `IntakeIsOpen` | `MCSpec => []OpenUntilLimit` |
| `FileIsDocumentUntilOverlap` | `MCSpec => []FileIsDocumentAlone` |
| `DeduplicatedUntilOverlap` | `MCSpec => []DeduplicatedAlone` |

Assumptions: those of `RequestIntake`, of which `FileIsDocumentUntilOverlap` needs
`PlainPaths`; `MCSpec` only adds the memory of overlaps and of names with
directories. `IntakeInv` says of an upload that its number was the next one when it
was drawn (`Sound`): rows are only added, so it is now the next one or taken, and
the unique constraint refuses it if it is taken. That the greatest text is the
greatest number below the limit and the number before the limit from then on
(`LastBelowLimit`, `LastAtLimit`) is the arithmetic of `Precedes`. An upload that
is alone still has the next number and an unknown document (`Current`), and as long as
all names are plain (`NamesPlain`) its file lands under no other row, unless the numbers have run out: from then on
every upload draws the last number and writes over the file of that request.

`AdministrationProofs`, for any accounts and roles:

| Theorem | Says |
|---|---|
| `OnlyOustedEndIt` | `Spec => OnlyOustedOwnersEndIt` |
| `OwnerKeptUntilOverlap` | `MCSpec => []OwnerKeptAlone` |
| `RestartableUntilOverlap` | `MCSpec => []RestartableAlone` |

Assumptions: those of `UserAccounts`. The invariant `Checked` says that a
request which is about to count or to commit does not demote its own author:
then whoever it demotes, its author remains, unless he has been demoted
meanwhile. Until requests overlap he cannot be (`ActorsOwn`), so that an owner
remains from the first start on. The count of owners is not used: self
protection alone carries the proof.

`TrialTokensProofs`, for any months, handlers and number of requests:

| Theorem | Says |
|---|---|
| `TokensAreIssuedOnce` | `Spec => IssuedOnce` |
| `OneTokenUntilOverlap` | `MCSpec => []OneActiveTokenAlone` |
| `ManifestFollowsUntilOverlap` | `MCSpec => ManifestFollowsAlone` |

Assumptions: those of `TrialTokens`. `TokenInv` says that a row a handler has
inserted is not in the database before it commits (`Fresh`), and that no two
handlers have inserted the same one (`Unshared`), which is what the unique column
gives: so a commit can only make a token active that was not there, and
`IssuedOnce` follows. Until requests overlap, a generation holds the one active
token there is (`Replaces`), because `get_active_token` returns one whenever one
exists: it picks the latest, and a set of numbers below a bound has a greatest
one (`NatMax`). The manifest a handler is about to push is the active token of
what it will commit (`Follows`), unless its month passes meanwhile, and after the
push the file says it (`Pushes`).

`CatalogueProofs`, for any releases, channels, builds and handlers, and any
capabilities, products and plans:

| Theorem | Says |
|---|---|
| `PublishedIsStamped` | `Spec => UnstampedAreBornPublished` |
| `LatestIsBounded` | `HistorySpec => []LatestBounded` |
| `PublishedFrozenUntilOverlap` | `HistorySpec => PublishedFrozenAlone` |
| `SecondLatestUntilOverlap` | `HistorySpec => SecondLatestIsMovedAlone` |
| `AttachedUntilOverlap` | `MCLinkSpec => AttachedWithinProductAlone` |

Assumptions: `NoneIsNoValue` and `WorkersAreFinite` of `Releases`,
`EditorsAreFinite` of `PlanCapabilities`.
`HistorySpec` is `Spec` with the two history variables; TLC's `MCSpec` is the
same without the steps that `OneChannel` cuts off (`BoundedIsHistory`), so the
theorems are about more behaviours than the run explores. `ReleaseInv` says that
a release to create has an id without a row, drawn by one handler only, and that
a handler with a release at hand passed the check for it (`Sound`).

`LatestBounded` was an action property at first: a step may exceed the number of
handlers only by moving a release. That is false: several moves into a channel
fill it up to the number, and a promotion whose demotion came before them then
exceeds it without any move; the run did not see it because its bound allows one
channel only once requests overlap. It holds of the channels no release has
moved to, and of these the invariant `OwnedInv` says why: every flagged release of the channel has a handler of its own, and a handler
about to promote another release has found its own and will demote it
(`OwnedBy`, an injection). A commit that promotes a release therefore takes the
handler's earlier one away as the new one takes its place. The injection bounds
the count of the set, so that no induction over it is needed.

Until requests overlap the copy a handler works on is the row (`Current`), which
is what the check for a published release and the query for the demotion rely
on; that there are finitely many rows at a time (`WrittenIsFinite`) lets one
speak of how many are latest. A capability about to be attached belongs to the
product of the plan as long as no other request withdraws it (`Belongs`).

`DevicesProofs`, for any fingerprints, handlers, length of trial and days:

| Theorem | Says |
|---|---|
| `TypeCorrect` | `Spec => []TypeOK` |
| `TrialsNeverMove` | `Spec => OneTrial` |
| `RegistrationSparesOthers` | `Spec => RegistrationExpiresTrialsOnly` |

Assumptions: those of `Devices`. `RowsStep` says once what any step may do to a
row, from which `OneTrial` follows; the other theorem needs the invariant
`Clock`, that no handler works with a later time than now.

`AdministrationProofs` also holds the theorems of the audit log, for any number
of requests:

| Theorem | Says |
|---|---|
| `LogIsSound` | `AuditSpec => []AuditSound` |
| `LogIsAtomic` | `AuditSpec => []AuditAtomic` |

They use none of the assumptions of `AuditTrail`. `AuditSound` is not inductive for a
change that is committed before it is published: `EarlyCounted` adds the
requests that have still to publish theirs, and the sum stays within the
changes.

`ConsoleProofs` begins with the query cache, for any keys and users and a cache
whose pages invalidate and show what they like:

| Theorem | Says |
|---|---|
| `CacheInvariant` | `QuerySpec => []CacheInv` |
| `CacheFreshSinceSuccess` | `QuerySpec => []FreshSinceSuccess` |
| `CacheIsMonotone` | `QuerySpec => MonotoneView` |

`CacheInv` strengthens `FreshSinceSuccess` by `FetchesForward`: an answer on its way
has read no older data than its query shows, nor than what was owed when the
fetch began. An invalidation must start a fetch of a shown query afresh for
that, and a first fetch goes on only because nothing is owed of it. The
refinement then takes each step of a key to a `Look`, a `Doubt` or a stutter.

It then shows what the tables of the twelve entities have in common, for any rows: the dialogs of a page run operations it has, and the keys
an operation invalidates cover the list and the page of the row, but for the
page of a subscription (`TablesRefresh`); the forms treat blank inputs alike
(`FormsSound`). The keys are sequences, and invalidating is by prefix, so the
lemmas are about prefixes of short tuples. At last it puts the tables and the cache
together, for any rows, users, topics and bounds:

| Theorem | Says |
|---|---|
| `ConsoleIsCache` | `Spec => QuerySpec` |
| `ConsoleFreshSinceSuccess` | `Spec => []FreshSinceSuccess` |
| `ConsoleIsMonotone` | `Spec => MonotoneView` |
| `ConsoleShowsOwnData` | `Spec => []OwnDataSinceLoad` |
| `ConsoleKeepsUntouched` | `Spec => UntouchedKept` |

Every step of the console is a step of the cache. The hard step is a success
(`SucceedStep`): it owes what `Changed` names and invalidates what the entity's
table names, and the second covers the first because the invariant `DeskOK`
knows that a request under way is an operation of its entity's table. It says
nothing of the three queries that `Changed` leaves out. A commit is a step of the
cache by itself, before or after the answer, so that the theorems hold whatever the
server does with its transactions. The next two theorems follow from those of the cache. `OwnInv` says of data *and* of
fetches under way, with their retries, that the user whose token they carry has
signed in since the document was loaded.

`UntouchedKept` needs `KeptInv`, which follows a field from the list into the
form, the request and the row: no live row of any version has an empty field
that its form requires (`HistoryOK`), and a draft holds what `Shown` makes of
the version it was opened on, but for the fields typed in (`Faithful`). Sending
that back gives the same row or redraws it (`ShownBack`), because in the tables of
all nine forms an input that may be blank starts blank, the duration of a plan
apart, and only such an input is left out (`FormsSound`). Between the answer and
the commit the row waits in a transaction (`UncommittedOK`): what it will write is
still the edit applied to the row as it is (`Prepared`), because no two open
transactions share a row (`Apart`) and nobody else writes a row that is held.

Only model-checked: the liveness `CatchesUp`, which is out of the prover's reach
as is every use of fairness. Every other property of a passing run has its
theorem.

## 6. Not modelled

Products and organizations on the server (one row each, a unique column behind
every check; their pages are in `AdminPages`), authentication (stateless tokens
and cryptography), signing and the parsers (pure functions: the intake takes a
document and what the parser makes of its name as inputs), what the dashboard
counts, migrations and scripts. Left out inside modelled components: passwords
and organizations of users, dates and limits of subscriptions, `check_update`
and artifacts of releases, telemetry of devices, names and attributes of plans
and capabilities.

Of the interface: `components/ui` (presentation), search, sorting, downloads and
wording, the editor of a plan's capabilities, browser history but for the way
back from a row's page, and other tabs but for what they leave in
`localStorage`. A document that is gone no longer hears the answers to its
requests, which the server may still carry out (`by` = "gone").

## 7. Plan

Done: the modules of section 2, in the order of the back end's core
(`ActivationRequests` with its proofs), the other services, the deployments
inside `Licensing`, the query cache with its abstract specification, the pages
and the console over both, and the theorems of section 5.

Left, in this order:

1. Abstract specifications of the back end: the request life cycle as its error
   messages state it, implemented by `ActivationRequests` as long as requests do
   not overlap; the latest release of a channel as one register.
2. `ActivationRequests` composed with the revocation of the offline license it
   has issued; `check_update` over `Releases`.
