------------------------------- MODULE QueryCache -------------------------------
(***************************************************************************)
(* The query cache of the admin front end, one browser document of one     *)
(* tab: TanStack Query as lib/react-query/queryClient.ts configures it and *)
(* as the hooks and pages call it.  The server's data are a version        *)
(* number; a cached query remembers the version its answer was read at and *)
(* the user whose token fetched it.                                        *)
(***************************************************************************)
EXTENDS Naturals, FiniteSets

CONSTANTS
  Keys,        \* the query keys
  Polled,      \* those with a refetchInterval
  Users,       \* who may be signed in
  Nobody,      \* no user
  MaxVersion   \* bound: versions of the server's data

ASSUME CacheAssumption ==
  /\ Polled \subseteq Keys
  /\ Nobody \notin Users
  /\ MaxVersion \in Nat

VARIABLES
  version,   \* how often the server's data were written
  cache,     \* per key its query
  shown,     \* the keys a mounted page uses
  owed,      \* per key the version that was committed when the user was told of a success
  who        \* whose token requests carry

cacheVars == <<version, cache, shown, owed, who>>

FetchStates == {"idle", "sent", "resent", "served"}

(* A query: the version and the author of its data (0: no data), whether   *)
(* they are stale or invalidated, whether the last fetch failed, the fetch *)
(* with the user whose token it carries, and what a served one has read.   *)
Query == [seen : Nat, by : Users \cup {Nobody}, stale : BOOLEAN, error : BOOLEAN,
          fetch : FetchStates, as : Users \cup {Nobody}, got : Nat]

Empty == [seen |-> 0, by |-> Nobody, stale |-> FALSE, error |-> FALSE,
          fetch |-> "idle", as |-> Nobody, got |-> 0]

CacheInit ==
  /\ version = 1
  /\ cache = [k \in Keys |-> Empty]
  /\ shown = {}
  /\ owed = [k \in Keys |-> 0]
  /\ who \in Users \cup {Nobody}

Resting(q) == q.fetch = "idle"

(* A fetch starts afresh: what an earlier one has read is dropped, and its *)
(* error unless there are data beside it.                                  *)
Begun(q, u) == [seen |-> q.seen, by |-> q.by, stale |-> q.stale, error |-> q.error /\ q.seen > 0,
                fetch |-> "sent", as |-> u, got |-> 0]

(* A query a component mounts, or the window's focus finds: fetched when   *)
(* it has no data or stale ones, joined when a fetch is under way.         *)
WantedOnce(q, u) ==                                   \* mutant of Wanted
  IF Resting(q) /\ q.seen = 0 THEN Begun(q, u) ELSE q

Wanted(q, u) == IF Resting(q) /\ (q.seen = 0 \/ q.stale) THEN Begun(q, u) ELSE q

(* A query whose key is invalidated has its data marked.  If it is shown,  *)
(* its fetch is started again, but a first fetch under way goes on.        *)
Marked(q) == IF q.seen > 0 THEN [q EXCEPT !.stale = TRUE] ELSE q

InvalidatedAtRest(k) ==                               \* mutant of Invalidated
  IF k \in shown /\ Resting(cache[k]) THEN Begun(Marked(cache[k]), who) ELSE Marked(cache[k])

Invalidated(k) ==
  IF k \in shown /\ (Resting(cache[k]) \/ cache[k].seen > 0)
  THEN Begun(Marked(cache[k]), who)
  ELSE Marked(cache[k])

(* The queries whose next answer is read after an invalidation made now. *)
Refreshable(k) == Resting(cache[k]) \/ (k \in shown /\ cache[k].seen > 0)
--------------------------------------------------------------------------------
(* Someone writes the data on the server. *)
Write ==
  /\ version < MaxVersion
  /\ version' = version + 1
  /\ UNCHANGED <<cache, shown, owed, who>>

(* The user is told of a success that concerns the keys of P: those of K   *)
(* are invalidated, and P owes him what is committed by now.               *)
Acknowledge(K, P) ==
  /\ cache' = [k \in Keys |-> IF k \in K THEN Invalidated(k) ELSE cache[k]]
  /\ owed' = [k \in Keys |-> IF k \in P /\ Refreshable(k) THEN version ELSE owed[k]]
  /\ UNCHANGED <<version, shown, who>>

(* The pages change and u is signed in: the queries newly shown are wanted. *)
Show(S, u) ==
  /\ who' = u
  /\ shown' = S
  /\ cache' = [k \in Keys |-> IF k \in S \ shown THEN Wanted(cache[k], u) ELSE cache[k]]
  /\ UNCHANGED <<version, owed>>

(* The browser loads a document anew: nothing is cached, and what was      *)
(* under way is dropped.                                                   *)
LoadOver(S, u) == Show(S, u)                           \* mutant of Load

Load(S, u) ==
  /\ who' = u
  /\ shown' = S
  /\ cache' = [k \in Keys |-> IF k \in S THEN Begun(Empty, u) ELSE Empty]
  /\ UNCHANGED <<version, owed>>

(* The server answers the read of a signed-in user. *)
Serve(k) ==
  /\ cache[k].fetch \in {"sent", "resent"}
  /\ cache[k].as # Nobody
  /\ cache' = [cache EXCEPT ![k].fetch = "served", ![k].got = version]
  /\ UNCHANGED <<version, shown, owed, who>>

(* The answer becomes the query's data, which are fresh from then on. *)
Deliver(k) ==
  /\ cache[k].fetch = "served"
  /\ cache' = [cache EXCEPT ![k] =
                 [Empty EXCEPT !.seen = cache[k].got, !.by = cache[k].as]]
  /\ UNCHANGED <<version, shown, owed, who>>

(* A read fails: it is sent once more, with the token of that moment.  The *)
(* second failure is final.                                                *)
FailFetch(k) ==
  /\ \/ /\ cache[k].fetch = "sent"
        /\ cache' = [cache EXCEPT ![k].fetch = "resent", ![k].as = who]
     \/ /\ cache[k].fetch = "resent"
        /\ cache' = [cache EXCEPT ![k].fetch = "idle", ![k].as = Nobody,
                                     ![k].error = TRUE]
  /\ UNCHANGED <<version, shown, owed, who>>

(* staleTime passes. *)
Expire(k) ==
  /\ cache[k].seen > 0
  /\ ~cache[k].stale
  /\ cache' = [cache EXCEPT ![k].stale = TRUE]
  /\ UNCHANGED <<version, shown, owed, who>>

(* The window gets the focus, or the network comes back. *)
Refocus ==
  /\ cache' = [k \in Keys |-> IF k \in shown THEN Wanted(cache[k], who) ELSE cache[k]]
  /\ UNCHANGED <<version, shown, owed, who>>

(* The interval of a polled query passes. *)
Poll(k) ==
  /\ k \in Polled \cap shown
  /\ Resting(cache[k])
  /\ cache' = [cache EXCEPT ![k] = Begun(@, who)]
  /\ UNCHANGED <<version, shown, owed, who>>

(* A query no page uses is dropped after gcTime. *)
Collect(k) ==
  /\ k \notin shown
  /\ Resting(cache[k])
  /\ cache' = [cache EXCEPT ![k] = Empty]
  /\ UNCHANGED <<version, shown, owed, who>>

(* What the cache does of itself. *)
CacheNext ==
  \/ \E k \in Keys : Serve(k) \/ Deliver(k) \/ FailFetch(k) \/ Expire(k) \/ Poll(k) \/ Collect(k)
  \/ Refocus

QueryNext ==
  \/ CacheNext
  \/ Write
  \/ \E K \in SUBSET Keys : \E P \in SUBSET K : Acknowledge(K, P)
  \/ \E S \in SUBSET Keys, u \in Users \cup {Nobody} : Show(S, u) \/ Load(S, u)

QuerySpec == CacheInit /\ [][QueryNext]_cacheVars
--------------------------------------------------------------------------------
CacheTypeOK ==
  /\ version \in Nat
  /\ cache \in [Keys -> Query]
  /\ shown \subseteq Keys
  /\ owed \in [Keys -> Nat]
  /\ who \in Users \cup {Nobody}

(* Data that count as fresh are at least as new as what the server had     *)
(* committed when the user was last told of a success that concerns them   *)
(* (invalidateQueries in the success handlers), unless a first answer was  *)
(* still under way at that moment.  The user's own change is part of that  *)
(* if its operation commits before it answers.                             *)
FreshSinceSuccess ==
  \A k \in Keys : cache[k].seen > 0 /\ ~cache[k].stale => cache[k].seen >= owed[k]

(* No version is shown or owed before it exists, and a served fetch has    *)
(* read what its query shows and what was owed when it began.              *)
FetchesForward ==
  \A k \in Keys :
    /\ cache[k].seen <= version
    /\ owed[k] <= version
    /\ cache[k].fetch = "served" =>
         /\ cache[k].got > 0
         /\ cache[k].seen <= cache[k].got
         /\ owed[k] <= cache[k].got
         /\ cache[k].got <= version

CacheInv == CacheTypeOK /\ version > 0 /\ FetchesForward /\ FreshSinceSuccess

(* The views a user sees: the cached data. *)
Views == INSTANCE ClientViews WITH
  Views <- Keys,
  latest <- version,
  view <- [k \in Keys |-> cache[k].seen],
  settled <- {k \in Keys : cache[k].seen > 0 /\ ~cache[k].stale},
  promise <- owed

(* Every step of the cache is a step of the views or leaves them alone. *)
MonotoneView == Views!Spec
================================================================================
