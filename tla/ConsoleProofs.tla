------------------------------ MODULE ConsoleProofs ------------------------------
(***************************************************************************)
(* The query cache keeps its invariant and implements the client views,    *)
(* for every set of keys and users, whatever the pages do with it.         *)
(*                                                                         *)
(* The admin front end at work uses its query cache as QueryCache says, so *)
(* what is proved of the cache holds of the front end: for every entity,   *)
(* every number of rows, users, requests and versions, whatever is typed.  *)
(* Its dialogs keep what the list showed of a row, so an edit leaves what  *)
(* its user has not touched as it was.                                     *)
(***************************************************************************)
EXTENDS Console, SequenceTheorems, TLAPS

(* A query that is begun or wanted is still a query and keeps its data; one *)
(* that is wanted while served is left alone.                              *)
LEMMA BegunKept ==
  ASSUME NEW q \in Query, NEW u \in Users \cup {Nobody}
  PROVE  /\ Begun(q, u) \in Query
         /\ Begun(q, u).seen = q.seen
         /\ Begun(q, u).stale <=> q.stale
         /\ Begun(q, u).fetch = "sent"
BY DEF Begun, Query, FetchStates

LEMMA WantedKept ==
  ASSUME NEW q \in Query, NEW u \in Users \cup {Nobody}
  PROVE  /\ Wanted(q, u) \in Query
         /\ Wanted(q, u).seen = q.seen
         /\ Wanted(q, u).stale <=> q.stale
         /\ Wanted(q, u).fetch = "served" => Wanted(q, u) = q
<1>1. Wanted(q, u) = q \/ Wanted(q, u) = Begun(q, u)
  BY DEF Wanted
<1>2. CASE Wanted(q, u) = q
  BY <1>2
<1>3. CASE Wanted(q, u) = Begun(q, u)
  BY <1>3, BegunKept
<1>4. QED
  BY <1>1, <1>2, <1>3

(* A marked query keeps its data, which are stale, and its fetch. *)
LEMMA MarkedKept ==
  ASSUME NEW q \in Query
  PROVE  /\ Marked(q) \in Query
         /\ Marked(q).seen = q.seen
         /\ q.seen > 0 => Marked(q).stale
         /\ Marked(q).fetch = q.fetch
         /\ Marked(q).got = q.got
<1>1. CASE q.seen > 0
  <2>1. Marked(q) = [seen |-> q.seen, by |-> q.by, stale |-> TRUE, error |-> q.error,
                     fetch |-> q.fetch, as |-> q.as, got |-> q.got]
    BY <1>1 DEF Marked, Query
  <2>2. QED
    BY <2>1 DEF Query
<1>2. CASE ~(q.seen > 0)
  <2>1. Marked(q) = q
    BY <1>2 DEF Marked
  <2>2. QED
    BY <1>2, <2>1
<1>3. QED
  BY <1>1, <1>2

(* An invalidated query keeps its data, which are stale; if it delivers an *)
(* answer read before, it is not shown or shows nothing yet.               *)
LEMMA InvalidatedKept ==
  ASSUME CacheTypeOK, NEW k \in Keys
  PROVE  /\ Invalidated(k) \in Query
         /\ Invalidated(k).seen = cache[k].seen
         /\ cache[k].seen > 0 => Invalidated(k).stale
         /\ Invalidated(k).fetch = "served" =>
              /\ cache[k].fetch = "served"
              /\ Invalidated(k).got = cache[k].got
              /\ ~Refreshable(k)
<1>1. cache[k] \in Query /\ who \in Users \cup {Nobody}
  BY DEF CacheTypeOK
<1>2. CASE k \in shown /\ (Resting(cache[k]) \/ cache[k].seen > 0)
  <2>1. Invalidated(k) = Begun(Marked(cache[k]), who)
    BY <1>2 DEF Invalidated
  <2>2. QED
    BY <1>1, <2>1, MarkedKept, BegunKept
<1>3. CASE ~(k \in shown /\ (Resting(cache[k]) \/ cache[k].seen > 0))
  <2>1. Invalidated(k) = Marked(cache[k])
    BY <1>3 DEF Invalidated
  <2>2. cache[k].fetch = "served" => ~Refreshable(k)
    BY <1>3 DEF Refreshable, Resting
  <2>3. QED
    BY <1>1, <2>1, <2>2, MarkedKept
<1>4. QED
  BY <1>2, <1>3

LEMMA CacheInitInv == CacheInit => CacheInv
<1> SUFFICES ASSUME CacheInit PROVE CacheInv
  OBVIOUS
<1>1. Empty \in Query /\ Empty.seen = 0 /\ Empty.fetch = "idle"
  BY DEF Empty, Query, FetchStates
<1>2. QED
  BY <1>1 DEF CacheInit, CacheInv, CacheTypeOK, FetchesForward, FreshSinceSuccess

(* The invariant of one key, so that steps on one key are argued there. *)
Forward(q, o, v) ==
  /\ q.seen <= v /\ o <= v
  /\ q.fetch = "served" => q.got > 0 /\ q.seen <= q.got /\ o <= q.got /\ q.got <= v
  /\ q.seen > 0 /\ ~q.stale => q.seen >= o

LEMMA CacheInvByKey ==
  CacheInv <=> CacheTypeOK /\ version > 0 /\ \A k \in Keys : Forward(cache[k], owed[k], version)
BY DEF CacheInv, FetchesForward, FreshSinceSuccess, Forward

(* A step that only wants some queries keeps the invariant. *)
LEMMA ShowInv ==
  ASSUME CacheInv, NEW S \in SUBSET Keys, NEW u \in Users \cup {Nobody},
         Show(S, u) \/ (Refocus /\ u = who)
  PROVE  CacheInv'
<1>1. /\ version' = version /\ owed' = owed /\ cache' \in [Keys -> Query]
      /\ \A k \in Keys : cache'[k] = cache[k] \/ cache'[k] = Wanted(cache[k], u)
  BY WantedKept DEF CacheInv, CacheTypeOK, Show, Refocus
<1>2. CacheTypeOK'
  BY <1>1 DEF CacheInv, CacheTypeOK, Show, Refocus
<1>3. ASSUME NEW k \in Keys PROVE Forward(cache[k], owed[k], version)'
  <2>1. cache[k] \in Query /\ Forward(cache[k], owed[k], version)
    BY CacheInvByKey DEF CacheTypeOK
  <2>2. QED
    BY <1>1, <2>1, WantedKept DEF Forward
<1>4. QED
  BY <1>1, <1>2, <1>3, CacheInvByKey DEF CacheInv, CacheTypeOK, FetchesForward, FreshSinceSuccess, Forward

(* Telling the user of a change keeps it: a key that owes the change is    *)
(* read again, or has nothing it could deliver from before.                *)
LEMMA AcknowledgeInv ==
  ASSUME CacheInv, NEW K \in SUBSET Keys, NEW P \in SUBSET K, Acknowledge(K, P)
  PROVE  CacheInv'
<1>1. CacheTypeOK
  BY DEF CacheInv
<1>2. CacheTypeOK'
  BY <1>1, InvalidatedKept DEF CacheTypeOK, Acknowledge
<1>3. ASSUME NEW k \in Keys PROVE Forward(cache[k], owed[k], version)'
  <2>1. /\ cache[k] \in Query /\ owed[k] \in Nat /\ version \in Nat /\ version' = version
        /\ Forward(cache[k], owed[k], version)
    BY CacheInvByKey DEF CacheTypeOK, Acknowledge
  <2>2. CASE k \notin K
    BY <2>1, <2>2 DEF Acknowledge, Forward
  <2>3. CASE k \in K
    <3>1. cache'[k] = Invalidated(k)
      BY <2>3 DEF Acknowledge
    <3>2. owed'[k] = IF k \in P /\ Refreshable(k) THEN version ELSE owed[k]
      BY DEF Acknowledge
    <3>3. /\ cache'[k].seen = cache[k].seen
          /\ cache[k].seen > 0 => cache'[k].stale
          /\ cache'[k].fetch = "served" =>
               /\ cache[k].fetch = "served"
               /\ cache'[k].got = cache[k].got
               /\ owed'[k] = owed[k]
      BY <1>1, <3>1, <3>2, InvalidatedKept
    <3>4. QED
      BY <2>1, <3>2, <3>3 DEF Forward, Query
  <2>4. QED
    BY <2>2, <2>3
<1>4. QED
  BY <1>2, <1>3, CacheInvByKey
     DEF CacheInv, FetchesForward, FreshSinceSuccess, Forward, Acknowledge

(* A document loaded anew owes what it owed and shows nothing yet. *)
LEMMA LoadInv ==
  ASSUME CacheInv, NEW S \in SUBSET Keys, NEW u \in Users \cup {Nobody}, Load(S, u)
  PROVE  CacheInv'
<1>1. /\ Empty \in Query /\ Empty.seen = 0 /\ Empty.fetch = "idle"
      /\ Begun(Empty, u) \in Query /\ Begun(Empty, u).seen = 0 /\ Begun(Empty, u).fetch = "sent"
  BY DEF Empty, Begun, Query, FetchStates
<1>2. /\ cache' \in [Keys -> Query]
      /\ \A k \in Keys : cache'[k].seen = 0 /\ cache'[k].fetch # "served"
  BY <1>1 DEF Load
<1>3. QED
  BY <1>2 DEF CacheInv, CacheTypeOK, FetchesForward, FreshSinceSuccess, Load

(* A failed fetch changes the fetch, its user and the error alone. *)
LEMMA FailFetchChanges ==
  ASSUME CacheTypeOK, NEW k \in Keys, FailFetch(k)
  PROVE  \E f \in {"resent", "idle"}, u \in {who, Nobody}, failed \in BOOLEAN :
           cache' = [cache EXCEPT ![k] =
                       [cache[k] EXCEPT !.fetch = f, !.as = u, !.error = failed]]
<1>1. cache \in [Keys -> Query] /\ cache[k] \in Query
  BY DEF CacheTypeOK
<1>2. CASE cache' = [cache EXCEPT ![k].fetch = "resent", ![k].as = who]
  <2>1. cache' = [cache EXCEPT ![k] = [cache[k] EXCEPT !.fetch = "resent", !.as = who]]
    BY <1>1, <1>2
  <2>2. [cache[k] EXCEPT !.fetch = "resent", !.as = who]
          = [cache[k] EXCEPT !.fetch = "resent", !.as = who, !.error = cache[k].error]
    BY <1>1 DEF Query
  <2>3. cache[k].error \in BOOLEAN
    BY <1>1 DEF Query
  <2>4. QED
    BY <2>1, <2>2, <2>3
<1>3. CASE cache' = [cache EXCEPT ![k].fetch = "idle", ![k].as = Nobody, ![k].error = TRUE]
  <2>1. cache' = [cache EXCEPT ![k] =
                    [cache[k] EXCEPT !.fetch = "idle", !.as = Nobody, !.error = TRUE]]
    BY <1>1, <1>3
  <2>2. QED
    BY <2>1
<1>4. QED
  BY <1>2, <1>3 DEF FailFetch

(* Steps of one key. *)
LEMMA KeyInv ==
  ASSUME CacheInv, NEW k \in Keys,
         Serve(k) \/ Deliver(k) \/ FailFetch(k) \/ Expire(k) \/ Poll(k) \/ Collect(k)
  PROVE  CacheInv'
<1>1. /\ version' = version /\ owed' = owed /\ shown' = shown /\ who' = who
      /\ \E q : cache' = [cache EXCEPT ![k] = q]
  BY DEF Serve, Deliver, FailFetch, Expire, Poll, Collect, CacheInv, CacheTypeOK
<1>2. /\ cache \in [Keys -> Query] /\ cache[k] \in Query /\ owed[k] \in Nat
      /\ version \in Nat /\ version > 0 /\ who \in Users \cup {Nobody}
      /\ Forward(cache[k], owed[k], version)
  BY CacheInvByKey DEF CacheInv, CacheTypeOK
<1>3. cache'[k] \in Query /\ Forward(cache'[k], owed[k], version)
  <2>1. CASE Serve(k)
    <3>1. cache'[k] = [cache[k] EXCEPT !.fetch = "served", !.got = version]
      BY <2>1, <1>2 DEF Serve
    <3>2. cache'[k] = [seen |-> cache[k].seen, by |-> cache[k].by, stale |-> cache[k].stale,
                       error |-> cache[k].error, fetch |-> "served", as |-> cache[k].as, got |-> version]
      BY <3>1, <1>2 DEF Query
    <3>3. QED
      BY <3>2, <1>2 DEF Query, FetchStates, Forward
  <2>2. CASE Deliver(k)
    <3>1. cache'[k] = [Empty EXCEPT !.seen = cache[k].got, !.by = cache[k].as]
      BY <2>2, <1>2 DEF Deliver
    <3>2. QED
      BY <3>1, <2>2, <1>2 DEF Query, FetchStates, Forward, Empty, Deliver
  <2>3. CASE FailFetch(k)
    <3>1. PICK f \in {"resent", "idle"}, u \in {who, Nobody}, failed \in BOOLEAN :
             cache' = [cache EXCEPT ![k] =
                         [cache[k] EXCEPT !.fetch = f, !.as = u, !.error = failed]]
      BY <2>3, FailFetchChanges DEF CacheInv
    <3>2. cache'[k] = [seen |-> cache[k].seen, by |-> cache[k].by, stale |-> cache[k].stale,
                       error |-> failed, fetch |-> f, as |-> u, got |-> cache[k].got]
      BY <3>1, <1>2 DEF Query
    <3>3. QED
      BY <3>2, <1>2 DEF Query, FetchStates, Forward
  <2>4. CASE Expire(k)
    <3>1. cache'[k] = [cache[k] EXCEPT !.stale = TRUE]
      BY <2>4, <1>2 DEF Expire
    <3>2. cache'[k] = [seen |-> cache[k].seen, by |-> cache[k].by, stale |-> TRUE, error |-> cache[k].error,
                       fetch |-> cache[k].fetch, as |-> cache[k].as, got |-> cache[k].got]
      BY <3>1, <1>2 DEF Query
    <3>3. QED
      BY <3>2, <1>2 DEF Query, FetchStates, Forward
  <2>5. CASE Poll(k)
    <3>1. cache'[k] = Begun(cache[k], who)
      BY <2>5, <1>2 DEF Poll
    <3>2. QED
      BY <3>1, <1>2, BegunKept DEF Forward
  <2>6. CASE Collect(k)
    <3>1. cache'[k] = Empty
      BY <2>6, <1>2 DEF Collect
    <3>2. QED
      BY <3>1, <1>2 DEF Query, FetchStates, Forward, Empty
  <2>7. QED
    BY <2>1, <2>2, <2>3, <2>4, <2>5, <2>6
<1>4. /\ cache' \in [Keys -> Query]
      /\ \A j \in Keys : j # k => cache'[j] = cache[j]
  BY <1>1, <1>2, <1>3
<1>5. \A j \in Keys : Forward(cache'[j], owed[j], version)
  BY <1>3, <1>4, CacheInvByKey
<1>6. QED
  BY <1>1, <1>2, <1>4, <1>5
     DEF CacheInv, CacheTypeOK, FetchesForward, FreshSinceSuccess, Forward

LEMMA QueryStepInv == CacheInv /\ [QueryNext]_cacheVars => CacheInv'
<1> SUFFICES ASSUME CacheInv, [QueryNext]_cacheVars PROVE CacheInv'
  OBVIOUS
<1>1. CASE CacheNext
  <2>1. who \in Users \cup {Nobody} /\ {} \in SUBSET Keys
    BY DEF CacheInv, CacheTypeOK
  <2>2. QED
    BY <1>1, <2>1, KeyInv, ShowInv DEF CacheNext
<1>2. CASE Write
  <2>1. /\ version \in Nat /\ version' = version + 1
        /\ UNCHANGED <<cache, shown, owed, who>>
    BY <1>2 DEF Write, CacheInv, CacheTypeOK
  <2>2. ASSUME NEW k \in Keys PROVE Forward(cache[k], owed[k], version')
    <3>1. cache[k] \in Query /\ owed[k] \in Nat /\ Forward(cache[k], owed[k], version)
      BY CacheInvByKey DEF CacheTypeOK
    <3>2. QED
      BY <2>1, <3>1 DEF Query, Forward
  <2>3. QED
    BY <2>1, <2>2 DEF CacheInv, CacheTypeOK, FetchesForward, FreshSinceSuccess, Forward
<1>3. ASSUME NEW K \in SUBSET Keys, NEW P \in SUBSET K, Acknowledge(K, P) PROVE CacheInv'
  BY <1>3, AcknowledgeInv
<1>4. ASSUME NEW S \in SUBSET Keys, NEW u \in Users \cup {Nobody}, Show(S, u) \/ Load(S, u)
      PROVE  CacheInv'
  BY <1>4, ShowInv, LoadInv
<1>5. CASE UNCHANGED cacheVars
  BY <1>5 DEF cacheVars, CacheInv, CacheTypeOK, FetchesForward, FreshSinceSuccess
<1>6. QED
  BY <1>1, <1>2, <1>3, <1>4, <1>5 DEF QueryNext

(* Whatever pages do, the cache keeps its types, shows and owes no version *)
(* before it exists, and counts nothing as fresh that is older than what   *)
(* was committed when the user was last told of a success that concerns it *)
(* (queryClient.ts, invalidate.ts).                                        *)
THEOREM CacheInvariant == QuerySpec => []CacheInv
<1>1. QED
  BY CacheInitInv, QueryStepInv, PTL DEF QuerySpec

(* Data that count as fresh are at least as new as what was committed when *)
(* the user was last told of a success that concerns them.  A change that  *)
(* is committed after its answer (database.py:38-39) may be missing.       *)
THEOREM CacheFreshSinceSuccess == QuerySpec => []FreshSinceSuccess
<1>1. CacheInv => FreshSinceSuccess
  BY DEF CacheInv
<1>2. QED
  BY <1>1, CacheInvariant, PTL
--------------------------------------------------------------------------------
(* The views of the cache, as the refinement maps them. *)
ViewOf == [k \in Keys |-> cache[k].seen]
SettledOf == {k \in Keys : cache[k].seen > 0 /\ ~cache[k].stale}

LEMMA ViewsInit == CacheInit => Views!Init
BY DEF CacheInit, Empty, Views!Init

(* A step that leaves what is shown and how alone is a stutter. *)
LEMMA ViewsStutter ==
  ASSUME UNCHANGED <<version, owed>>,
         \A k \in Keys : cache'[k].seen = cache[k].seen /\ (cache'[k].stale <=> cache[k].stale)
  PROVE  UNCHANGED Views!vars
BY DEF Views!vars

LEMMA ViewsWanted ==
  ASSUME CacheInv, NEW S \in SUBSET Keys, NEW u \in Users \cup {Nobody},
         Show(S, u) \/ (Refocus /\ u = who)
  PROVE  UNCHANGED Views!vars
<1>1. /\ UNCHANGED <<version, owed>>
      /\ \A k \in Keys : cache'[k] = cache[k] \/ cache'[k] = Wanted(cache[k], u)
  BY DEF Show, Refocus
<1>2. \A k \in Keys : cache[k] \in Query
  BY DEF CacheInv, CacheTypeOK
<1>3. \A k \in Keys : cache'[k].seen = cache[k].seen /\ (cache'[k].stale <=> cache[k].stale)
  BY <1>1, <1>2, WantedKept
<1>4. QED
  BY <1>1, <1>3, ViewsStutter

LEMMA ViewsAcknowledge ==
  ASSUME CacheInv, NEW K \in SUBSET Keys, NEW P \in SUBSET K, Acknowledge(K, P)
  PROVE  Views!Next
<1>1. CacheTypeOK /\ version' = version
  BY DEF CacheInv, Acknowledge
<1>0. PICK Owing \in SUBSET P : Owing = {k \in P : Refreshable(k)}
  OBVIOUS
<1>2. /\ Owing \subseteq K
      /\ owed' = [k \in Keys |-> IF k \in Owing THEN version ELSE owed[k]]
  BY <1>0 DEF Acknowledge
<1>3. ASSUME NEW k \in Keys
      PROVE  /\ cache'[k].seen = cache[k].seen
             /\ k \in K /\ cache[k].seen > 0 => cache'[k].stale
             /\ k \notin K => (cache'[k].stale <=> cache[k].stale)
  <2>1. cache'[k] = IF k \in K THEN Invalidated(k) ELSE cache[k]
    BY DEF Acknowledge
  <2>2. QED
    BY <1>1, <2>1, InvalidatedKept
<1>4. [k \in Keys |-> cache'[k].seen] = [k \in Keys |-> cache[k].seen]
  BY <1>3
<1>5. {k \in Keys : cache'[k].seen > 0 /\ ~cache'[k].stale}
        = {k \in Keys : cache[k].seen > 0 /\ ~cache[k].stale} \ K
  BY <1>3
<1>6. Owing \in SUBSET Keys
  BY <1>2
<1>7. Views!Acknowledge(K, Owing)
  BY <1>1, <1>2, <1>4, <1>5 DEF Views!Acknowledge
<1>8. QED
  BY <1>6, <1>7 DEF Views!Next

LEMMA ViewsForget ==
  ASSUME CacheInv, NEW K \in SUBSET Keys, UNCHANGED <<version, owed>>,
         \A k \in K : cache'[k].seen = 0,
         \A k \in Keys \ K : cache'[k] = cache[k]
  PROVE  Views!Next
<1>1. [k \in Keys |-> cache'[k].seen] = [k \in Keys |-> IF k \in K THEN 0 ELSE ViewOf[k]]
  BY DEF ViewOf
<1>2. {k \in Keys : cache'[k].seen > 0 /\ ~cache'[k].stale}
        = {k \in Keys : cache[k].seen > 0 /\ ~cache[k].stale} \ K
  OBVIOUS
<1>3. Views!Forget(K)
  BY <1>1, <1>2 DEF Views!Forget, ViewOf
<1>4. QED
  BY <1>3 DEF Views!Next

LEMMA ViewsDeliver ==
  ASSUME CacheInv, NEW k \in Keys, Deliver(k)
  PROVE  Views!Next
<1>1. /\ cache \in [Keys -> Query] /\ cache[k] \in Query /\ version \in Nat /\ owed[k] \in Nat
      /\ Forward(cache[k], owed[k], version) /\ cache[k].fetch = "served"
  BY CacheInvByKey DEF CacheTypeOK, Deliver
<1>2. /\ cache'[k] = [Empty EXCEPT !.seen = cache[k].got, !.by = cache[k].as]
      /\ \A j \in Keys \ {k} : cache'[j] = cache[j]
      /\ UNCHANGED <<version, owed>>
  BY <1>1 DEF Deliver
<1>3. cache'[k].seen = cache[k].got /\ ~cache'[k].stale
  BY <1>2 DEF Empty
<1>4. /\ cache[k].got \in cache[k].seen .. version
      /\ cache[k].got >= owed[k]
      /\ cache[k].got > 0
  BY <1>1 DEF Forward, Query
<1>5. [j \in Keys |-> cache'[j].seen] = [ViewOf EXCEPT ![k] = cache[k].got]
  BY <1>2, <1>3 DEF ViewOf
<1>6. {j \in Keys : cache'[j].seen > 0 /\ ~cache'[j].stale}
        = {j \in Keys : cache[j].seen > 0 /\ ~cache[j].stale} \cup {k}
  BY <1>2, <1>3, <1>4
<1>7. ViewOf[k] = cache[k].seen
  BY DEF ViewOf
<1>8. Views!Look(k)
  BY <1>2, <1>4, <1>5, <1>6, <1>7 DEF Views!Look, ViewOf
<1>9. QED
  BY <1>8 DEF Views!Next

LEMMA ViewsKey ==
  ASSUME CacheInv, NEW k \in Keys,
         Serve(k) \/ FailFetch(k) \/ Expire(k) \/ Poll(k) \/ Collect(k)
  PROVE  Views!Next \/ UNCHANGED Views!vars
<1>1. cache \in [Keys -> Query] /\ cache[k] \in Query /\ who \in Users \cup {Nobody}
  BY DEF CacheInv, CacheTypeOK
<1>2. CASE Serve(k) \/ FailFetch(k)
  <2>1. \A j \in Keys : cache'[j].seen = cache[j].seen /\ (cache'[j].stale <=> cache[j].stale)
    <3>1. CASE Serve(k)
      <4>1. cache' = [cache EXCEPT ![k] = [cache[k] EXCEPT !.fetch = "served", !.got = version]]
        BY <1>1, <3>1 DEF Serve
      <4>2. QED
        BY <1>1, <4>1 DEF Query
    <3>2. CASE FailFetch(k)
      <4>1. PICK f \in {"resent", "idle"}, u \in {who, Nobody}, failed \in BOOLEAN :
               cache' = [cache EXCEPT ![k] =
                           [cache[k] EXCEPT !.fetch = f, !.as = u, !.error = failed]]
        BY <3>2, FailFetchChanges DEF CacheInv
      <4>2. QED
        BY <1>1, <4>1 DEF Query
    <3>3. QED
      BY <1>2, <3>1, <3>2
  <2>2. UNCHANGED <<version, owed>>
    BY <1>2 DEF Serve, FailFetch
  <2>3. QED
    BY <2>1, <2>2, ViewsStutter
<1>3. CASE Poll(k)
  <2>1. /\ UNCHANGED <<version, owed>>
        /\ \A j \in Keys : cache'[j] = cache[j] \/ cache'[j] = Begun(cache[j], who)
    BY <1>1, <1>3 DEF Poll
  <2>2. \A j \in Keys : cache'[j].seen = cache[j].seen /\ (cache'[j].stale <=> cache[j].stale)
    BY <1>1, <2>1, BegunKept
  <2>3. QED
    BY <2>1, <2>2, ViewsStutter
<1>4. CASE Expire(k)
  <2>1. /\ cache'[k] = [cache[k] EXCEPT !.stale = TRUE]
        /\ \A j \in Keys \ {k} : cache'[j] = cache[j]
        /\ UNCHANGED <<version, owed>>
    BY <1>1, <1>4 DEF Expire
  <2>2. cache'[k].seen = cache[k].seen /\ cache'[k].stale
    BY <1>1, <2>1 DEF Query
  <2>3. [j \in Keys |-> cache'[j].seen] = [j \in Keys |-> cache[j].seen]
    BY <2>1, <2>2
  <2>4. {j \in Keys : cache'[j].seen > 0 /\ ~cache'[j].stale}
          = {j \in Keys : cache[j].seen > 0 /\ ~cache[j].stale} \ {k}
    BY <2>1, <2>2
  <2>5. Views!Doubt(k)
    BY <2>1, <2>3, <2>4 DEF Views!Doubt
  <2>6. QED
    BY <2>5 DEF Views!Next
<1>5. CASE Collect(k)
  <2>1. /\ {k} \in SUBSET Keys
        /\ \A j \in {k} : cache'[j].seen = 0
        /\ \A j \in Keys \ {k} : cache'[j] = cache[j]
        /\ UNCHANGED <<version, owed>>
    BY <1>1, <1>5 DEF Collect, Empty
  <2>2. Views!Next
    BY <2>1, ViewsForget, Zenon
  <2>3. QED
    BY <2>2
<1>6. QED
  BY <1>2, <1>3, <1>4, <1>5

LEMMA ViewsStep == CacheInv /\ [QueryNext]_cacheVars => [Views!Next]_(Views!vars)
<1> SUFFICES ASSUME CacheInv, [QueryNext]_cacheVars
             PROVE  Views!Next \/ UNCHANGED Views!vars
  OBVIOUS
<1>1. CASE CacheNext
  <2>1. who \in Users \cup {Nobody} /\ {} \in SUBSET Keys
    BY DEF CacheInv, CacheTypeOK
  <2>2. QED
    BY <1>1, <2>1, ViewsKey, ViewsDeliver, ViewsWanted DEF CacheNext
<1>2. CASE Write
  <2>1. Views!Change
    BY <1>2 DEF Write, Views!Change
  <2>2. QED
    BY <2>1 DEF Views!Next
<1>3. ASSUME NEW K \in SUBSET Keys, NEW P \in SUBSET K, Acknowledge(K, P)
      PROVE  Views!Next
  BY <1>3, ViewsAcknowledge
<1>4. ASSUME NEW S \in SUBSET Keys, NEW u \in Users \cup {Nobody}, Show(S, u)
      PROVE  UNCHANGED Views!vars
  BY <1>4, ViewsWanted
<1>5. ASSUME NEW S \in SUBSET Keys, NEW u \in Users \cup {Nobody}, Load(S, u)
      PROVE  Views!Next
  <2>1. \A k \in Keys : cache'[k].seen = 0
    BY <1>5 DEF Load, Begun, Empty
  <2>2. QED
    BY <1>5, <2>1, ViewsForget DEF Load
<1>6. CASE UNCHANGED cacheVars
  BY <1>6 DEF cacheVars, Views!vars
<1>7. QED
  BY <1>1, <1>2, <1>3, <1>4, <1>5, <1>6 DEF QueryNext

(* The query cache implements the client views: what a page shows never    *)
(* goes back to older data, and what counts as fresh shows at least what   *)
(* was committed when the user was last told of a success.                 *)
THEOREM CacheIsMonotone == QuerySpec => MonotoneView
<1>1. QED
  BY ViewsInit, ViewsStep, CacheInvariant, PTL DEF QuerySpec, MonotoneView, Views!Spec
--------------------------------------------------------------------------------
(* What the tables of AdminPages have in common: the dialogs of a page run *)
(* operations it has, and every operation refreshes the list and the page  *)
(* of its row, but for the page of a subscription; the forms treat blank   *)
(* inputs alike.                                                           *)

(* A tuple is a prefix of the tuples that continue it. *)
LEMMA PrefixByElements ==
  ASSUME NEW S, NEW s \in Seq(S), NEW t \in Seq(S),
         Len(s) <= Len(t), \A i \in 1 .. Len(s) : s[i] = t[i]
  PROVE  IsPrefix(s, t)
<1>1. SubSeq(s, 1, Len(s)) = [i \in 1 .. Len(s) |-> s[i]]
  OBVIOUS
<1>2. SubSeq(t, 1, Len(s)) = [i \in 1 .. Len(s) |-> t[i]]
  OBVIOUS
<1>3. QED
  BY <1>1, <1>2 DEF IsPrefix

LEMMA TuplePrefixes ==
  ASSUME NEW S, NEW a \in S, NEW b \in S, NEW c \in S
  PROVE  /\ IsPrefix(<<a>>, <<a>>)
         /\ IsPrefix(<<a>>, <<a, b>>)
         /\ IsPrefix(<<a>>, <<a, b, c>>)
         /\ IsPrefix(<<a, b>>, <<a, b, c>>)
         /\ IsPrefix(<<a, b, c>>, <<a, b, c>>)
<1>1. <<a>> \in Seq(S) /\ <<a, b>> \in Seq(S) /\ <<a, b, c>> \in Seq(S)
  OBVIOUS
<1>2. Len(<<a>>) = 1 /\ Len(<<a, b>>) = 2 /\ Len(<<a, b, c>>) = 3
  OBVIOUS
<1>3. /\ Len(<<a>>) <= Len(<<a>>) /\ Len(<<a>>) <= Len(<<a, b>>)
      /\ Len(<<a>>) <= Len(<<a, b, c>>) /\ Len(<<a, b>>) <= Len(<<a, b, c>>)
      /\ Len(<<a, b, c>>) <= Len(<<a, b, c>>)
  BY <1>2
<1>4. /\ \A i \in 1 .. Len(<<a>>) : <<a>>[i] = <<a, b>>[i]
      /\ \A i \in 1 .. Len(<<a>>) : <<a>>[i] = <<a, b, c>>[i]
  BY <1>2
<1>5. \A i \in 1 .. Len(<<a, b>>) : <<a, b>>[i] = <<a, b, c>>[i]
  <2>1. \A i \in 1 .. Len(<<a, b>>) : i = 1 \/ i = 2
    BY <1>2
  <2>2. QED
    BY <2>1
<1>6. QED
  BY <1>1, <1>3, <1>4, <1>5, PrefixByElements, Zenon

LEMMA KeyPrefixes ==
  ASSUME NEW e, NEW n
  PROVE  /\ IsPrefix(All(e), All(e))
         /\ IsPrefix(All(e), List(e))
         /\ IsPrefix(All(e), Detail(e, n))
         /\ IsPrefix(All(e), <<e, n>>)
         /\ IsPrefix(Lists(e), List(e))
         /\ IsPrefix(Detail(e, n), Detail(e, n))
<1>1. PICK S : e \in S /\ n \in S /\ "list" \in S /\ "{}" \in S /\ "detail" \in S
  <2>1. WITNESS {e, n, "list", "{}", "detail"}
  <2>2. QED
    OBVIOUS
<1>2. /\ IsPrefix(<<e>>, <<e, "list", "{}">>)
      /\ IsPrefix(<<e, "list">>, <<e, "list", "{}">>)
  BY <1>1, TuplePrefixes, Zenon
<1>3. /\ IsPrefix(<<e>>, <<e>>)
      /\ IsPrefix(<<e>>, <<e, "detail", n>>)
      /\ IsPrefix(<<e, "detail", n>>, <<e, "detail", n>>)
  BY <1>1, TuplePrefixes, Zenon
<1>4. IsPrefix(<<e>>, <<e, n>>)
  BY <1>1, TuplePrefixes, Zenon
<1>5. QED
  BY <1>2, <1>3, <1>4, Zenon DEF All, Lists, List, Detail
------------------------------------------------------------------------------
(* Every operation of a page refreshes its list. *)
ListRefreshed(page) ==
  \A n \in Rows, m \in Rows : \A op \in DOMAIN page[n].refreshes :
    \E p \in page[n].refreshes[op] : IsPrefix(p, page[m].list)

(* Every operation on a row refreshes the page of the row. *)
RowRefreshed(page, details) ==
  \A n \in Rows : \A op \in DOMAIN page[n].refreshes \ {"create"} :
    \E p \in page[n].refreshes[op] : \E key \in details[n].reads : IsPrefix(p, key)

(* The operations of a page do not depend on the row. *)
SameForRows(page) ==
  \A n \in Rows, m \in Rows : DOMAIN page[n].refreshes = DOMAIN page[m].refreshes

(* A page has the operations that its dialogs run. *)
DialogsServed(page, dialogs) == \A n \in Rows : dialogs \subseteq DOMAIN page[n].refreshes

LEMMA SubscriptionsTables ==
  /\ ListRefreshed(SubscriptionsPage) /\ SameForRows(SubscriptionsPage)
  /\ DialogsServed(SubscriptionsPage, SubscriptionsDialogs)
BY KeyPrefixes DEF ListRefreshed, SameForRows, DialogsServed, SubscriptionsPage, SubscriptionsDialogs

LEMMA UsersTables ==
  /\ ListRefreshed(UsersPage) /\ SameForRows(UsersPage)
  /\ DialogsServed(UsersPage, UsersDialogs)
BY KeyPrefixes DEF ListRefreshed, SameForRows, DialogsServed, UsersPage, UsersDialogs

LEMMA PlansTables ==
  /\ ListRefreshed(PlansPage) /\ SameForRows(PlansPage)
  /\ DialogsServed(PlansPage, PlansDialogs)
BY KeyPrefixes DEF ListRefreshed, SameForRows, DialogsServed, PlansPage, PlansDialogs

LEMMA CapabilitiesTables ==
  /\ ListRefreshed(CapabilitiesPage) /\ SameForRows(CapabilitiesPage)
  /\ DialogsServed(CapabilitiesPage, CapabilitiesDialogs)
BY KeyPrefixes DEF ListRefreshed, SameForRows, DialogsServed, CapabilitiesPage, CapabilitiesDialogs

LEMMA ProductsTables ==
  /\ ListRefreshed(ProductsPage) /\ SameForRows(ProductsPage)
  /\ DialogsServed(ProductsPage, ProductsDialogs)
  /\ RowRefreshed(ProductsPage, ProductDetails)
BY KeyPrefixes DEF ListRefreshed, SameForRows, DialogsServed, ProductsPage, ProductsDialogs,
   RowRefreshed, ProductDetails

LEMMA OrganizationsTables ==
  /\ ListRefreshed(OrganizationsPage) /\ SameForRows(OrganizationsPage)
  /\ DialogsServed(OrganizationsPage, OrganizationsDialogs)
BY KeyPrefixes DEF ListRefreshed, SameForRows, DialogsServed, OrganizationsPage, OrganizationsDialogs

LEMMA DeploymentsTables ==
  /\ ListRefreshed(DeploymentsPage) /\ SameForRows(DeploymentsPage)
  /\ DialogsServed(DeploymentsPage, DeploymentsDialogs)
  /\ RowRefreshed(DeploymentsPage, DeploymentDetails)
<1>1. ASSUME NEW n \in Rows
      PROVE  /\ DeploymentsPage[n].list = List("deployments")
             /\ DOMAIN DeploymentsPage[n].refreshes = {"create", "update", "remove"}
             /\ DeploymentsPage[n].refreshes["create"] = {Lists("deployments")}
             /\ DeploymentsPage[n].refreshes["update"] = {Lists("deployments"), Detail("deployments", n)}
             /\ DeploymentsPage[n].refreshes["remove"] = {Lists("deployments"), Detail("deployments", n)}
  BY DEF DeploymentsPage
<1>2. ASSUME NEW n \in Rows
      PROVE  DeploymentDetails[n].reads = {Detail("deployments", n)}
  BY DEF DeploymentDetails
<1>3. ListRefreshed(DeploymentsPage)
  <2>1. \A n \in Rows : \A op \in DOMAIN DeploymentsPage[n].refreshes :
          Lists("deployments") \in DeploymentsPage[n].refreshes[op]
    BY <1>1
  <2>2. \A n \in Rows : IsPrefix(Lists("deployments"), DeploymentsPage[n].list)
    BY <1>1, KeyPrefixes
  <2>3. QED
    BY <2>1, <2>2, Zenon DEF ListRefreshed
<1>4. SameForRows(DeploymentsPage) /\ DialogsServed(DeploymentsPage, DeploymentsDialogs)
  BY <1>1 DEF SameForRows, DialogsServed, DeploymentsDialogs
<1>5. RowRefreshed(DeploymentsPage, DeploymentDetails)
  BY <1>1, <1>2, KeyPrefixes DEF RowRefreshed
<1>6. QED
  BY <1>3, <1>4, <1>5

LEMMA LicensesTables ==
  /\ ListRefreshed(LicensesPage) /\ SameForRows(LicensesPage)
  /\ DialogsServed(LicensesPage, LicensesDialogs)
  /\ RowRefreshed(LicensesPage, LicenseDetails)
<1>1. ASSUME NEW n \in Rows
      PROVE  /\ LicensesPage[n].list = List("licenses")
             /\ DOMAIN LicensesPage[n].refreshes = {"create", "remove"}
             /\ LicensesPage[n].refreshes["create"] = {Lists("licenses")}
             /\ LicensesPage[n].refreshes["remove"] = {Lists("licenses"), Detail("licenses", n)}
  BY DEF LicensesPage
<1>2. ASSUME NEW n \in Rows
      PROVE  LicenseDetails[n].reads = {Detail("licenses", n)}
  BY DEF LicenseDetails
<1>3. ListRefreshed(LicensesPage)
  <2>1. \A n \in Rows : \A op \in DOMAIN LicensesPage[n].refreshes :
          Lists("licenses") \in LicensesPage[n].refreshes[op]
    BY <1>1
  <2>2. \A n \in Rows : IsPrefix(Lists("licenses"), LicensesPage[n].list)
    BY <1>1, KeyPrefixes
  <2>3. QED
    BY <2>1, <2>2, Zenon DEF ListRefreshed
<1>4. SameForRows(LicensesPage) /\ DialogsServed(LicensesPage, LicensesDialogs)
  BY <1>1 DEF SameForRows, DialogsServed, LicensesDialogs
<1>5. RowRefreshed(LicensesPage, LicenseDetails)
  BY <1>1, <1>2, KeyPrefixes DEF RowRefreshed
<1>6. QED
  BY <1>3, <1>4, <1>5

LEMMA DevicesTables ==
  /\ ListRefreshed(DevicesPage) /\ SameForRows(DevicesPage)
  /\ DialogsServed(DevicesPage, DevicesDialogs)
  /\ RowRefreshed(DevicesPage, DeviceDetails)
<1>1. ASSUME NEW n \in Rows
      PROVE  /\ DevicesPage[n].list = All("devices")
             /\ DOMAIN DevicesPage[n].refreshes = {"remove"}
             /\ DevicesPage[n].refreshes["remove"] = {All("devices")}
  BY DEF DevicesPage
<1>2. ASSUME NEW n \in Rows
      PROVE  Detail("devices", n) \in DeviceDetails[n].reads
  BY DEF DeviceDetails
<1>3. ListRefreshed(DevicesPage)
  <2>1. \A n \in Rows : \A op \in DOMAIN DevicesPage[n].refreshes :
          All("devices") \in DevicesPage[n].refreshes[op]
    BY <1>1
  <2>2. \A n \in Rows : IsPrefix(All("devices"), DevicesPage[n].list)
    BY <1>1, KeyPrefixes
  <2>3. QED
    BY <2>1, <2>2, Zenon DEF ListRefreshed
<1>4. SameForRows(DevicesPage) /\ DialogsServed(DevicesPage, DevicesDialogs)
  BY <1>1 DEF SameForRows, DialogsServed, DevicesDialogs
<1>5. RowRefreshed(DevicesPage, DeviceDetails)
  BY <1>1, <1>2, KeyPrefixes DEF RowRefreshed
<1>6. QED
  BY <1>3, <1>4, <1>5

LEMMA ReleasesTables ==
  /\ ListRefreshed(ReleasesPage) /\ SameForRows(ReleasesPage)
  /\ DialogsServed(ReleasesPage, ReleasesDialogs)
  /\ RowRefreshed(ReleasesPage, ReleaseDetails)
<1>1. ASSUME NEW n \in Rows
      PROVE  /\ ReleasesPage[n].list = List("releases")
             /\ DOMAIN ReleasesPage[n].refreshes = {"create"}
             /\ ReleasesPage[n].refreshes["create"] = {All("releases")}
  BY DEF ReleasesPage
<1>2. ASSUME NEW n \in Rows
      PROVE  ReleaseDetails[n].reads = {Detail("releases", n)}
  BY DEF ReleaseDetails
<1>3. ListRefreshed(ReleasesPage)
  <2>1. \A n \in Rows : \A op \in DOMAIN ReleasesPage[n].refreshes :
          All("releases") \in ReleasesPage[n].refreshes[op]
    BY <1>1
  <2>2. \A n \in Rows : IsPrefix(All("releases"), ReleasesPage[n].list)
    BY <1>1, KeyPrefixes
  <2>3. QED
    BY <2>1, <2>2, Zenon DEF ListRefreshed
<1>4. SameForRows(ReleasesPage) /\ DialogsServed(ReleasesPage, ReleasesDialogs)
  BY <1>1 DEF SameForRows, DialogsServed, ReleasesDialogs
<1>5. RowRefreshed(ReleasesPage, ReleaseDetails)
  BY <1>1, <1>2, KeyPrefixes DEF RowRefreshed
<1>6. QED
  BY <1>3, <1>4, <1>5

LEMMA TrialTokensTables ==
  /\ ListRefreshed(TrialTokensPage) /\ SameForRows(TrialTokensPage)
  /\ DialogsServed(TrialTokensPage, TrialTokensDialogs)
BY KeyPrefixes DEF ListRefreshed, SameForRows, DialogsServed, TrialTokensPage, TrialTokensDialogs

LEMMA RequestsTables ==
  /\ ListRefreshed(RequestsPage) /\ SameForRows(RequestsPage)
  /\ DialogsServed(RequestsPage, RequestsDialogs)
  /\ RowRefreshed(RequestsPage, RequestDetails)
<1>1. ASSUME NEW n \in Rows
      PROVE  /\ RequestsPage[n].list = List("activation-requests")
             /\ DOMAIN RequestsPage[n].refreshes = {"create", "review", "generate"}
             /\ RequestsPage[n].refreshes["create"] = {All("activation-requests")}
             /\ RequestsPage[n].refreshes["review"] = {Detail("activation-requests", n), All("activation-requests")}
             /\ RequestsPage[n].refreshes["generate"] = {Detail("activation-requests", n), All("activation-requests")}
  BY DEF RequestsPage
<1>2. ASSUME NEW n \in Rows
      PROVE  RequestDetails[n].reads = {Detail("activation-requests", n)}
  BY DEF RequestDetails
<1>3. ListRefreshed(RequestsPage)
  <2>1. \A n \in Rows : \A op \in DOMAIN RequestsPage[n].refreshes :
          All("activation-requests") \in RequestsPage[n].refreshes[op]
    BY <1>1
  <2>2. \A n \in Rows : IsPrefix(All("activation-requests"), RequestsPage[n].list)
    BY <1>1, KeyPrefixes
  <2>3. QED
    BY <2>1, <2>2, Zenon DEF ListRefreshed
<1>4. SameForRows(RequestsPage) /\ DialogsServed(RequestsPage, RequestsDialogs)
  BY <1>1 DEF SameForRows, DialogsServed, RequestsDialogs
<1>5. RowRefreshed(RequestsPage, RequestDetails)
  BY <1>1, <1>2, KeyPrefixes DEF RowRefreshed
<1>6. QED
  BY <1>3, <1>4, <1>5

(* The four facts hold of every entity. *)
LEMMA TablesRefresh ==
  ASSUME NEW e \in DOMAIN Pages
  PROVE  /\ ListRefreshed(Pages[e]) /\ SameForRows(Pages[e])
         /\ DialogsServed(Pages[e], Dialogs[e])
         /\ e \in DOMAIN Details \ {"subscriptions"} => RowRefreshed(Pages[e], Details[e])
<1>1. e \in {"subscriptions", "users", "plans", "capabilities", "products", "organizations", "deployments", "licenses", "devices", "releases", "trialTokens", "requests"}
  BY DEF Pages
<1>2. DOMAIN Details \ {"subscriptions"} = {"products", "deployments", "licenses", "devices", "releases", "requests"}
  BY DEF Details
<1>3. CASE e = "subscriptions"
  <2>1. Pages[e] = SubscriptionsPage /\ Dialogs[e] = SubscriptionsDialogs
    BY <1>3 DEF Pages, Dialogs
  <2>2. e \notin DOMAIN Details \ {"subscriptions"}
    BY <1>2, <1>3
  <2>3. QED
    BY <2>1, <2>2, SubscriptionsTables, Zenon
<1>4. CASE e = "users"
  <2>1. Pages[e] = UsersPage /\ Dialogs[e] = UsersDialogs
    BY <1>4 DEF Pages, Dialogs
  <2>2. e \notin DOMAIN Details \ {"subscriptions"}
    BY <1>2, <1>4
  <2>3. QED
    BY <2>1, <2>2, UsersTables, Zenon
<1>5. CASE e = "plans"
  <2>1. Pages[e] = PlansPage /\ Dialogs[e] = PlansDialogs
    BY <1>5 DEF Pages, Dialogs
  <2>2. e \notin DOMAIN Details \ {"subscriptions"}
    BY <1>2, <1>5
  <2>3. QED
    BY <2>1, <2>2, PlansTables, Zenon
<1>6. CASE e = "capabilities"
  <2>1. Pages[e] = CapabilitiesPage /\ Dialogs[e] = CapabilitiesDialogs
    BY <1>6 DEF Pages, Dialogs
  <2>2. e \notin DOMAIN Details \ {"subscriptions"}
    BY <1>2, <1>6
  <2>3. QED
    BY <2>1, <2>2, CapabilitiesTables, Zenon
<1>7. CASE e = "products"
  <2>1. Pages[e] = ProductsPage /\ Dialogs[e] = ProductsDialogs
    BY <1>7 DEF Pages, Dialogs
  <2>2. Details[e] = ProductDetails
    BY <1>7 DEF Details
  <2>3. QED
    BY <2>1, <2>2, ProductsTables, Zenon
<1>8. CASE e = "organizations"
  <2>1. Pages[e] = OrganizationsPage /\ Dialogs[e] = OrganizationsDialogs
    BY <1>8 DEF Pages, Dialogs
  <2>2. e \notin DOMAIN Details \ {"subscriptions"}
    BY <1>2, <1>8
  <2>3. QED
    BY <2>1, <2>2, OrganizationsTables, Zenon
<1>9. CASE e = "deployments"
  <2>1. Pages[e] = DeploymentsPage /\ Dialogs[e] = DeploymentsDialogs
    BY <1>9 DEF Pages, Dialogs
  <2>2. Details[e] = DeploymentDetails
    BY <1>9 DEF Details
  <2>3. QED
    BY <2>1, <2>2, DeploymentsTables, Zenon
<1>10. CASE e = "licenses"
  <2>1. Pages[e] = LicensesPage /\ Dialogs[e] = LicensesDialogs
    BY <1>10 DEF Pages, Dialogs
  <2>2. Details[e] = LicenseDetails
    BY <1>10 DEF Details
  <2>3. QED
    BY <2>1, <2>2, LicensesTables, Zenon
<1>11. CASE e = "devices"
  <2>1. Pages[e] = DevicesPage /\ Dialogs[e] = DevicesDialogs
    BY <1>11 DEF Pages, Dialogs
  <2>2. Details[e] = DeviceDetails
    BY <1>11 DEF Details
  <2>3. QED
    BY <2>1, <2>2, DevicesTables, Zenon
<1>12. CASE e = "releases"
  <2>1. Pages[e] = ReleasesPage /\ Dialogs[e] = ReleasesDialogs
    BY <1>12 DEF Pages, Dialogs
  <2>2. Details[e] = ReleaseDetails
    BY <1>12 DEF Details
  <2>3. QED
    BY <2>1, <2>2, ReleasesTables, Zenon
<1>13. CASE e = "trialTokens"
  <2>1. Pages[e] = TrialTokensPage /\ Dialogs[e] = TrialTokensDialogs
    BY <1>13 DEF Pages, Dialogs
  <2>2. e \notin DOMAIN Details \ {"subscriptions"}
    BY <1>2, <1>13
  <2>3. QED
    BY <2>1, <2>2, TrialTokensTables, Zenon
<1>14. CASE e = "requests"
  <2>1. Pages[e] = RequestsPage /\ Dialogs[e] = RequestsDialogs
    BY <1>14 DEF Pages, Dialogs
  <2>2. Details[e] = RequestDetails
    BY <1>14 DEF Details
  <2>3. QED
    BY <2>1, <2>2, RequestsTables, Zenon
<1>15. QED
  BY <1>1, <1>3, <1>4, <1>5, <1>6, <1>7, <1>8, <1>9, <1>10, <1>11, <1>12, <1>13, <1>14, Zenon
--------------------------------------------------------------------------------
(* What every form has in common: an input that may be blank starts blank, *)
(* but for the duration of a plan, which starts as a year; only such an    *)
(* input is left out of a request; a form that edits rows also makes them. *)
Treated(f, t) ==
  /\ ~t.required => t.empty = Blank \/ (f = "duration_months" /\ t.empty = "12")
  /\ t.dropped => ~t.required

FormSound(form, dialogs) ==
  /\ "create" \in dialogs
  /\ \A f \in DOMAIN form : Treated(f, form[f])

LEMMA Treatments ==
  ASSUME NEW f
  PROVE  /\ Treated(f, Plain) /\ Treated(f, Optional) /\ Treated(f, LocalTime)
         /\ Treated(f, Fixed) /\ Treated(f, [LocalTime EXCEPT !.fixed = TRUE])
         /\ Treated(f, [Plain EXCEPT !.required = FALSE])
         /\ \A text : Treated(f, Default(text))
         /\ Treated("duration_months", [Default("12") EXCEPT !.required = FALSE])
<1>1. Treated(f, Plain)
  BY DEF Treated, Plain, Blank
<1>2. Treated(f, Optional)
  BY DEF Treated, Optional, Plain, Blank
<1>3. Treated(f, LocalTime)
  BY DEF Treated, LocalTime, Optional, Plain, Blank
<1>4. Treated(f, Fixed)
  BY DEF Treated, Fixed, Plain, Blank
<1>5. Treated(f, [LocalTime EXCEPT !.fixed = TRUE])
  BY DEF Treated, LocalTime, Optional, Plain, Blank
<1>6. Treated(f, [Plain EXCEPT !.required = FALSE])
  BY DEF Treated, Plain, Blank
<1>7. ASSUME NEW text PROVE Treated(f, Default(text))
  BY DEF Treated, Default, Plain, Blank
<1>8. Treated("duration_months", [Default("12") EXCEPT !.required = FALSE])
  BY DEF Treated, Default, Plain, Blank
<1>9. QED
  BY <1>1, <1>2, <1>3, <1>4, <1>5, <1>6, <1>7, <1>8

LEMMA NamedTreatments ==
  /\ \A f : Treated(f, Plain) /\ Treated(f, Optional) /\ Treated(f, LocalTime) /\ Treated(f, Fixed)
  /\ \A f, text : Treated(f, Default(text))
BY Treatments

LEMMA FormsSound ==
  ASSUME NEW e \in DOMAIN Forms
  PROVE  FormSound(Forms[e], Dialogs[e])
<1>1. FormSound(SubscriptionForm, SubscriptionsDialogs)
  <2>1. PICK t : t = [LocalTime EXCEPT !.fixed = TRUE] /\ \A f : Treated(f, t)
    BY Treatments
  <2>2. SubscriptionForm =
          [ organization_id |-> Fixed, product_plan_id |-> Fixed, status |-> Default("ACTIVE"),
            starts_at |-> t, expires_at |-> LocalTime, notes |-> Optional ]
    BY <2>1 DEF SubscriptionForm
  <2>3. \A f : Treated(f, t)
    BY <2>1
  <2>4. QED
    BY <2>2, <2>3, NamedTreatments DEF FormSound, SubscriptionsDialogs
<1>2. FormSound(UserForm, UsersDialogs)
  BY Treatments DEF FormSound, UserForm, UsersDialogs
<1>3. FormSound(PlanForm, PlansDialogs)
  <2>1. PICK t : t = [Default("12") EXCEPT !.required = FALSE] /\ Treated("duration_months", t)
    BY Treatments
  <2>2. PlanForm =
          [ name |-> Plain, slug |-> Fixed, description |-> Optional, product_id |-> Fixed,
            status |-> Default("ACTIVE"), duration_months |-> t ]
    BY <2>1 DEF PlanForm
  <2>3. Treated("duration_months", t)
    BY <2>1
  <2>4. QED
    BY <2>2, <2>3, NamedTreatments DEF FormSound, PlansDialogs
<1>4. FormSound(CapabilityForm, CapabilitiesDialogs)
  BY Treatments DEF FormSound, CapabilityForm, CapabilitiesDialogs
<1>5. FormSound(ProductForm, ProductsDialogs)
  BY Treatments DEF FormSound, ProductForm, ProductsDialogs
<1>6. FormSound(OrganizationForm, OrganizationsDialogs)
  BY Treatments DEF FormSound, OrganizationForm, OrganizationsDialogs
<1>7. FormSound(DeploymentForm, DeploymentsDialogs)
  BY Treatments DEF FormSound, DeploymentForm, DeploymentsDialogs
<1>8. FormSound(LicenseForm, LicensesDialogs)
  <2>1. PICK t : t = [Plain EXCEPT !.required = FALSE] /\ \A f : Treated(f, t)
    BY Treatments
  <2>2. LicenseForm =
          [ deployment_id |-> Plain, subscription_id |-> Plain, notes |-> t ]
    BY <2>1 DEF LicenseForm
  <2>3. \A f : Treated(f, t)
    BY <2>1
  <2>4. QED
    BY <2>2, <2>3, NamedTreatments DEF FormSound, LicensesDialogs
<1>9. FormSound(ReleaseForm, ReleasesDialogs)
  BY Treatments DEF FormSound, ReleaseForm, ReleasesDialogs
<1>10. QED
  BY <1>1, <1>2, <1>3, <1>4, <1>5, <1>6, <1>7, <1>8, <1>9 DEF Forms, Dialogs
--------------------------------------------------------------------------------

(* What the success of an operation changes, it invalidates.               *)
RefreshesChanged ==
  \A c \in calls :
    c.state = "done" => Changed(c.op, c.row) \subseteq Touched(c.op, c.row)

SessionOK == who \in Users \cup {Nobody} /\ stored \in Users \cup {Nobody}

(* A dialog and a request are about an operation that the page of the      *)
(* entity has, and about a row, but for a creation not yet carried out.    *)
DraftOK(d) ==
  /\ d = [op |-> d.op, row |-> d.row, base |-> d.base, touched |-> d.touched,
          inputs |-> d.inputs]
  /\ \A n \in Rows : d.op \in DOMAIN Page(n).refreshes
  /\ d.op = "create" \/ d.row \in Rows

CallOK(c) ==
  /\ c = [op |-> c.op, row |-> c.row, draft |-> c.draft, by |-> c.by, state |-> c.state]
  /\ \A n \in Rows : c.op \in DOMAIN Page(n).refreshes
  /\ c.op = "create" \/ c.row \in Rows
  /\ c.state = "done" => c.row \in Rows
  /\ c.state = "sent" => DraftOK(c.draft) /\ c.draft.op = c.op /\ c.draft.row = c.row

DeskOK ==
  /\ topic \in Topics
  /\ route.page = "detail" => route.row \in Rows
  /\ dialog # None => DraftOK(dialog)
  /\ \A c \in calls : CallOK(c)

(* The tables of AdminPages, and that dialogs and requests are about       *)
(* operations and rows they know, give what the cache needs.               *)
LEMMA DeskRefreshes == DeskOK => RefreshesChanged
<1> SUFFICES ASSUME DeskOK, NEW c \in calls, c.state = "done"
             PROVE  Changed(c.op, c.row) \subseteq Touched(c.op, c.row)
  BY DEF RefreshesChanged
<1>1. PICK e, n, op : e = entity /\ n = c.row /\ op = c.op
  OBVIOUS
<1>2. e \in DOMAIN Pages /\ n \in Rows /\ op \in DOMAIN Pages[e][n].refreshes
  BY <1>1, ConsoleAssumption DEF DeskOK, CallOK, entity, Page
<1>3. /\ ListRefreshed(Pages[e])
      /\ e \in DOMAIN Details \ {"subscriptions"} => RowRefreshed(Pages[e], Details[e])
  BY <1>2, TablesRefresh
<1>4. "list" \in Touched(op, n)
  <2>1. AnyRow \in Rows
    BY <1>2 DEF AnyRow
  <2>2. PICK p \in Pages[e][n].refreshes[op] : IsPrefix(p, Pages[e][AnyRow].list)
    BY <1>2, <1>3, <2>1 DEF ListRefreshed
  <2>3. Pages[e][AnyRow].list \in QueryKeys("list") /\ "list" \in Keys
    BY <1>1, ConsoleAssumption DEF QueryKeys, Page
  <2>4. QED
    BY <1>1, <2>2, <2>3 DEF Touched, Under, Page
<1>5. ASSUME op # "create", e \in DOMAIN Details \ {"subscriptions"}, n \in Opened
      PROVE  n \in Touched(op, n)
  <2>1. PICK p \in Pages[e][n].refreshes[op] : \E key \in Details[e][n].reads : IsPrefix(p, key)
    BY <1>2, <1>3, <1>5 DEF RowRefreshed
  <2>2. PICK key \in Details[e][n].reads : IsPrefix(p, key)
    BY <2>1
  <2>3. key \in QueryKeys(n) /\ n \in Keys
    BY <1>1, <1>5, <2>2, ConsoleAssumption DEF QueryKeys, DetailsOf
  <2>4. QED
    BY <1>1, <2>1, <2>2, <2>3 DEF Touched, Under, Page
<1>6. QED
  BY <1>1, <1>4, <1>5 DEF Changed

--------------------------------------------------------------------------------
LEMMA EntityTables ==
  ASSUME DeskOK
  PROVE  /\ SameForRows(Pages[entity])
         /\ DialogsServed(Pages[entity], Dialogs[entity])
<1>1. PICK e : e = entity
  OBVIOUS
<1>2. e \in DOMAIN Pages
  BY <1>1, ConsoleAssumption DEF DeskOK, entity
<1>3. QED
  BY <1>1, <1>2, TablesRefresh

(* What a step has to show for the desk. *)
LEMMA DeskKept ==
  ASSUME DeskOK, UNCHANGED topic,
         route'.page = "detail" => route'.row \in Rows,
         dialog' # None => DraftOK(dialog'),
         \A c \in calls' : CallOK(c)
  PROVE  DeskOK'
<1>1. PICK d : d = dialog'
  OBVIOUS
<1>2. (d # None => DraftOK(d)) => (d # None => DraftOK(d))'
  BY DEF DraftOK, Page, entity
<1>3. ASSUME NEW c, CallOK(c)
      PROVE  CallOK(c)'
  BY <1>3 DEF CallOK, DraftOK, Page, entity
<1>4. QED
  BY <1>1, <1>2, <1>3 DEF DeskOK

(* The dialogs that open are about operations and rows the entity has. *)
LEMMA DialogStep ==
  ASSUME DeskOK,
         \/ OpenCreate \/ OpenWizard \/ Dismiss
         \/ \E op : \E n \in Rows : OpenRow(op, n)
         \/ \E f, text : Type(f, text)
  PROVE  DeskOK'
<1>1. UNCHANGED <<topic, route, calls>>
  BY DEF OpenCreate, OpenWizard, Dismiss, OpenRow, Type
<1>2. dialog' # None => DraftOK(dialog')
  <2>1. CASE OpenCreate
    <3>1. DraftOK(Draft("create", None, version, [f \in Tracked |-> Value(Blank)]))
      BY <2>1, EntityTables DEF OpenCreate, DialogsServed, DraftOK, Draft, Page
    <3>2. QED
      BY <2>1, <3>1 DEF OpenCreate
  <2>2. ASSUME NEW op, NEW n \in Rows, OpenRow(op, n)
        PROVE  DraftOK(dialog')
    <3>1. DraftOK(Draft(op, n, cache["list"].seen, Listed(n)))
      BY <2>2, EntityTables DEF OpenRow, DialogsServed, DraftOK, Draft, Page
    <3>2. QED
      BY <2>2, <3>1 DEF OpenRow
  <2>3. CASE OpenWizard
    <3>1. route.row \in Rows /\ "generate" \in Dialogs[entity]
      BY <2>3 DEF OpenWizard, DeskOK, Dialogs, RequestsDialogs
    <3>2. DraftOK(Draft("generate", route.row, cache[route.row].seen,
                        history[cache[route.row].seen][route.row]))
      BY <3>1, EntityTables DEF DialogsServed, DraftOK, Draft, Page
    <3>3. QED
      BY <2>3, <3>2 DEF OpenWizard
  <2>4. ASSUME NEW f, NEW text, Type(f, text)
        PROVE  DraftOK(dialog')
    <3>1. dialog # None /\ DraftOK(dialog)
      BY <2>4 DEF Type, DeskOK
    <3>2. dialog' = [op |-> dialog.op, row |-> dialog.row, base |-> dialog.base,
                     touched |-> dialog'.touched, inputs |-> dialog'.inputs]
      BY <2>4, <3>1 DEF Type, DraftOK
    <3>3. QED
      BY <3>1, <3>2 DEF DraftOK
  <2>5. CASE Dismiss
    BY <2>5 DEF Dismiss
  <2>6. QED
    BY <2>1, <2>2, <2>3, <2>4, <2>5
<1>3. QED
  BY <1>1, <1>2, DeskKept DEF DeskOK

(* A request is sent, carried out, refused, heard of or left. *)
LEMMA SubmitStep ==
  ASSUME DeskOK, Submit \/ \E op : \E n \in Rows : Press(op, n)
  PROVE  DeskOK'
<1>1. UNCHANGED <<topic, route, dialog>>
  BY DEF Submit, Press
<1>2. ASSUME NEW d, DraftOK(d)
      PROVE  CallOK(Sent(d))
  <2>1. \A n \in Rows : d.op \in DOMAIN Page(n).refreshes
    BY <1>2 DEF DraftOK
  <2>2. d.op = "create" \/ d.row \in Rows
    BY <1>2 DEF DraftOK
  <2>3. QED
    BY <1>2, <2>1, <2>2 DEF CallOK, Sent
<1>3. CASE Submit
  <2>1. calls' = calls \cup {Sent(dialog)} /\ CallOK(Sent(dialog))
    BY <1>2, <1>3 DEF Submit, DeskOK
  <2>2. QED
    BY <1>1, <2>1, DeskKept DEF DeskOK
<1>4. ASSUME NEW op, NEW n \in Rows, Press(op, n)
      PROVE  DeskOK'
  <2>1. \A m \in Rows : op \in DOMAIN Page(m).refreshes
    BY <1>4, EntityTables DEF Press, SameForRows, Page
  <2>2. PICK d : d = [op |-> op, row |-> n, base |-> version, touched |-> {},
                      inputs |-> [f \in Tracked |-> Value(Blank)]]
    OBVIOUS
  <2>3. DraftOK(d)
    BY <2>1, <2>2 DEF DraftOK
  <2>4. calls' = calls \cup {Sent(d)}
    BY <1>4, <2>2 DEF Press
  <2>5. QED
    BY <1>1, <1>2, <2>3, <2>4, DeskKept DEF DeskOK
<1>5. QED
  BY <1>3, <1>4

LEMMA CallReplaced ==
  ASSUME NEW c, c = [op |-> c.op, row |-> c.row, draft |-> c.draft, by |-> c.by, state |-> c.state],
         NEW row, NEW state
  PROVE  [c EXCEPT !.state = state, !.row = row, !.draft = None]
           = [op |-> c.op, row |-> row, draft |-> None, by |-> c.by, state |-> state]
<1>1. PICK e : e = [c EXCEPT !.state = state]
  OBVIOUS
<1>2. e = [op |-> c.op, row |-> c.row, draft |-> c.draft, by |-> c.by, state |-> state]
  BY <1>1
<1>3. PICK g : g = [e EXCEPT !.row = row]
  OBVIOUS
<1>4. g = [op |-> c.op, row |-> row, draft |-> c.draft, by |-> c.by, state |-> state]
  BY <1>2, <1>3
<1>5. [g EXCEPT !.draft = None]
        = [op |-> c.op, row |-> row, draft |-> None, by |-> c.by, state |-> state]
  BY <1>4
<1>6. [c EXCEPT !.state = state, !.row = row, !.draft = None] = [g EXCEPT !.draft = None]
  BY <1>1, <1>3
<1>7. QED
  BY <1>5, <1>6

LEMMA ToldCall ==
  ASSUME NEW c, CallOK(c), NEW n, NEW outcome \in {"done", "failed"},
         n \in Rows \/ (outcome = "failed" /\ n = c.row)
  PROVE  /\ CallOK([c EXCEPT !.state = outcome, !.row = n, !.draft = None])
         /\ [c EXCEPT !.state = outcome, !.row = n, !.draft = None].state # "sent"
<1>1. PICK b : b = [op |-> c.op, row |-> n, draft |-> None, by |-> c.by, state |-> outcome]
  OBVIOUS
<1>2. [c EXCEPT !.state = outcome, !.row = n, !.draft = None] = b
  <2>1. c = [op |-> c.op, row |-> c.row, draft |-> c.draft, by |-> c.by, state |-> c.state]
    BY DEF CallOK
  <2>2. QED
    BY <1>1, <2>1, CallReplaced, Zenon
<1>3. /\ b = [op |-> b.op, row |-> b.row, draft |-> b.draft, by |-> b.by, state |-> b.state]
      /\ b.op = c.op /\ b.row = n /\ b.state = outcome
  BY <1>1
<1>4. /\ \A m \in Rows : c.op \in DOMAIN Page(m).refreshes
      /\ c.op = "create" \/ c.row \in Rows
  BY DEF CallOK
<1>5. b.op = "create" \/ b.row \in Rows
  BY <1>3, <1>4
<1>6. CallOK(b) /\ b.state # "sent"
  BY <1>3, <1>4, <1>5 DEF CallOK
<1>7. QED
  BY <1>2, <1>6

(* Whoever answers a request tells of a row, or of a failure. *)
LEMMA AnswerTells ==
  ASSUME DeskOK, NEW c \in calls, Handle(c) \/ Answer(c) \/ Refuse(c)
  PROVE  \E b : calls' = (calls \ {c}) \cup {b} /\ CallOK(b) /\ b.state # "sent"
<1>1. CallOK(c)
  BY DEF DeskOK
<1>2. PICK n : \E outcome \in {"done", "failed"} :
        /\ n \in Rows \/ (outcome = "failed" /\ n = c.row)
        /\ calls' = Told(c, n, outcome)
  BY DEF Handle, Answer, Refuse
<1>3. QED
  BY <1>1, <1>2, ToldCall DEF Told

LEMMA AnswerStep ==
  ASSUME DeskOK, NEW c \in calls,
         Handle(c) \/ Answer(c) \/ Refuse(c) \/ Succeed(c) \/ GiveUp(c)
  PROVE  DeskOK'
<1>1. /\ UNCHANGED <<topic, route>>
      /\ dialog' # None => dialog' = dialog
  BY DEF Handle, Answer, Refuse, Succeed, GiveUp
<1>2. CASE Handle(c) \/ Answer(c) \/ Refuse(c)
  <2>1. PICK b : calls' = (calls \ {c}) \cup {b} /\ CallOK(b)
    BY <1>2, AnswerTells
  <2>2. QED
    BY <1>1, <2>1, DeskKept DEF DeskOK
<1>3. CASE Succeed(c) \/ GiveUp(c)
  <2>1. calls' = calls \ {c}
    BY <1>3 DEF Succeed, GiveUp
  <2>2. QED
    BY <1>1, <2>1, DeskKept DEF DeskOK
<1>4. QED
  BY <1>2, <1>3

(* Leaving a page closes its dialog and keeps its requests. *)
LEMMA LeaveStep ==
  ASSUME DeskOK, UNCHANGED topic, dialog' = None, NEW by, calls' = Left(by),
         route'.page = "detail" => route'.row \in Rows
  PROVE  DeskOK'
<1>1. ASSUME NEW c \in calls, NEW b, b = [c EXCEPT !.by = IF c.by = "page" THEN by ELSE @]
      PROVE  CallOK(b)
  <2>1. CallOK(c)
    BY DEF DeskOK
  <2>2. b = [op |-> c.op, row |-> c.row, draft |-> c.draft, by |-> b.by, state |-> c.state]
    BY <1>1, <2>1 DEF CallOK
  <2>3. QED
    BY <2>1, <2>2 DEF CallOK
<1>2. \A b \in calls' : CallOK(b)
  BY <1>1 DEF Left
<1>3. QED
  BY <1>2, DeskKept

LEMMA DeskStep == DeskOK /\ [Next]_vars => DeskOK'
<1> SUFFICES ASSUME DeskOK, [Next]_vars
             PROVE  DeskOK'
  OBVIOUS
<1>1. CASE UNCHANGED consoleVars
  BY <1>1, DeskKept DEF consoleVars, DeskOK
<1>2. CASE Work
  <2>1. ASSUME NEW n \in Rows, Others(n)
        PROVE  DeskOK'
    BY <2>1, DeskKept DEF Others, DeskOK
  <2>2. ASSUME \/ OpenCreate \/ OpenWizard \/ Dismiss
               \/ \E op : \E n \in Rows : OpenRow(op, n)
               \/ \E f, text : Type(f, text)
        PROVE  DeskOK'
    BY <2>2, DialogStep
  <2>3. ASSUME Submit \/ \E op : \E n \in Rows : Press(op, n)
        PROVE  DeskOK'
    BY <2>3, SubmitStep
  <2>4. ASSUME NEW c \in calls,
               Handle(c) \/ Answer(c) \/ Refuse(c) \/ Succeed(c) \/ GiveUp(c)
        PROVE  DeskOK'
    BY <2>4, AnswerStep
  <2>5. ASSUME NEW t \in uncommitted, Commit(t) \/ Lose(t)
        PROVE  DeskOK'
    BY <2>5, DeskKept DEF Commit, Lose, DeskOK
  <2>6. QED
    BY <1>2, <2>1, <2>2, <2>3, <2>4, <2>5 DEF Work
<1>3. CASE Navigate
  <2>1. ASSUME NEW r, NEW u, GoTo(r, u), r.page = "detail" => r.row \in Rows, UNCHANGED topic
        PROVE  DeskOK'
    BY <2>1, LeaveStep DEF GoTo
  <2>2. ASSUME NEW n \in Rows, Open(n)
        PROVE  DeskOK'
    BY <2>1, <2>2 DEF Open, AtRow
  <2>3. CASE Back
    BY <2>1, <2>3 DEF Back, At
  <2>4. CASE Redirect
    BY <2>1, <2>4 DEF Redirect, At
  <2>5. ASSUME NEW r \in {At("home"), At("list")} \cup {AtRow(n, FALSE) : n \in Opened},
               LoadPage(r)
        PROVE  DeskOK'
    <3>1. route'.page = "detail" => route'.row \in Rows
      BY <2>5, ConsoleAssumption DEF LoadPage, At, AtRow
    <3>2. QED
      BY <2>5, <3>1, LeaveStep DEF LoadPage
  <2>6. QED
    BY <1>3, <2>2, <2>3, <2>4, <2>5 DEF Navigate
<1>4. CASE Session
  <2>1. ASSUME NEW u \in Users, SignIn(u)
        PROVE  DeskOK'
    BY <2>1, LeaveStep DEF SignIn, GoTo, At
  <2>2. CASE SignOut
    BY <2>2, LeaveStep DEF SignOut, GoTo, At
  <2>3. ASSUME NEW u \in Users \cup {Nobody}, Elsewhere(u)
        PROVE  DeskOK'
    BY <2>3, DeskKept DEF Elsewhere, DeskOK
  <2>4. QED
    BY <1>4, <2>1, <2>2, <2>3 DEF Session
<1>5. QED
  BY <1>1, <1>2, <1>3, <1>4 DEF Next, Fetching, vars

--------------------------------------------------------------------------------
LEMMA ShownAreKeys ==
  ASSUME NEW u, NEW r,
         \/ r \in {At("login"), At("home"), At("list")}
         \/ \E n \in Opened, soft \in BOOLEAN : r = AtRow(n, soft)
  PROVE  ShownAt(r, u) \in SUBSET Keys
<1>1. CASE r \in {At("login"), At("home"), At("list")}
  BY <1>1, ConsoleAssumption DEF ShownAt, At
<1>2. ASSUME NEW n \in Opened, NEW soft \in BOOLEAN, r = AtRow(n, soft)
      PROVE  ShownAt(r, u) \in SUBSET Keys
  BY <1>2, ConsoleAssumption DEF ShownAt, AtRow
<1>3. QED
  BY <1>1, <1>2

(* Going somewhere is a step of the cache. *)
LEMMA GoToStep ==
  ASSUME SessionOK, NEW u \in Users \cup {Nobody}, NEW r, GoTo(r, u),
         ShownAt(r, u) \in SUBSET Keys
  PROVE  QueryNext /\ who' = u
<1>1. PICK S \in SUBSET Keys : S = ShownAt(r, u)
  OBVIOUS
<1>2. Show(S, u) /\ who' = u
  BY <1>1 DEF GoTo, Show
<1>3. QED
  BY <1>2 DEF QueryNext

LEMMA LoadStep ==
  ASSUME SessionOK, NEW r, LoadPage(r),
         \/ r \in {At("login"), At("home"), At("list")}
         \/ \E n \in Opened, soft \in BOOLEAN : r = AtRow(n, soft)
  PROVE  QueryNext /\ SessionOK'
<1>1. \/ route' \in {At("login"), At("home"), At("list")}
      \/ \E n \in Opened, soft \in BOOLEAN : route' = AtRow(n, soft)
  BY DEF LoadPage
<1>2. PICK S : S = ShownAt(route', stored)
  OBVIOUS
<1>3. S \in SUBSET Keys
  BY <1>1, <1>2, ShownAreKeys
<1>4. PICK u \in Users \cup {Nobody} : u = stored
  BY DEF SessionOK
<1>5. Load(S, u)
  BY <1>2, <1>4 DEF LoadPage, Load
<1>6. who' = u /\ stored' = stored
  BY <1>5 DEF LoadPage, Load
<1>7. QED
  BY <1>3, <1>4, <1>5, <1>6 DEF QueryNext, SessionOK

(* Success is an acknowledgement of what the operation changed. *)
LEMMA SucceedStep ==
  ASSUME SessionOK, RefreshesChanged, NEW c \in calls, Succeed(c)
  PROVE  QueryNext /\ SessionOK'
<1>1. PICK K, P : K = Touched(c.op, c.row) /\ P = Changed(c.op, c.row)
  OBVIOUS
<1>2. K \in SUBSET Keys /\ P \in SUBSET K
  BY <1>1 DEF RefreshesChanged, Succeed, Touched
<1>3. Acknowledge(K, P)
  BY <1>1 DEF Succeed, Acknowledge
<1>4. who' = who /\ stored' = stored
  BY <1>3 DEF Acknowledge, Succeed
<1>5. QED
  BY <1>2, <1>3, <1>4 DEF QueryNext, SessionOK

LEMMA WorkStep ==
  ASSUME SessionOK, RefreshesChanged, Work
  PROVE  (QueryNext \/ UNCHANGED cacheVars) /\ SessionOK'
<1>1. ASSUME OpenCreate \/ OpenWizard \/ Dismiss \/ Submit
      PROVE  UNCHANGED <<cacheVars, stored>>
  BY <1>1 DEF OpenCreate, OpenWizard, Dismiss, Submit
<1>2. ASSUME NEW op, NEW n, OpenRow(op, n) \/ Press(op, n) \/ Type(op, n)
      PROVE  UNCHANGED <<cacheVars, stored>>
  BY <1>2 DEF OpenRow, Press, Type
<1>3. ASSUME NEW c \in calls, Answer(c) \/ Refuse(c) \/ GiveUp(c)
      PROVE  UNCHANGED <<cacheVars, stored>>
  BY <1>3 DEF Answer, Refuse, GiveUp
<1>4. ASSUME NEW c, Handle(c) \/ Commit(c)
      PROVE  Write /\ UNCHANGED <<who, stored>>
  BY <1>4 DEF Handle, Commit, Write
<1>5. ASSUME NEW n \in Rows, Others(n)
      PROVE  Write /\ UNCHANGED <<who, stored>>
  BY <1>5 DEF Others, Write
<1>6. ASSUME UNCHANGED <<cacheVars, stored>>
      PROVE  UNCHANGED cacheVars /\ SessionOK'
  BY <1>6 DEF cacheVars, SessionOK
<1>7. ASSUME Write, UNCHANGED <<who, stored>>
      PROVE  QueryNext /\ SessionOK'
  BY <1>7 DEF QueryNext, SessionOK
<1>8. ASSUME NEW t \in uncommitted, Lose(t)
      PROVE  UNCHANGED <<cacheVars, stored>>
  BY <1>8 DEF Lose
<1>9. QED
  BY <1>1, <1>2, <1>3, <1>4, <1>5, <1>6, <1>7, <1>8, SucceedStep DEF Work

LEMMA NavigateStep ==
  ASSUME SessionOK, Navigate
  PROVE  QueryNext /\ SessionOK'
<1>1. who \in Users \cup {Nobody}
  BY DEF SessionOK
<1>2. ASSUME NEW n \in Rows, Open(n)
      PROVE  QueryNext /\ SessionOK'
  <2>1. n \in Opened /\ GoTo(AtRow(n, TRUE), who) /\ stored' = stored
    BY <1>2 DEF Open
  <2>2. QueryNext /\ who' = who
    BY <2>1, <1>1, ShownAreKeys, GoToStep
  <2>3. QED
    BY <2>1, <2>2 DEF SessionOK
<1>3. ASSUME Back
      PROVE  QueryNext /\ SessionOK'
  <2>1. GoTo(At("list"), who) /\ stored' = stored
    BY <1>3 DEF Back
  <2>2. QueryNext /\ who' = who
    BY <2>1, <1>1, ShownAreKeys, GoToStep
  <2>3. QED
    BY <2>1, <2>2 DEF SessionOK
<1>4. ASSUME Redirect
      PROVE  QueryNext /\ SessionOK'
  <2>1. GoTo(At("home"), who) /\ stored' = stored
    BY <1>4 DEF Redirect
  <2>2. QueryNext /\ who' = who
    BY <2>1, <1>1, ShownAreKeys, GoToStep
  <2>3. QED
    BY <2>1, <2>2 DEF SessionOK
<1>5. ASSUME NEW r \in {At("home"), At("list")} \cup {AtRow(n, FALSE) : n \in Opened},
             LoadPage(r)
      PROVE  QueryNext /\ SessionOK'
  BY <1>5, LoadStep
<1>6. QED
  BY <1>2, <1>3, <1>4, <1>5 DEF Navigate

LEMMA SessionStep ==
  ASSUME SessionOK, Session
  PROVE  (QueryNext \/ UNCHANGED cacheVars) /\ SessionOK'
<1>1. ASSUME NEW u \in Users, SignIn(u)
      PROVE  QueryNext /\ SessionOK'
  <2>1. GoTo(At("home"), u) /\ stored' = u
    BY <1>1 DEF SignIn
  <2>2. QueryNext /\ who' = u
    BY <2>1, ShownAreKeys, GoToStep
  <2>3. QED
    BY <2>1, <2>2 DEF SessionOK
<1>2. ASSUME SignOut
      PROVE  QueryNext /\ SessionOK'
  <2>1. GoTo(At("login"), Nobody) /\ stored' = Nobody
    BY <1>2 DEF SignOut
  <2>2. QueryNext /\ who' = Nobody
    BY <2>1, ShownAreKeys, GoToStep
  <2>3. QED
    BY <2>1, <2>2 DEF SessionOK
<1>3. ASSUME NEW u \in Users \cup {Nobody}, Elsewhere(u)
      PROVE  UNCHANGED cacheVars /\ SessionOK'
  BY <1>3 DEF Elsewhere, cacheVars, SessionOK
<1>4. QED
  BY <1>1, <1>2, <1>3 DEF Session

(* What the cache does of itself leaves the session alone. *)
LEMMA CacheStep ==
  ASSUME SessionOK, CacheNext, UNCHANGED consoleVars
  PROVE  QueryNext /\ SessionOK'
<1>1. who' = who
  BY DEF CacheNext, Serve, Deliver, FailFetch, Expire, Poll, Collect, Refocus
<1>2. stored' = stored
  BY DEF consoleVars
<1>3. QED
  BY <1>1, <1>2 DEF QueryNext, SessionOK

LEMMA ConsoleStep ==
  SessionOK /\ RefreshesChanged /\ [Next]_vars => [QueryNext]_cacheVars /\ SessionOK'
<1> SUFFICES ASSUME SessionOK, RefreshesChanged, [Next]_vars
             PROVE  (QueryNext \/ UNCHANGED cacheVars) /\ SessionOK'
  OBVIOUS
<1>1. ASSUME NEW k \in Keys, Fetching(k)
      PROVE  CacheNext /\ UNCHANGED consoleVars
  BY <1>1 DEF Fetching, CacheNext
<1>2. CASE UNCHANGED vars
  BY <1>2 DEF vars, cacheVars, consoleVars, SessionOK
<1>3. QED
  BY <1>1, <1>2, WorkStep, NavigateStep, SessionStep, CacheStep DEF Next

(* Whatever its pages do, the front end uses the query cache as QueryCache *)
(* says: the success handler of every operation invalidates the list and,  *)
(* but for subscriptions, the page of the row.  Changed leaves out what no *)
(* handler invalidates, the subscription's page, the trial tokens'         *)
(* manifest and the dashboard, and nothing is claimed of these.            *)
THEOREM ConsoleIsCache == Spec => QuerySpec
<1>1. Init => CacheInit /\ SessionOK
  BY DEF Init, CacheInit, SessionOK
<1>2. Init => DeskOK
  BY DEF Init, DeskOK, At
<1>3. QED
  BY <1>1, <1>2, DeskStep, DeskRefreshes, ConsoleStep, PTL DEF Spec, QuerySpec

(* Of every list, and the page of every row but a subscription's: data     *)
(* that count as fresh are at least as new as what was committed when the  *)
(* user was last told of a success that concerns them, whether the server  *)
(* commits before its answer, after it, or fails to.                       *)
THEOREM ConsoleFreshSinceSuccess == Spec => []FreshSinceSuccess
<1>1. QED
  BY ConsoleIsCache, CacheFreshSinceSuccess, PTL

(* No page goes back to data older than it has shown, and what counts as   *)
(* fresh on it is no older than what was committed when the user was last  *)
(* told of a success that concerns it.                                     *)
THEOREM ConsoleIsMonotone == Spec => MonotoneView
<1>1. QED
  BY ConsoleIsCache, CacheIsMonotone, PTL
--------------------------------------------------------------------------------
(* A query of a document in which the users of S have signed in: its data  *)
(* and its fetch are theirs, and a fetch without a user is never served.   *)
Owned(q, S) ==
  /\ q \in Query
  /\ q.seen > 0 => q.by \in S
  /\ q.as \in S \cup {Nobody}
  /\ q.fetch = "served" => q.as # Nobody

OwnInv ==
  /\ who \in signedIn \cup {Nobody}
  /\ cache \in [Keys -> Query]
  /\ \A k \in Keys : Owned(cache[k], signedIn)

LEMMA EmptyOwned == ASSUME NEW S PROVE Owned(Empty, S)
BY DEF Owned, Empty, Query, FetchStates

LEMMA BegunOwned ==
  ASSUME NEW S \in SUBSET Users, NEW q, Owned(q, S), NEW u \in S \cup {Nobody}
  PROVE  Owned(Begun(q, u), S)
<1>1. Begun(q, u) \in Query
  BY BegunKept DEF Owned
<1>2. QED
  BY <1>1 DEF Owned, Begun

LEMMA WantedOwned ==
  ASSUME NEW S \in SUBSET Users, NEW q, Owned(q, S), NEW u \in S \cup {Nobody}
  PROVE  Owned(Wanted(q, u), S)
BY BegunOwned DEF Wanted

LEMMA MarkedOwned ==
  ASSUME NEW S, NEW q, Owned(q, S)
  PROVE  Owned(Marked(q), S)
<1>1. CASE q.seen > 0
  <2>1. Marked(q) = [seen |-> q.seen, by |-> q.by, stale |-> TRUE, error |-> q.error,
                     fetch |-> q.fetch, as |-> q.as, got |-> q.got]
    BY <1>1 DEF Marked, Query, Owned
  <2>2. QED
    BY <2>1 DEF Owned, Query
<1>2. CASE ~(q.seen > 0)
  BY <1>2 DEF Marked
<1>3. QED
  BY <1>1, <1>2

(* Who has signed in before may see what is cached: an owned query stays   *)
(* so when somebody else signs in.                                         *)
LEMMA OwnedGrows ==
  ASSUME NEW S, NEW T, S \subseteq T, NEW q, Owned(q, S)
  PROVE  Owned(q, T)
BY DEF Owned

LEMMA AcknowledgeOwned ==
  ASSUME OwnInv, SessionOK, signedIn \in SUBSET Users, NEW K, NEW P, Acknowledge(K, P),
         signedIn' = signedIn
  PROVE  OwnInv'
<1>1. ASSUME NEW k \in Keys PROVE Owned(Invalidated(k), signedIn)
  BY BegunOwned, MarkedOwned DEF OwnInv, Invalidated
<1>2. cache' = [k \in Keys |-> IF k \in K THEN Invalidated(k) ELSE cache[k]] /\ who' = who
  BY DEF Acknowledge
<1>3. \A k \in Keys : Owned(cache'[k], signedIn)
  BY <1>1, <1>2 DEF OwnInv
<1>4. cache' \in [Keys -> Query]
  BY <1>2, <1>3 DEF Owned
<1>5. QED
  BY <1>2, <1>3, <1>4 DEF OwnInv

(* Navigation, signing in and signing out. *)
LEMMA ShowOwned ==
  ASSUME OwnInv, signedIn' \in SUBSET Users, NEW S, NEW u, Show(S, u),
         signedIn \subseteq signedIn', u \in signedIn' \cup {Nobody}
  PROVE  OwnInv'
<1>1. \A k \in Keys : Owned(cache[k], signedIn')
  BY OwnedGrows DEF OwnInv
<1>2. \A k \in Keys : Owned(Wanted(cache[k], u), signedIn')
  BY <1>1, WantedOwned
<1>3. /\ cache' = [k \in Keys |-> IF k \in S \ shown THEN Wanted(cache[k], u) ELSE cache[k]]
      /\ who' = u
  BY DEF Show
<1>4. \A k \in Keys : Owned(cache'[k], signedIn')
  BY <1>1, <1>2, <1>3
<1>5. cache' \in [Keys -> Query]
  BY <1>3, <1>4 DEF Owned
<1>6. QED
  BY <1>3, <1>4, <1>5 DEF OwnInv

LEMMA LoadOwned ==
  ASSUME NEW S, Load(S, stored), stored \in Users \cup {Nobody},
         signedIn' = {stored} \ {Nobody}
  PROVE  OwnInv'
<1>1. /\ cache' = [k \in Keys |-> IF k \in S THEN Begun(Empty, stored) ELSE Empty]
      /\ who' = stored /\ signedIn' \in SUBSET Users /\ stored \in signedIn' \cup {Nobody}
  BY DEF Load
<1>2. Owned(Begun(Empty, stored), signedIn') /\ Owned(Empty, signedIn')
  BY <1>1, EmptyOwned, BegunOwned
<1>3. \A k \in Keys : Owned(cache'[k], signedIn')
  BY <1>1, <1>2
<1>4. cache' \in [Keys -> Query]
  BY <1>1, <1>3 DEF Owned
<1>5. QED
  BY <1>1, <1>3, <1>4 DEF OwnInv

(* Steps of one key. *)
LEMMA KeyOwned ==
  ASSUME OwnInv, CacheTypeOK, signedIn \in SUBSET Users, NEW k \in Keys, signedIn' = signedIn,
         Serve(k) \/ Deliver(k) \/ FailFetch(k) \/ Expire(k) \/ Poll(k) \/ Collect(k)
  PROVE  OwnInv'
<1>1. /\ cache \in [Keys -> Query] /\ cache[k] \in Query /\ version \in Nat
      /\ who \in signedIn \cup {Nobody} /\ Owned(cache[k], signedIn)
  BY DEF OwnInv, CacheTypeOK
<1>2. who' = who /\ \E q : cache' = [cache EXCEPT ![k] = q]
  BY <1>1 DEF Serve, Deliver, FailFetch, Expire, Poll, Collect
<1>3. Owned(cache'[k], signedIn)
  <2>1. CASE Serve(k)
    <3>1. cache'[k] = [cache[k] EXCEPT !.fetch = "served", !.got = version]
      BY <2>1, <1>1 DEF Serve
    <3>2. cache'[k] = [seen |-> cache[k].seen, by |-> cache[k].by, stale |-> cache[k].stale,
                       error |-> cache[k].error, fetch |-> "served", as |-> cache[k].as,
                       got |-> version]
      BY <3>1, <1>1 DEF Query
    <3>3. QED
      BY <3>2, <2>1, <1>1 DEF Query, FetchStates, Owned, Serve
  <2>2. CASE Deliver(k)
    <3>1. cache'[k] = [Empty EXCEPT !.seen = cache[k].got, !.by = cache[k].as]
      BY <2>2, <1>1 DEF Deliver
    <3>2. QED
      BY <3>1, <2>2, <1>1 DEF Query, FetchStates, Owned, Empty, Deliver
  <2>3. CASE FailFetch(k)
    <3>1. PICK f \in {"resent", "idle"}, u \in {who, Nobody}, failed \in BOOLEAN :
             cache' = [cache EXCEPT ![k] =
                         [cache[k] EXCEPT !.fetch = f, !.as = u, !.error = failed]]
      BY <2>3, FailFetchChanges
    <3>2. cache'[k] = [seen |-> cache[k].seen, by |-> cache[k].by, stale |-> cache[k].stale,
                       error |-> failed, fetch |-> f, as |-> u, got |-> cache[k].got]
      BY <3>1, <1>1 DEF Query
    <3>3. who \in Users \cup {Nobody}
      BY DEF CacheTypeOK
    <3>4. QED
      BY <3>2, <3>3, <1>1 DEF Query, FetchStates, Owned
  <2>4. CASE Expire(k)
    <3>1. cache'[k] = [cache[k] EXCEPT !.stale = TRUE]
      BY <2>4, <1>1 DEF Expire
    <3>2. cache'[k] = [seen |-> cache[k].seen, by |-> cache[k].by, stale |-> TRUE,
                       error |-> cache[k].error, fetch |-> cache[k].fetch, as |-> cache[k].as,
                       got |-> cache[k].got]
      BY <3>1, <1>1 DEF Query
    <3>3. QED
      BY <3>2, <1>1 DEF Query, FetchStates, Owned
  <2>5. CASE Poll(k)
    <3>1. cache'[k] = Begun(cache[k], who)
      BY <2>5, <1>1 DEF Poll
    <3>2. QED
      BY <3>1, <1>1, BegunOwned
  <2>6. CASE Collect(k)
    <3>1. cache'[k] = Empty
      BY <2>6, <1>1 DEF Collect
    <3>2. QED
      BY <3>1, EmptyOwned
  <2>7. QED
    BY <2>1, <2>2, <2>3, <2>4, <2>5, <2>6
<1>4. /\ cache' \in [Keys -> Query]
      /\ \A j \in Keys : j # k => cache'[j] = cache[j]
  BY <1>1, <1>2, <1>3 DEF Owned
<1>5. QED
  BY <1>2, <1>3, <1>4 DEF OwnInv

LEMMA RefocusOwned ==
  ASSUME OwnInv, signedIn \in SUBSET Users, signedIn' = signedIn, Refocus
  PROVE  OwnInv'
<1>1. \A k \in Keys : Owned(Wanted(cache[k], who), signedIn) /\ Owned(cache[k], signedIn)
  BY WantedOwned DEF OwnInv
<1>2. /\ cache' = [k \in Keys |-> IF k \in shown THEN Wanted(cache[k], who) ELSE cache[k]]
      /\ who' = who
  BY DEF Refocus
<1>3. \A k \in Keys : Owned(cache'[k], signedIn)
  BY <1>1, <1>2
<1>4. cache' \in [Keys -> Query]
  BY <1>2, <1>3 DEF Owned
<1>5. QED
  BY <1>2, <1>3, <1>4 DEF OwnInv

(* Who has signed in is a user, whoever signs in. *)
SignedOK == signedIn \in SUBSET Users

LEMMA OwnStep ==
  ASSUME OwnInv, SignedOK, SessionOK, CacheTypeOK, [Next]_vars
  PROVE  OwnInv' /\ SignedOK'
<1>1. SignedOK'
  <2>1. CASE signedIn' = signedIn
    BY <2>1 DEF SignedOK
  <2>2. CASE \E u \in Users : signedIn' = signedIn \cup {u}
    BY <2>2 DEF SignedOK
  <2>3. CASE signedIn' = {stored} \ {Nobody}
    BY <2>3 DEF SignedOK, SessionOK
  <2>4. \/ signedIn' = signedIn \/ signedIn' = {stored} \ {Nobody}
        \/ \E u \in Users : signedIn' = signedIn \cup {u}
    BY DEF Next, vars, Work, Navigate, Session, Fetching, consoleVars, OpenCreate, OpenWizard,
           Dismiss, Submit, OpenRow, Type, Press, Handle, Answer, Commit, Lose, Refuse, Succeed,
           GiveUp, Others, Open,
           Back, Redirect, LoadPage, SignIn, SignOut, Elsewhere
  <2>5. QED
    BY <2>1, <2>2, <2>3, <2>4
<1>2. CASE UNCHANGED <<cache, who, signedIn>>
  BY <1>1, <1>2 DEF OwnInv
<1>3. CASE (\E K, P : Acknowledge(K, P)) /\ signedIn' = signedIn
  BY <1>1, <1>3, AcknowledgeOwned DEF SignedOK
<1>4. CASE \E r, u : GoTo(r, u) /\ signedIn \subseteq signedIn' /\ u \in signedIn' \cup {Nobody}
  BY <1>1, <1>4, ShowOwned DEF GoTo, SignedOK
<1>5. CASE \E S : Load(S, stored) /\ signedIn' = {stored} \ {Nobody}
  BY <1>1, <1>5, LoadOwned DEF SessionOK
<1>6. CASE CacheNext /\ signedIn' = signedIn
  BY <1>1, <1>6, KeyOwned, RefocusOwned DEF CacheNext, SignedOK
<1>7. QED
  <2>1. CASE UNCHANGED vars
    BY <2>1, <1>1, <1>2 DEF vars, cacheVars, consoleVars
  <2>2. CASE Work
    <3>1. \/ UNCHANGED <<cache, who, signedIn>>
          \/ \E c \in calls : Succeed(c)
      BY <2>2 DEF Work, OpenCreate, OpenWizard, Dismiss, Submit, OpenRow, Type, Press, Handle,
                  Answer, Commit, Lose, Refuse, GiveUp, Others, Write, cacheVars
    <3>2. ASSUME NEW c \in calls, Succeed(c)
          PROVE  (\E K, P : Acknowledge(K, P)) /\ signedIn' = signedIn
      BY <3>2 DEF Succeed
    <3>3. QED
      BY <1>1, <1>2, <1>3, <3>1, <3>2
  <2>3. CASE Navigate
    <3>1. \/ \E r : GoTo(r, who) /\ signedIn' = signedIn
          \/ \E S : Load(S, stored) /\ signedIn' = {stored} \ {Nobody}
      BY <2>3 DEF Navigate, Open, Back, Redirect, LoadPage
    <3>2. who \in signedIn \cup {Nobody}
      BY DEF OwnInv
    <3>3. QED
      BY <1>1, <1>4, <1>5, <3>1, <3>2
  <2>4. CASE Session
    <3>1. ASSUME NEW u \in Users, SignIn(u)
          PROVE  GoTo(At("home"), u) /\ signedIn' = signedIn \cup {u}
      BY <3>1 DEF SignIn
    <3>2. ASSUME SignOut
          PROVE  GoTo(At("login"), Nobody) /\ signedIn' = signedIn
      BY <3>2 DEF SignOut
    <3>3. ASSUME NEW u \in Users \cup {Nobody}, Elsewhere(u)
          PROVE  UNCHANGED <<cache, who, signedIn>>
      BY <3>3 DEF Elsewhere, cacheVars
    <3>4. QED
      BY <2>4, <1>1, <1>2, <1>4, <3>1, <3>2, <3>3 DEF Session
  <2>5. ASSUME NEW k \in Keys, Fetching(k)
        PROVE  CacheNext /\ signedIn' = signedIn
    BY <2>5 DEF Fetching, CacheNext, consoleVars
  <2>6. CASE CacheNext /\ UNCHANGED consoleVars
    BY <2>6, <1>1, <1>6 DEF consoleVars
  <2>7. QED
    BY <1>1, <1>6, <2>1, <2>2, <2>3, <2>4, <2>5, <2>6 DEF Next

(* Nobody sees data fetched for a user who has not signed in since the     *)
(* document was loaded.                                                    *)
THEOREM ConsoleShowsOwnData == Spec => []OwnDataSinceLoad
<1>1. ASSUME Init PROVE OwnInv /\ SignedOK
  <2>1. /\ cache = [k \in Keys |-> Empty] /\ who \in Users \cup {Nobody}
        /\ signedIn = {who} \ {Nobody}
    BY <1>1 DEF Init, CacheInit
  <2>2. \A k \in Keys : Owned(cache[k], signedIn)
    BY <2>1, EmptyOwned
  <2>3. cache \in [Keys -> Query]
    BY <2>1, <2>2 DEF Owned
  <2>4. QED
    BY <2>1, <2>2, <2>3 DEF OwnInv, SignedOK
<1>2. Spec => []CacheTypeOK
  <2>1. CacheInv => CacheTypeOK
    BY DEF CacheInv
  <2>2. QED
    BY <2>1, ConsoleIsCache, CacheInvariant, PTL
<1>3. Spec => []SessionOK
  <2>1. Init => CacheInit /\ SessionOK
    BY DEF Init, CacheInit, SessionOK
  <2>2. Init => DeskOK
    BY DEF Init, DeskOK, At
  <2>3. QED
    BY <2>1, <2>2, DeskStep, DeskRefreshes, ConsoleStep, PTL DEF Spec
<1>4. OwnInv => OwnDataSinceLoad
  BY DEF OwnInv, OwnDataSinceLoad, Owned
<1>5. QED
  BY <1>1, <1>2, <1>3, <1>4, OwnStep, PTL DEF Spec
--------------------------------------------------------------------------------
(* What a field holds, and a row: a field the form requires is not empty.  *)
IsValue(v) == v = [text |-> v.text, shift |-> v.shift, seconds |-> v.seconds]

Accepted(f, v) ==
  /\ IsValue(v)
  /\ f \in DOMAIN Form /\ Form[f].required => v.text # Blank

Filled(row) ==
  /\ row = [f \in Tracked |-> row[f]]
  /\ \A f \in Tracked : Accepted(f, row[f])

Snapshot(rows) ==
  /\ rows = [n \in Rows |-> rows[n]]
  /\ \A n \in Rows : Live(rows[n]) => Filled(rows[n])

HistoryOK ==
  /\ \E S : history \in Seq(S)
  /\ version \in Nat \ {0} /\ Len(history) = version
  /\ \A i \in 1 .. version : Snapshot(history[i])

(* What a draft says of the row it was opened on, as its list showed it.   *)
Faithful(d) ==
  /\ d.base \in 1 .. version /\ d.row \in Rows
  /\ \A f \in Tracked \ d.touched : d.inputs[f] = Shown(f, history[d.base][d.row][f])

DraftKept(d) ==
  /\ d.op \in {"create", "update", "remove", "review", "generate"}
  /\ d.op \in {"create", "update"} =>
       /\ d.inputs = [f \in Tracked |-> d.inputs[f]]
       /\ \A f \in Tracked : IsValue(d.inputs[f])
  /\ d.op = "update" => Faithful(d)

CallKept(c) == c.state = "sent" => DraftKept(c.draft) /\ Valid(c.draft)

(* What a transaction has yet to commit: an edit does to its row what its  *)
(* form says, for nobody else writes the row in the meantime.              *)
Prepared(t) ==
  /\ DOMAIN t.rows \subseteq Rows
  /\ \A m \in DOMAIN t.rows : Live(t.rows[m]) => Filled(t.rows[m])
  /\ t.draft.op = "update" =>
       /\ DraftKept(t.draft) /\ t.draft.row \in DOMAIN t.rows
       /\ Filled(now[t.draft.row])
       /\ t.rows[t.draft.row] = Applied(t.draft, now[t.draft.row])

Apart(t, u) == DOMAIN t.rows \cap DOMAIN u.rows = {}

UncommittedOK ==
  /\ \A t \in uncommitted : Prepared(t)
  /\ \A t, u \in uncommitted : t # u => Apart(t, u)

KeptInv ==
  /\ HistoryOK
  /\ UncommittedOK
  /\ dialog # None => DraftKept(dialog)
  /\ \A c \in calls : CallKept(c)
--------------------------------------------------------------------------------
(* No status in the life of an entity is blank. *)
Named(step) == step[1] # Blank /\ step[2] # Blank

LivesOn(l) ==
  /\ l.begins # Blank /\ l.ends # Blank
  /\ \A step \in l.course : Named(step)

LEMMA LifeTexts ==
  ASSUME NEW e \in DOMAIN Life
  PROVE  LivesOn(Life[e])
<1>1. LivesOn(Life["subscriptions"])
  <2>1. Named(<<"ACTIVE", "CANCELLED">>) /\ Named(<<"CANCELLED", "ACTIVE">>)
    BY DEF Named, Blank
  <2>2. QED
    BY <2>1 DEF LivesOn, Life, Blank
<1>2. LivesOn(Life["users"])
  <2>1. Named(<<"true", "false">>) /\ Named(<<"false", "true">>)
    BY DEF Named, Blank
  <2>2. QED
    BY <2>1 DEF LivesOn, Life, Blank
<1>3. LivesOn(Life["plans"])
  <2>1. Named(<<"ACTIVE", "DEPRECATED">>) /\ Named(<<"DEPRECATED", "ACTIVE">>)
    BY DEF Named, Blank
  <2>2. QED
    BY <2>1 DEF LivesOn, Life, Blank
<1>4. LivesOn(Life["licenses"])
  <2>1. Named(<<"ACTIVE", "REVOKED">>)
    BY DEF Named, Blank
  <2>2. QED
    BY <2>1 DEF LivesOn, Life, Blank
<1>5. LivesOn(Life["trialTokens"])
  <2>1. Named(<<"true", "false">>)
    BY DEF Named, Blank
  <2>2. QED
    BY <2>1 DEF LivesOn, Life, Blank
<1>6. LivesOn(Life["requests"])
  <2>1. Named(<<"PENDING", "UNDER_REVIEW">>) /\ Named(<<"UNDER_REVIEW", "LICENSE_GENERATED">>)
    BY DEF Named, Blank
  <2>2. QED
    BY <2>1 DEF LivesOn, Life, Blank
<1>7. e \in {"subscriptions", "users", "plans", "licenses", "trialTokens", "requests"}
  BY DEF Life
<1>8. QED
  BY <1>1, <1>2, <1>3, <1>4, <1>5, <1>6, <1>7

LEMMA TextsFilled ==
  ASSUME NEW f, NEW text \in Texts(f), f \in DOMAIN Form /\ Form[f].required
  PROVE  text # Blank
<1>1. CASE HasLife /\ f = Life[entity].field
  BY <1>1, LifeTexts DEF Texts, HasLife, LivesOn, Named
<1>2. CASE ~(HasLife /\ f = Life[entity].field)
  <2>1. text = "old"
    BY <1>2 DEF Texts, Nullable
  <2>2. QED
    BY <2>1 DEF Blank
<1>3. QED
  BY <1>1, <1>2

LEMMA FormTreated ==
  ASSUME DeskOK, NEW f \in DOMAIN Form
  PROVE  /\ ~Form[f].required =>
              Form[f].empty = Blank \/ (f = "duration_months" /\ Form[f].empty = "12")
         /\ Form[f].dropped => ~Form[f].required
         /\ "create" \in Dialogs[entity]
<1>1. PICK e : e = entity
  OBVIOUS
<1>2. e \in DOMAIN Forms /\ Form = Forms[e]
  BY <1>1 DEF Form
<1>3. FormSound(Forms[e], Dialogs[e])
  BY <1>2, FormsSound
<1>4. QED
  BY <1>1, <1>2, <1>3 DEF FormSound, Treated

(* The form shows a row in values, and a row that is sent back as it is    *)
(* shown is the same, but for the two fields that are known to change.     *)
LEMMA TextReplaced ==
  ASSUME NEW v, IsValue(v), NEW text
  PROVE  /\ IsValue([v EXCEPT !.text = text])
         /\ [v EXCEPT !.text = text].text = text
         /\ text = v.text => [v EXCEPT !.text = text] = v
<1>1. [v EXCEPT !.text = text] = [text |-> text, shift |-> v.shift, seconds |-> v.seconds]
  BY DEF IsValue
<1>2. text = v.text => [text |-> text, shift |-> v.shift, seconds |-> v.seconds] = v
  BY DEF IsValue
<1>3. QED
  BY <1>1, <1>2 DEF IsValue

LEMMA ShownIsValue ==
  ASSUME NEW f, NEW v, IsValue(v)
  PROVE  IsValue(Shown(f, v))
<1>1. IsValue(ReadBack(v))
  BY DEF ReadBack, IsValue
<1>2. QED
  BY <1>1, TextReplaced DEF Shown

LEMMA ShownBack ==
  ASSUME DeskOK, NEW f, NEW v, Accepted(f, v)
  PROVE  Stored("update", f, Shown(f, v), v) \in {v, Redrawn(f, v)}
<1>1. IsValue(v)
  BY DEF Accepted
<1>2. Stored("update", f, Shown(f, v), v) \in {v, Shown(f, v)}
  BY DEF Stored
<1>3. CASE f \notin DOMAIN Form
  BY <1>3 DEF Stored
<1>4. CASE f \in DOMAIN Form /\ v.text # Blank
  <2>1. Shown(f, v) = IF Form[f].shifted THEN ReadBack(v) ELSE v
    BY <1>4 DEF Shown
  <2>2. Shown(f, v) \in {v, Redrawn(f, v)}
    BY <1>4, <2>1 DEF Redrawn, IsInstant
  <2>3. QED
    BY <1>2, <2>2
<1>5. CASE f \in DOMAIN Form /\ v.text = Blank
  <2>1. Shown(f, v) = [v EXCEPT !.text = Form[f].empty]
    BY <1>5 DEF Shown
  <2>2. CASE Form[f].empty = Blank
    BY <1>1, <1>2, <1>5, <2>1, <2>2, TextReplaced
  <2>3. CASE f = "duration_months" /\ Form[f].empty = "12"
    BY <1>2, <1>5, <2>1, <2>3 DEF Redrawn
  <2>4. QED
    BY <1>5, <2>2, <2>3, FormTreated DEF Accepted
<1>6. QED
  BY <1>3, <1>4, <1>5
--------------------------------------------------------------------------------
(* What is written into a row, field by field, leaves it filled. *)
LEMMA FieldWritten ==
  ASSUME NEW row, Filled(row), NEW f \in Tracked, NEW text,
         f \in DOMAIN Form /\ Form[f].required => text # Blank
  PROVE  Filled([row EXCEPT ![f] = Value(text)])
<1>1. Accepted(f, Value(text))
  BY DEF Accepted, IsValue, Value
<1>2. PICK new : new = [row EXCEPT ![f] = Value(text)]
  OBVIOUS
<1>3. /\ new = [g \in Tracked |-> new[g]]
      /\ \A g \in Tracked : new[g] = IF g = f THEN Value(text) ELSE row[g]
  BY <1>2 DEF Filled
<1>4. \A g \in Tracked : Accepted(g, new[g])
  BY <1>1, <1>3 DEF Filled
<1>5. QED
  BY <1>2, <1>3, <1>4 DEF Filled

LEMMA EndedFilled ==
  ASSUME NEW row, Filled(row), HasLife
  PROVE  Filled(Ended(row))
<1>1. Life[entity].ends # Blank
  BY LifeTexts DEF HasLife, LivesOn
<1>2. Life[entity].field \in Tracked
  BY DEF Tracked
<1>3. QED
  BY <1>1, <1>2, FieldWritten DEF Ended

LEMMA ReviewedFilled ==
  ASSUME NEW row, Filled(row)
  PROVE  Filled([row EXCEPT ![Life[entity].field] = Value("UNDER_REVIEW")])
<1>1. PICK f : f = Life[entity].field
  OBVIOUS
<1>2. CASE f \in Tracked
  <2>1. "UNDER_REVIEW" # Blank
    BY DEF Blank
  <2>2. QED
    BY <1>1, <1>2, <2>1, FieldWritten
<1>3. CASE f \notin Tracked
  <2>1. [row EXCEPT ![f] = Value("UNDER_REVIEW")] = row
    BY <1>3 DEF Filled
  <2>2. QED
    BY <1>1, <2>1
<1>4. QED
  BY <1>2, <1>3

LEMMA StoredAccepted ==
  ASSUME DeskOK, NEW f \in Tracked, NEW op, NEW s, IsValue(s),
         f \in DOMAIN Form /\ Form[f].required => s.text # Blank,
         NEW old, IsValue(old),
         op = "update" => Accepted(f, old)
  PROVE  op \in {"create", "update"} => Accepted(f, Stored(op, f, s, old))
<1> SUFFICES ASSUME op \in {"create", "update"}
             PROVE  Accepted(f, Stored(op, f, s, old))
  OBVIOUS
<1>1. Accepted(f, s)
  BY DEF Accepted
<1>2. CASE f \notin DOMAIN Form
  BY <1>2 DEF Stored, Accepted
<1>3. CASE f \in DOMAIN Form /\ op = "update"
  BY <1>1, <1>3 DEF Stored
<1>4. CASE f \in DOMAIN Form /\ op = "create"
  BY <1>1, <1>4, FormTreated DEF Stored, Accepted
<1>5. QED
  BY <1>2, <1>3, <1>4

LEMMA BornIsValue ==
  ASSUME NEW f \in Tracked
  PROVE  IsValue(Born[f])
BY DEF Born, IsValue, Value

LEMMA AppliedFilled ==
  ASSUME DeskOK, NEW d, DraftKept(d), Valid(d), NEW row, Live(row) => Filled(row),
         Accepts(d, row), Live(Applied(d, row))
  PROVE  Filled(Applied(d, row))
<1>1. \A f \in Tracked : f \in DOMAIN Form /\ Form[f].required /\ d.op \in {"create", "update"}
        => d.inputs[f].text # Blank
  BY DEF Valid
<1>2. CASE d.op = "create"
  <2>1. Applied(d, row) = [f \in Tracked |-> Stored("create", f, d.inputs[f], Born[f])]
    BY <1>2 DEF Applied
  <2>2. \A f \in Tracked : Accepted(f, Stored("create", f, d.inputs[f], Born[f]))
    BY <1>1, <1>2, StoredAccepted, BornIsValue DEF DraftKept
  <2>3. QED
    BY <2>1, <2>2 DEF Filled
<1>3. CASE d.op = "update"
  <2>1. Applied(d, row) = [f \in Tracked |-> Stored("update", f, d.inputs[f], row[f])]
    BY <1>3 DEF Applied
  <2>2. Filled(row)
    BY <1>3 DEF Accepts
  <2>3. \A f \in Tracked : Accepted(f, Stored("update", f, d.inputs[f], row[f]))
    BY <1>1, <1>3, <2>2, StoredAccepted DEF DraftKept, Filled, Accepted
  <2>4. QED
    BY <2>1, <2>3 DEF Filled
<1>4. CASE d.op \in {"remove", "generate"}
  <2>1. Filled(row)
    BY <1>4 DEF Accepts
  <2>2. Applied(d, row) = IF HasLife THEN Ended(row) ELSE Deleted
    BY <1>4 DEF Applied
  <2>3. HasLife
    BY <2>2 DEF Live
  <2>4. QED
    BY <2>1, <2>2, <2>3, EndedFilled
<1>5. CASE d.op = "review"
  <2>1. Filled(row)
    BY <1>5 DEF Accepts
  <2>2. Applied(d, row) = [row EXCEPT ![Life[entity].field] = Value("UNDER_REVIEW")]
    BY <1>5 DEF Applied
  <2>3. QED
    BY <2>1, <2>2, ReviewedFilled
<1>6. QED
  BY <1>2, <1>3, <1>4, <1>5 DEF DraftKept

(* What a request has flushed are rows, filled where they live.            *)
LEMMA FlushedFilled ==
  ASSUME DeskOK, NEW d, DraftKept(d), Valid(d), Snapshot(now), NEW n \in Rows,
         Accepts(d, now[n])
  PROVE  /\ DOMAIN Flushed(d, n) = Written(d.op, n)
         /\ DOMAIN Flushed(d, n) \subseteq Rows /\ n \in DOMAIN Flushed(d, n)
         /\ Flushed(d, n)[n] = Applied(d, now[n])
         /\ \A m \in DOMAIN Flushed(d, n) : Live(Flushed(d, n)[m]) => Filled(Flushed(d, n)[m])
<1>1. /\ DOMAIN Flushed(d, n) = Written(d.op, n)
      /\ n \in Written(d.op, n) /\ Written(d.op, n) \subseteq Rows
  BY DEF Flushed, Written
<1>2. Flushed(d, n)[n] = Applied(d, now[n])
  BY <1>1 DEF Flushed
<1>3. Live(Applied(d, now[n])) => Filled(Applied(d, now[n]))
  BY AppliedFilled DEF Snapshot
<1>4. ASSUME NEW m \in Written(d.op, n), m # n
      PROVE  Filled(Flushed(d, n)[m])
  <2>1. m \in Rows /\ entity = "trialTokens" /\ Live(now[m])
    BY <1>4 DEF Written
  <2>2. Flushed(d, n)[m] = Ended(now[m]) /\ Filled(now[m])
    BY <1>4, <2>1 DEF Flushed, Snapshot
  <2>3. HasLife
    BY <2>1 DEF HasLife, Life
  <2>4. QED
    BY <2>2, <2>3, EndedFilled
<1>5. QED
  BY <1>1, <1>2, <1>3, <1>4

(* Rows written over a snapshot make a snapshot.                           *)
LEMMA WithSnapshot ==
  ASSUME Snapshot(now), NEW rows, \A m \in DOMAIN rows : Live(rows[m]) => Filled(rows[m])
  PROVE  /\ Snapshot(With(rows))
         /\ \A m \in Rows : With(rows)[m] = IF m \in DOMAIN rows THEN rows[m] ELSE now[m]
<1>1. /\ With(rows) = [m \in Rows |-> With(rows)[m]]
      /\ \A m \in Rows : With(rows)[m] = IF m \in DOMAIN rows THEN rows[m] ELSE now[m]
  BY DEF With
<1>2. \A m \in Rows : Live(With(rows)[m]) => Filled(With(rows)[m])
  BY <1>1 DEF Snapshot
<1>3. QED
  BY <1>1, <1>2 DEF Snapshot

LEMMA OthersSnapshot ==
  ASSUME NEW n \in Rows, Others(n), Snapshot(now)
  PROVE  \E rows : /\ Snapshot(rows) /\ history' = Append(history, rows)
                   /\ \A m \in Rows \ {n} : rows[m] = now[m]
<1>1. Live(now[n]) /\ Filled(now[n])
  BY DEF Others, Snapshot
<1>2. ASSUME NEW row, Live(row) => Filled(row)
      PROVE  /\ Snapshot([now EXCEPT ![n] = row])
             /\ \A m \in Rows \ {n} : [now EXCEPT ![n] = row][m] = now[m]
  BY <1>2 DEF Snapshot
<1>3. CASE history' = Append(history, [now EXCEPT ![n] = Deleted])
  <2>1. ~Live(Deleted)
    BY DEF Live
  <2>2. QED
    BY <1>2, <1>3, <2>1
<1>4. ASSUME NEW f \in Explored, NEW text \in {"old", "theirs", Blank} \cup Texts(f),
             IF HasLife /\ f = Life[entity].field
             THEN <<now[n][f].text, text>> \in Life[entity].course
             ELSE text # now[n][f].text /\ (text = Blank => Nullable(f)),
             history' = Append(history, [now EXCEPT ![n][f] = Value(text)])
      PROVE  \E rows : /\ Snapshot(rows) /\ history' = Append(history, rows)
                       /\ \A m \in Rows \ {n} : rows[m] = now[m]
  <2>1. f \in Tracked
    BY DEF Explored, Tracked
  <2>2. f \in DOMAIN Form /\ Form[f].required => text # Blank
    <3>1. CASE HasLife /\ f = Life[entity].field
      <4>1. Named(<<now[n][f].text, text>>)
        BY <1>4, <3>1, LifeTexts DEF HasLife, LivesOn
      <4>2. QED
        BY <4>1 DEF Named
    <3>2. CASE ~(HasLife /\ f = Life[entity].field)
      BY <1>4, <3>2 DEF Nullable
    <3>3. QED
      BY <3>1, <3>2
  <2>3. Filled([now[n] EXCEPT ![f] = Value(text)])
    BY <1>1, <2>1, <2>2, FieldWritten
  <2>4. [now EXCEPT ![n][f] = Value(text)] = [now EXCEPT ![n] = [now[n] EXCEPT ![f] = Value(text)]]
    BY DEF Snapshot
  <2>5. QED
    BY <1>2, <1>4, <2>3, <2>4
<1>5. QED
  BY <1>3, <1>4 DEF Others

LEMMA SnapshotCarried ==
  ASSUME UNCHANGED topic, NEW rows, Snapshot(rows)
  PROVE  Snapshot(rows)'
BY DEF Snapshot, Live, Filled, Accepted, Tracked, Form, HasLife, entity

LEMMA Appended ==
  ASSUME HistoryOK, UNCHANGED topic, version' = version + 1,
         NEW rows, Snapshot(rows), history' = Append(history, rows)
  PROVE  /\ HistoryOK'
         /\ \A i \in 1 .. version : i \in 1 .. version' /\ history'[i] = history[i]
         /\ history'[version'] = rows
<1>1. PICK S : history \in Seq(S)
  BY DEF HistoryOK
<1>2. history \in Seq(S \cup {rows}) /\ rows \in S \cup {rows}
  BY <1>1
<1>3. /\ history' \in Seq(S \cup {rows}) /\ Len(history') = version'
      /\ \A i \in 1 .. version : history'[i] = history[i]
      /\ history'[version'] = rows
  BY <1>2 DEF HistoryOK
<1>4. \A i \in 1 .. version : i \in 1 .. version'
  BY DEF HistoryOK
<1>5. ASSUME NEW i \in 1 .. version'
      PROVE  Snapshot(history'[i])
  <2>1. i = version' \/ i \in 1 .. version
    BY DEF HistoryOK
  <2>2. QED
    BY <1>3, <2>1 DEF HistoryOK
<1>6. \A i \in 1 .. version' : Snapshot(history[i])'
  BY <1>5, SnapshotCarried
<1>7. version' \in Nat \ {0}
  BY DEF HistoryOK
<1>8. QED
  BY <1>3, <1>4, <1>6, <1>7 DEF HistoryOK

(* What a step has to show that writes no row, and of one that does. *)
LEMMA DraftCarried ==
  ASSUME HistoryOK, UNCHANGED topic,
         \A i \in 1 .. version : i \in 1 .. version' /\ history'[i] = history[i],
         NEW d
  PROVE  (DraftKept(d) => DraftKept(d)') /\ (Valid(d) => Valid(d)')
<1>1. Tracked' = Tracked /\ Form' = Form
  BY DEF Tracked, Form, HasLife, entity
<1>2. Valid(d) => Valid(d)'
  BY <1>1 DEF Valid
<1>3. ASSUME Faithful(d)
      PROVE  Faithful(d)'
  <2>1. \A f, v : Shown(f, v)' = Shown(f, v)
    BY <1>1 DEF Shown, ReadBack
  <2>2. QED
    BY <1>1, <1>3, <2>1 DEF Faithful
<1>4. DraftKept(d) => DraftKept(d)'
  BY <1>1, <1>3 DEF DraftKept
<1>5. QED
  BY <1>2, <1>4

LEMMA KeptCarried ==
  ASSUME HistoryOK, HistoryOK', UNCHANGED topic,
         \A i \in 1 .. version : i \in 1 .. version' /\ history'[i] = history[i],
         UncommittedOK', dialog' # None => DraftKept(dialog'),
         \A c \in calls' : CallKept(c)
  PROVE  KeptInv'
<1>1. PICK d : d = dialog'
  OBVIOUS
<1>2. DraftKept(d) => DraftKept(d)'
  BY DraftCarried
<1>3. ASSUME NEW c, CallKept(c)
      PROVE  CallKept(c)'
  BY <1>3, DraftCarried DEF CallKept
<1>4. QED
  BY <1>1, <1>2, <1>3 DEF KeptInv

(* A transaction stays prepared while nobody else writes its rows.         *)
LEMMA PreparedCarried ==
  ASSUME HistoryOK, UNCHANGED topic,
         \A i \in 1 .. version : i \in 1 .. version' /\ history'[i] = history[i],
         NEW t, Prepared(t), \A m \in DOMAIN t.rows : now'[m] = now[m]
  PROVE  Prepared(t)'
<1>1. /\ Tracked' = Tracked /\ Form' = Form
      /\ \A row : (Filled(row) => Filled(row)') /\ (Live(row)' => Live(row))
  BY DEF Filled, Accepted, Live, Tracked, Form, HasLife, entity
<1>2. \A m \in DOMAIN t.rows : Live(t.rows[m])' => Filled(t.rows[m])'
  BY <1>1 DEF Prepared
<1>3. ASSUME t.draft.op = "update"
      PROVE  /\ DraftKept(t.draft)' /\ t.draft.row \in DOMAIN t.rows
             /\ Filled(now[t.draft.row])'
             /\ t.rows[t.draft.row] = Applied(t.draft, now[t.draft.row])'
  <2>1. PICK row : row = now[t.draft.row]
    OBVIOUS
  <2>2. /\ DraftKept(t.draft) /\ t.draft.row \in DOMAIN t.rows /\ Filled(row)
        /\ t.rows[t.draft.row] = Applied(t.draft, row)
    BY <1>3, <2>1 DEF Prepared
  <2>3. now'[t.draft.row] = row
    BY <2>1, <2>2
  <2>4. DraftKept(t.draft)'
    BY <2>2, DraftCarried
  <2>5. Applied(t.draft, row)' = Applied(t.draft, row)
    BY <1>1, <1>3 DEF Applied, Stored
  <2>6. QED
    BY <1>1, <2>2, <2>3, <2>4, <2>5
<1>4. QED
  BY <1>2, <1>3 DEF Prepared

LEMMA UncommittedCarried ==
  ASSUME HistoryOK, UncommittedOK, UNCHANGED topic,
         \A i \in 1 .. version : i \in 1 .. version' /\ history'[i] = history[i],
         uncommitted' \subseteq uncommitted,
         \A t \in uncommitted' : \A m \in DOMAIN t.rows : now'[m] = now[m]
  PROVE  UncommittedOK'
<1>1. \A t \in uncommitted' : Prepared(t)'
  BY PreparedCarried DEF UncommittedOK
<1>2. \A t, u \in uncommitted' : t # u => Apart(t, u)'
  BY DEF UncommittedOK, Apart
<1>3. QED
  BY <1>1, <1>2 DEF UncommittedOK

LEMMA HistoryCarried ==
  ASSUME HistoryOK, UNCHANGED <<topic, history, version>>
  PROVE  /\ HistoryOK'
         /\ \A i \in 1 .. version : i \in 1 .. version' /\ history'[i] = history[i]
         /\ UncommittedOK /\ uncommitted' \subseteq uncommitted => UncommittedOK'
<1>1. \A i \in 1 .. version : Snapshot(history[i])'
  BY SnapshotCarried DEF HistoryOK
<1>2. \A i \in 1 .. version : i \in 1 .. version' /\ history'[i] = history[i]
  OBVIOUS
<1>3. now' = now
  BY DEF now
<1>4. QED
  BY <1>1, <1>2, <1>3, UncommittedCarried DEF HistoryOK

--------------------------------------------------------------------------------
(* The dialogs that open show the row of the list they are opened from. *)
LEMMA DraftOpened ==
  ASSUME HistoryOK, NEW op \in {"create", "update", "remove", "review", "generate"},
         NEW n, NEW base, NEW row, \A f \in Tracked : IsValue(row[f]),
         op = "update" => n \in Rows /\ base \in 1 .. version /\ row = history[base][n]
  PROVE  DraftKept(Draft(op, n, base, row))
<1>1. PICK d : d = Draft(op, n, base, row)
  OBVIOUS
<1>2. /\ d.op = op /\ d.row = n /\ d.base = base
      /\ d.inputs = [f \in Tracked |-> d.inputs[f]]
      /\ \A f \in Tracked : d.inputs[f] = Shown(f, row[f])
  BY <1>1 DEF Draft
<1>3. \A f \in Tracked : IsValue(d.inputs[f])
  BY <1>2, ShownIsValue
<1>4. op = "update" => Faithful(d)
  BY <1>2 DEF Faithful
<1>5. QED
  BY <1>1, <1>2, <1>3, <1>4 DEF DraftKept

LEMMA ListedRows ==
  ASSUME KeptInv, CacheInv, NEW k \in Keys, cache[k].seen > 0, NEW n \in Rows,
         Live(history[cache[k].seen][n])
  PROVE  /\ cache[k].seen \in 1 .. version
         /\ \A f \in Tracked : IsValue(history[cache[k].seen][n][f])
<1>1. cache[k].seen \in 1 .. version
  BY CacheInvByKey DEF CacheTypeOK, Forward, Query
<1>2. Filled(history[cache[k].seen][n])
  BY <1>1 DEF KeptInv, HistoryOK, Snapshot
<1>3. QED
  BY <1>1, <1>2 DEF Filled, Accepted

LEMMA DialogKept ==
  ASSUME DeskOK, KeptInv, CacheInv,
         \/ OpenCreate \/ OpenWizard \/ Dismiss
         \/ \E op \in {"update", "remove"}, n \in Rows : OpenRow(op, n)
         \/ \E f \in Explored : \E text : Type(f, text)
  PROVE  KeptInv'
<1>1. UNCHANGED <<topic, history, version, uncommitted, calls>>
  BY DEF OpenCreate, OpenWizard, Dismiss, OpenRow, Type, cacheVars
<1>2. dialog' # None => DraftKept(dialog')
  <2>1. CASE OpenCreate
    <3>1. PICK row : row = [f \in Tracked |-> Value(Blank)]
      OBVIOUS
    <3>2. \A f \in Tracked : IsValue(row[f])
      BY <3>1 DEF IsValue, Value
    <3>3. dialog' = Draft("create", None, version, row)
      BY <2>1, <3>1 DEF OpenCreate
    <3>4. QED
      BY <3>2, <3>3, DraftOpened DEF KeptInv
  <2>2. ASSUME NEW op \in {"update", "remove"}, NEW n \in Rows, OpenRow(op, n)
        PROVE  DraftKept(dialog')
    <3>1. /\ dialog' = Draft(op, n, cache["list"].seen, history[cache["list"].seen][n])
          /\ cache["list"].seen > 0 /\ Live(history[cache["list"].seen][n])
      BY <2>2 DEF OpenRow, Listing, Listed
    <3>2. "list" \in Keys
      BY ConsoleAssumption
    <3>3. QED
      BY <3>1, <3>2, ListedRows, DraftOpened DEF KeptInv
  <2>3. CASE OpenWizard
    <3>1. PICK n, base, row :
            dialog' = Draft("generate", n, base, row)
      BY <2>3 DEF OpenWizard
    <3>2. DraftKept(Draft("generate", n, base, row))
      BY DEF DraftKept, Draft
    <3>3. QED
      BY <3>1, <3>2
  <2>4. ASSUME NEW f \in Explored, NEW text, Type(f, text)
        PROVE  DraftKept(dialog')
    <3>1. /\ DraftKept(dialog) /\ DraftOK(dialog) /\ f \in Tracked
          /\ dialog' = [dialog EXCEPT !.inputs[f] = Value(text), !.touched = @ \cup {f}]
      BY <2>4 DEF Type, KeptInv, DeskOK, Explored, Tracked
    <3>2. PICK inputs : inputs = [dialog.inputs EXCEPT ![f] = Value(text)]
      OBVIOUS
    <3>3. dialog' = [op |-> dialog.op, row |-> dialog.row, base |-> dialog.base,
                     touched |-> dialog.touched \cup {f}, inputs |-> inputs]
      BY <3>1, <3>2 DEF DraftOK
    <3>4. IsValue(Value(text))
      BY DEF IsValue, Value
    <3>5. ASSUME dialog.op \in {"create", "update"}
          PROVE  /\ inputs = [g \in Tracked |-> inputs[g]]
                 /\ \A g \in Tracked : inputs[g] = IF g = f THEN Value(text) ELSE dialog.inputs[g]
      BY <3>1, <3>2, <3>5 DEF DraftKept
    <3>6. QED
      BY <3>1, <3>3, <3>4, <3>5 DEF DraftKept, Faithful
  <2>5. CASE Dismiss
    BY <2>5 DEF Dismiss
  <2>6. QED
    BY <2>1, <2>2, <2>3, <2>4, <2>5
<1>3. QED
  BY <1>1, <1>2, HistoryCarried, KeptCarried DEF KeptInv

(* Requests are sent as their dialog has them, and checked. *)
LEMMA SubmitKept ==
  ASSUME DeskOK, KeptInv, Submit \/ \E op : \E n \in Rows : Press(op, n)
  PROVE  KeptInv'
<1>1. UNCHANGED <<topic, history, version, uncommitted, dialog>>
  BY DEF Submit, Press, cacheVars
<1>2. ASSUME NEW d, DraftKept(d), Valid(d), calls' = calls \cup {Sent(d)}
      PROVE  KeptInv'
  <2>1. CallKept(Sent(d))
    BY <1>2 DEF CallKept, Sent
  <2>2. QED
    BY <1>1, <1>2, <2>1, HistoryCarried, KeptCarried DEF KeptInv
<1>3. CASE Submit
  BY <1>2, <1>3 DEF Submit, KeptInv
<1>4. ASSUME NEW op, NEW n \in Rows, Press(op, n)
      PROVE  KeptInv'
  <2>1. op \in {"create", "remove", "review"} /\ op \notin Dialogs[entity]
    BY <1>4 DEF Press
  <2>2. PICK d : d = [op |-> op, row |-> n, base |-> version, touched |-> {},
                      inputs |-> [f \in Tracked |-> Value(Blank)]]
    OBVIOUS
  <2>3. DraftKept(d)
    BY <2>1, <2>2 DEF DraftKept, IsValue, Value
  <2>4. Valid(d)
    <3>1. CASE op = "create"
      BY <2>1, <3>1, FormTreated DEF Valid
    <3>2. CASE op # "create"
      BY <2>1, <2>2, <3>2 DEF Valid
    <3>3. QED
      BY <3>1, <3>2
  <2>5. calls' = calls \cup {Sent(d)}
    BY <1>4, <2>2 DEF Press
  <2>6. QED
    BY <1>2, <2>3, <2>4, <2>5
<1>5. QED
  BY <1>3, <1>4

(* What is carried out for a request is prepared, apart from what is not   *)
(* yet committed.                                                          *)
LEMMA ReceivedFlushes ==
  ASSUME DeskOK, KeptInv, NEW c \in calls, NEW n \in Rows, Received(c, n),
         NEW t, t = [draft |-> c.draft, rows |-> Flushed(c.draft, n)]
  PROVE  /\ Prepared(t)
         /\ \A u \in uncommitted : Apart(t, u) /\ Apart(u, t)
<1>1. /\ DraftKept(c.draft) /\ Valid(c.draft)
      /\ c.op = c.draft.op /\ c.row = c.draft.row
  BY DEF Received, KeptInv, CallKept, DeskOK, CallOK
<1>2. Snapshot(now)
  BY DEF KeptInv, HistoryOK, now
<1>3. PICK rows : rows = Flushed(c.draft, n)
  OBVIOUS
<1>4. /\ DOMAIN rows = Written(c.op, n) /\ DOMAIN rows \subseteq Rows /\ n \in DOMAIN rows
      /\ rows[n] = Applied(c.draft, now[n])
      /\ \A m \in DOMAIN rows : Live(rows[m]) => Filled(rows[m])
  BY <1>1, <1>2, <1>3, FlushedFilled DEF Received
<1>5. ASSUME c.draft.op = "update"
      PROVE  n = c.draft.row /\ Filled(now[n])
  BY <1>1, <1>2, <1>5 DEF Received, Accepts, Snapshot
<1>6. t.rows = rows /\ t.draft = c.draft
  BY <1>3
<1>7. Prepared(t)
  BY <1>1, <1>4, <1>5, <1>6 DEF Prepared
<1>8. ASSUME NEW u \in uncommitted
      PROVE  Apart(t, u) /\ Apart(u, t)
  <2>1. DOMAIN u.rows \subseteq Held
    BY DEF Held
  <2>2. DOMAIN t.rows \cap Held = {}
    BY <1>4, <1>6 DEF Received
  <2>3. QED
    BY <2>1, <2>2 DEF Apart
<1>9. QED
  BY <1>7, <1>8

(* Rows that no other transaction has written become the next version.     *)
LEMMA RowsCommitted ==
  ASSUME KeptInv, NEW t, \A m \in DOMAIN t.rows : Live(t.rows[m]) => Filled(t.rows[m]),
         UNCHANGED topic, version' = version + 1, history' = Append(history, With(t.rows)),
         uncommitted' \subseteq uncommitted, \A u \in uncommitted' : Apart(t, u)
  PROVE  /\ HistoryOK' /\ UncommittedOK'
         /\ \A i \in 1 .. version : i \in 1 .. version' /\ history'[i] = history[i]
         /\ \A m \in Rows \cap DOMAIN t.rows : history'[version'][m] = t.rows[m]
<1>1. Snapshot(now)
  BY DEF KeptInv, HistoryOK, now
<1>2. PICK rows : rows = With(t.rows)
  OBVIOUS
<1>3. /\ Snapshot(rows)
      /\ \A m \in Rows : rows[m] = IF m \in DOMAIN t.rows THEN t.rows[m] ELSE now[m]
  BY <1>1, <1>2, WithSnapshot
<1>4. /\ HistoryOK' /\ history'[version'] = rows
      /\ \A i \in 1 .. version : i \in 1 .. version' /\ history'[i] = history[i]
  BY <1>2, <1>3, Appended DEF KeptInv
<1>5. now' = rows
  BY <1>4 DEF now
<1>6. ASSUME NEW u \in uncommitted', NEW m \in DOMAIN u.rows
      PROVE  now'[m] = now[m]
  <2>1. m \in Rows /\ m \notin DOMAIN t.rows
    BY <1>6 DEF KeptInv, UncommittedOK, Prepared, Apart
  <2>2. QED
    BY <1>3, <1>5, <2>1
<1>7. UncommittedOK'
  BY <1>4, <1>6, UncommittedCarried DEF KeptInv
<1>8. QED
  BY <1>3, <1>4, <1>7

LEMMA HandleKept ==
  ASSUME DeskOK, KeptInv, NEW c \in calls, Handle(c)
  PROVE  /\ HistoryOK' /\ UncommittedOK'
         /\ \A i \in 1 .. version : i \in 1 .. version' /\ history'[i] = history[i]
<1>1. PICK n \in Rows : Received(c, n) /\ history' = Append(history, With(Flushed(c.draft, n)))
  BY DEF Handle
<1>2. PICK t : t = [draft |-> c.draft, rows |-> Flushed(c.draft, n)]
  OBVIOUS
<1>3. Prepared(t) /\ \A u \in uncommitted : Apart(t, u)
  BY <1>1, <1>2, ReceivedFlushes
<1>4. /\ UNCHANGED <<topic, uncommitted>> /\ version' = version + 1
      /\ history' = Append(history, With(t.rows))
  BY <1>1, <1>2 DEF Handle, Write
<1>5. QED
  BY <1>3, <1>4, RowsCommitted DEF Prepared

LEMMA CommitKept ==
  ASSUME KeptInv, NEW t \in uncommitted, Commit(t)
  PROVE  /\ HistoryOK' /\ UncommittedOK'
         /\ \A i \in 1 .. version : i \in 1 .. version' /\ history'[i] = history[i]
         /\ \A m \in DOMAIN t.rows : history'[version'][m] = t.rows[m]
<1>1. Prepared(t) /\ \A u \in uncommitted : u # t => Apart(t, u)
  BY DEF KeptInv, UncommittedOK
<1>2. /\ UNCHANGED topic /\ version' = version + 1
      /\ history' = Append(history, With(t.rows)) /\ uncommitted' = uncommitted \ {t}
  BY DEF Commit, Write
<1>3. QED
  BY <1>1, <1>2, RowsCommitted DEF Prepared

LEMMA AnswerPrepares ==
  ASSUME DeskOK, KeptInv, NEW c \in calls, Answer(c)
  PROVE  /\ HistoryOK' /\ UncommittedOK'
         /\ \A i \in 1 .. version : i \in 1 .. version' /\ history'[i] = history[i]
<1>1. PICK n \in Rows :
        /\ Received(c, n)
        /\ uncommitted' = uncommitted \cup {[draft |-> c.draft, rows |-> Flushed(c.draft, n)]}
  BY DEF Answer
<1>2. PICK t : t = [draft |-> c.draft, rows |-> Flushed(c.draft, n)]
  OBVIOUS
<1>3. Prepared(t) /\ \A u \in uncommitted : Apart(t, u) /\ Apart(u, t)
  BY <1>1, <1>2, ReceivedFlushes
<1>4. UNCHANGED <<topic, history, version>>
  BY DEF Answer, cacheVars
<1>5. /\ HistoryOK'
      /\ \A i \in 1 .. version : i \in 1 .. version' /\ history'[i] = history[i]
  BY <1>4, HistoryCarried DEF KeptInv
<1>6. now' = now
  BY <1>4 DEF now
<1>7. \A u \in uncommitted' : Prepared(u)'
  <2>1. \A u \in uncommitted' : Prepared(u)
    BY <1>1, <1>2, <1>3 DEF KeptInv, UncommittedOK
  <2>2. QED
    BY <1>4, <1>5, <1>6, <2>1, PreparedCarried DEF KeptInv
<1>8. \A u, v \in uncommitted' : u # v => Apart(u, v)'
  BY <1>1, <1>2, <1>3 DEF KeptInv, UncommittedOK, Apart
<1>9. QED
  BY <1>5, <1>7, <1>8 DEF UncommittedOK

LEMMA AnswerKept ==
  ASSUME DeskOK, KeptInv, NEW c \in calls,
         Handle(c) \/ Answer(c) \/ Refuse(c) \/ Succeed(c) \/ GiveUp(c)
  PROVE  KeptInv'
<1>1. /\ UNCHANGED topic
      /\ dialog' # None => dialog' = dialog
  BY DEF Handle, Answer, Refuse, Succeed, GiveUp
<1>2. /\ HistoryOK' /\ UncommittedOK'
      /\ \A i \in 1 .. version : i \in 1 .. version' /\ history'[i] = history[i]
  <2>1. CASE Handle(c)
    BY <2>1, HandleKept
  <2>2. CASE Answer(c)
    BY <2>2, AnswerPrepares
  <2>3. CASE Refuse(c) \/ Succeed(c) \/ GiveUp(c)
    <3>1. UNCHANGED <<topic, history, version, uncommitted>>
      BY <2>3 DEF Refuse, Succeed, GiveUp, Acknowledge, cacheVars
    <3>2. QED
      BY <3>1, HistoryCarried DEF KeptInv
  <2>4. QED
    BY <2>1, <2>2, <2>3
<1>3. \A b \in calls' : CallKept(b)
  <2>1. CASE Handle(c) \/ Answer(c) \/ Refuse(c)
    <3>1. PICK b : calls' = (calls \ {c}) \cup {b} /\ b.state # "sent"
      BY <2>1, AnswerTells
    <3>2. CallKept(b)
      BY <3>1 DEF CallKept
    <3>3. QED
      BY <3>1, <3>2 DEF KeptInv
  <2>2. CASE Succeed(c) \/ GiveUp(c)
    BY <2>2 DEF Succeed, GiveUp, KeptInv
  <2>3. QED
    BY <2>1, <2>2
<1>4. QED
  BY <1>1, <1>2, <1>3, KeptCarried DEF KeptInv

(* What is answered is committed in the end, or lost. *)
LEMMA EndKept ==
  ASSUME KeptInv, NEW t \in uncommitted, Commit(t) \/ Lose(t)
  PROVE  KeptInv'
<1>1. UNCHANGED <<topic, dialog, calls>>
  BY DEF Commit, Lose
<1>2. CASE Commit(t)
  BY <1>1, <1>2, CommitKept, KeptCarried DEF KeptInv
<1>3. CASE Lose(t)
  <2>1. UNCHANGED <<history, version>> /\ uncommitted' \subseteq uncommitted
    BY <1>3 DEF Lose, cacheVars
  <2>2. QED
    BY <1>1, <2>1, HistoryCarried, KeptCarried DEF KeptInv
<1>4. QED
  BY <1>2, <1>3

LEMMA LeaveKept ==
  ASSUME DeskOK, KeptInv, UNCHANGED <<topic, history, version, uncommitted>>, dialog' = None,
         NEW by, calls' = Left(by)
  PROVE  KeptInv'
<1>1. ASSUME NEW c \in calls, NEW b, b = [c EXCEPT !.by = IF c.by = "page" THEN by ELSE @]
      PROVE  CallKept(b)
  <2>1. CallOK(c) /\ CallKept(c)
    BY DEF DeskOK, KeptInv
  <2>2. b.draft = c.draft /\ b.state = c.state
    BY <1>1, <2>1 DEF CallOK
  <2>3. QED
    BY <2>1, <2>2 DEF CallKept
<1>2. \A b \in calls' : CallKept(b)
  BY <1>1 DEF Left
<1>3. QED
  BY <1>2, HistoryCarried, KeptCarried DEF KeptInv

(* Steps that leave the desk alone. *)
LEMMA DeskUntouched ==
  ASSUME KeptInv, UNCHANGED <<topic, history, version, uncommitted, dialog, calls>>
  PROVE  KeptInv'
BY HistoryCarried, KeptCarried DEF KeptInv

LEMMA OthersKept ==
  ASSUME KeptInv, NEW n \in Rows, Others(n)
  PROVE  KeptInv'
<1>1. UNCHANGED <<topic, uncommitted, dialog, calls>> /\ version' = version + 1
  BY DEF Others, Write
<1>2. Snapshot(now)
  BY DEF KeptInv, HistoryOK, now
<1>3. PICK rows : /\ Snapshot(rows) /\ history' = Append(history, rows)
                  /\ \A m \in Rows \ {n} : rows[m] = now[m]
  BY <1>2, OthersSnapshot
<1>4. /\ HistoryOK' /\ history'[version'] = rows
      /\ \A i \in 1 .. version : i \in 1 .. version' /\ history'[i] = history[i]
  BY <1>1, <1>3, Appended DEF KeptInv
<1>5. ASSUME NEW t \in uncommitted, NEW m \in DOMAIN t.rows
      PROVE  now'[m] = now[m]
  <2>1. m \in Rows /\ m # n
    BY DEF Others, Held, KeptInv, UncommittedOK, Prepared
  <2>2. now' = rows
    BY <1>4 DEF now
  <2>3. QED
    BY <1>3, <2>1, <2>2
<1>6. UncommittedOK'
  BY <1>1, <1>4, <1>5, UncommittedCarried DEF KeptInv
<1>7. QED
  BY <1>1, <1>4, <1>6, KeptCarried DEF KeptInv

(* Navigation, the session and the cache write no row. *)
LEMMA RestStep ==
  ASSUME Navigate \/ Session \/ (\E k \in Keys : Fetching(k)) \/ (CacheNext /\ UNCHANGED consoleVars)
  PROVE  /\ UNCHANGED <<topic, history, version, uncommitted>>
         /\ \/ UNCHANGED <<dialog, calls>>
            \/ dialog' = None /\ \E by : calls' = Left(by)
<1>1. CASE Navigate
  BY <1>1 DEF Navigate, Open, Back, Redirect, LoadPage, GoTo, Show, Load
<1>2. CASE Session
  BY <1>2 DEF Session, SignIn, SignOut, Elsewhere, GoTo, Show, cacheVars
<1>3. CASE \E k \in Keys : Fetching(k)
  BY <1>3 DEF Fetching, Serve, Deliver, FailFetch, consoleVars
<1>4. CASE CacheNext /\ UNCHANGED consoleVars
  BY <1>4 DEF CacheNext, Serve, Deliver, FailFetch, Expire, Poll, Collect, Refocus, consoleVars
<1>5. QED
  BY <1>1, <1>2, <1>3, <1>4

LEMMA KeptStep == DeskOK /\ CacheInv /\ KeptInv /\ [Next]_vars => KeptInv'
<1> SUFFICES ASSUME DeskOK, CacheInv, KeptInv, [Next]_vars
             PROVE  KeptInv'
  OBVIOUS
<1>1. CASE UNCHANGED vars
  BY <1>1, DeskUntouched DEF vars, cacheVars, consoleVars
<1>2. CASE Work
  <2>1. ASSUME \/ OpenCreate \/ OpenWizard \/ Dismiss
               \/ \E op \in {"update", "remove"}, n \in Rows : OpenRow(op, n)
               \/ \E f \in Explored : \E text : Type(f, text)
        PROVE  KeptInv'
    BY <2>1, DialogKept
  <2>2. ASSUME Submit \/ \E op : \E n \in Rows : Press(op, n)
        PROVE  KeptInv'
    BY <2>2, SubmitKept
  <2>3. ASSUME NEW c \in calls,
               Handle(c) \/ Answer(c) \/ Refuse(c) \/ Succeed(c) \/ GiveUp(c)
        PROVE  KeptInv'
    BY <2>3, AnswerKept
  <2>4. ASSUME NEW t \in uncommitted, Commit(t) \/ Lose(t)
        PROVE  KeptInv'
    BY <2>4, EndKept
  <2>5. ASSUME NEW n \in Rows, Others(n)
        PROVE  KeptInv'
    BY <2>5, OthersKept
  <2>6. QED
    BY <1>2, <2>1, <2>2, <2>3, <2>4, <2>5 DEF Work
<1>3. CASE Navigate \/ Session \/ (\E k \in Keys : Fetching(k)) \/ (CacheNext /\ UNCHANGED consoleVars)
  BY <1>3, RestStep, LeaveKept, DeskUntouched
<1>4. QED
  BY <1>1, <1>2, <1>3 DEF Next

(* A transaction that goes with a new version is the one committed. *)
LEMMA OnlyCommitted ==
  ASSUME KeptInv, [Next]_vars, NEW t \in uncommitted, t \notin uncommitted',
         version' > version
  PROVE  Commit(t)
<1>1. version' # version /\ uncommitted' # uncommitted
  BY DEF KeptInv, HistoryOK
<1>2. Work
  BY <1>1, RestStep DEF Next, vars, cacheVars
<1>3. PICK u \in uncommitted : Commit(u)
  <2>1. ASSUME NEW c, Answer(c)
        PROVE  FALSE
    BY <2>1, <1>1 DEF Answer, cacheVars
  <2>2. ASSUME NEW u, Lose(u)
        PROVE  FALSE
    BY <2>2, <1>1 DEF Lose, cacheVars
  <2>3. QED
    BY <1>1, <1>2, <2>1, <2>2
       DEF Work, OpenCreate, OpenWizard, Dismiss, Submit, OpenRow, Type, Press, Handle, Refuse,
           Succeed, GiveUp, Others
<1>4. \A v \in uncommitted : Commit(v) => (t \notin uncommitted' => t = v)
  BY DEF Commit
<1>5. QED
  BY <1>3, <1>4

LEMMA UntouchedStep ==
  ASSUME DeskOK, KeptInv, [Next]_vars, NEW t \in uncommitted, NEW d, d = t.draft,
         d.op = "update", t \notin uncommitted', version' > version,
         history[d.base][d.row] = now[d.row],
         NEW f \in Tracked \ d.touched
  PROVE  history'[version'][d.row][f] \in {now[d.row][f], Redrawn(f, now[d.row][f])}
<1>1. Prepared(t) /\ Commit(t)
  BY OnlyCommitted DEF KeptInv, UncommittedOK
<1>2. PICK row : row = now[d.row]
  OBVIOUS
<1>3. /\ DraftKept(d) /\ d.row \in DOMAIN t.rows /\ Filled(row)
      /\ t.rows[d.row] = Applied(d, row)
  BY <1>1, <1>2 DEF Prepared
<1>4. history'[version'][d.row] = Applied(d, row)
  BY <1>1, <1>3, CommitKept
<1>5. d.inputs[f] = Shown(f, row[f])
  BY <1>2, <1>3 DEF DraftKept, Faithful
<1>6. history'[version'][d.row][f] = Stored("update", f, Shown(f, row[f]), row[f])
  BY <1>4, <1>5 DEF Applied
<1>7. Accepted(f, row[f])
  BY <1>3 DEF Filled
<1>8. QED
  BY <1>2, <1>6, <1>7, ShownBack

(* The rows there are at first are filled. *)
LEMMA KeptInit == Init => KeptInv
<1> SUFFICES ASSUME Init
             PROVE  KeptInv
  OBVIOUS
<1>1. PICK row \in [Tracked -> UNION {ValuesOf(f) : f \in Tracked}], n \in Opened :
        /\ \A f \in Tracked : row[f] \in ValuesOf(f)
        /\ history = <<[m \in Rows |-> IF m = n THEN row ELSE Absent]>>
  BY DEF Init
<1>2. PICK rows : rows = [m \in Rows |-> IF m = n THEN row ELSE Absent]
  OBVIOUS
<1>3. Filled(row)
  <2>1. ASSUME NEW f \in Tracked
        PROVE  Accepted(f, row[f])
    <3>1. ASSUME NEW text, NEW v, v \in {Value(text), [Value(text) EXCEPT !.seconds = TRUE]}
          PROVE  IsValue(v) /\ v.text = text
      BY <3>1 DEF Value, IsValue
    <3>2. PICK text \in Texts(f) : row[f] \in {Value(text), [Value(text) EXCEPT !.seconds = TRUE]}
      BY <1>1 DEF ValuesOf
    <3>3. IsValue(row[f]) /\ row[f].text = text
      BY <3>1, <3>2
    <3>4. QED
      BY <3>2, <3>3, TextsFilled DEF Accepted
  <2>2. QED
    BY <2>1 DEF Filled
<1>4. Snapshot(rows)
  BY <1>2, <1>3 DEF Snapshot, Live
<1>5. history = <<rows>> /\ version = 1
  BY <1>1, <1>2 DEF Init, CacheInit
<1>6. history \in Seq({rows}) /\ Len(history) = 1 /\ history[1] = rows
  BY <1>5
<1>7. HistoryOK
  <2>1. \E S : history \in Seq(S)
    BY <1>6
  <2>2. \A i \in 1 .. version : history[i] = rows
    BY <1>5, <1>6
  <2>3. QED
    BY <1>4, <1>5, <1>6, <2>1, <2>2 DEF HistoryOK
<1>8. QED
  BY <1>7 DEF KeptInv, UncommittedOK, Init

(* An edit leaves a field its user has not touched as it was, if nobody    *)
(* has written the row since the list it was opened from was read; or it   *)
(* redraws an instant, as local time without seconds, or gives a custom    *)
(* plan the year its form starts with.  Default values of the forms and    *)
(* what they leave out of a request change nothing else, in any time zone. *)
THEOREM ConsoleKeepsUntouched == Spec => UntouchedKept
<1>1. Spec => []DeskOK
  <2>1. Init => DeskOK
    BY DEF Init, DeskOK, At
  <2>2. QED
    BY <2>1, DeskStep, PTL DEF Spec
<1>2. Spec => []CacheInv
  BY ConsoleIsCache, CacheInvariant, PTL
<1>3. Spec => []KeptInv
  BY <1>1, <1>2, KeptInit, KeptStep, PTL DEF Spec
<1>4. ASSUME DeskOK, KeptInv, [Next]_vars
      PROVE  [\A t \in uncommitted :
                LET d == t.draft
                IN  (d.op = "update" /\ t \notin uncommitted' /\ version' > version
                       /\ history[d.base][d.row] = now[d.row]) =>
                      \A f \in Tracked \ d.touched :
                        history'[version'][d.row][f]
                          \in {now[d.row][f], Redrawn(f, now[d.row][f])}]_vars
  BY <1>4, UntouchedStep
<1>5. QED
  BY <1>1, <1>3, <1>4, PTL DEF Spec, UntouchedKept
================================================================================
