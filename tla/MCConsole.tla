-------------------------------- MODULE MCConsole --------------------------------
(***************************************************************************)
(* Console on two rows, of which one page is opened.  A topic explores one *)
(* entity: the cache topics with failing, expiring and polled reads, the   *)
(* page topics with its list and the pages of its rows, the session topics *)
(* with two users who sign in and out, the overlap topics with two         *)
(* requests under way, the form topics with one field of its form each.    *)
(***************************************************************************)
EXTENDS Console

CONSTANTS r1, r2, owner, support

MCRows == {r1, r2}
MCOpened == {r1}
MCKeys == {"list", "stats", "manifest"} \cup MCOpened
MCPolled == {"stats"}
MCRoleOf == (owner :> "OWNER") @@ (support :> "SUPPORT")

Topic(e, pages) ==
  [entity |-> e, field |-> None, ops |-> {"create", "update", "remove", "review"}, pages |-> pages, cache |-> FALSE, sessions |-> FALSE,
   starts |-> {owner}, zone |-> 0, versions |-> 2, requests |-> 1]

CacheTopics ==
  {[t EXCEPT !.cache = TRUE] :
     t \in {Topic("devices", {"list", "detail"}),
            [Topic("organizations", {"home", "list"}) EXCEPT !.ops = {"update"}]}}

PageTopics ==
  {Topic("trialTokens", {"list"})} \cup
  {Topic(e, {"list", "detail"}) : e \in {"products", "licenses", "releases", "requests"}} \cup
  {[Topic(e, {"list", "detail"}) EXCEPT !.ops = {"update", "remove"}] :
     e \in {"subscriptions", "deployments"}}

SessionTopics ==
  {[t EXCEPT !.sessions = TRUE, !.starts = {Nobody, support}] :
     t \in {Topic("devices", {"home", "list"})}
           \cup {[Topic(e, {"home", "list"}) EXCEPT !.versions = 1] : e \in {"users", "plans"}}}

FormTopics ==
  {[Topic(ef[1], {}) EXCEPT !.field = ef[2], !.ops = {"update"}, !.zone = ef[3]] :
     ef \in {<<"subscriptions", "notes", 0>>, <<"subscriptions", "expires_at", 0>>,
             <<"subscriptions", "expires_at", 1>>, <<"users", "role", 0>>,
             <<"plans", "description", 0>>, <<"plans", "duration_months", 0>>,
             <<"capabilities", "is_active", 0>>, <<"products", "description", 0>>,
             <<"organizations", "name", 0>>, <<"deployments", "environment", 0>>}}

OverlapTopics ==
  {[Topic("organizations", {}) EXCEPT !.ops = {"create", "update"},
                                      !.requests = 2, !.versions = 3]}

MCTopics ==
  CacheTopics \cup PageTopics \cup SessionTopics \cup FormTopics \cup OverlapTopics
================================================================================
