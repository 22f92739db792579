--------------------------- MODULE TrialTokensProofs ---------------------------
(***************************************************************************)
(* A token is issued once for any number of months and handlers, however   *)
(* they overlap; until they do at most one token is active and the         *)
(* manifest follows the database.                                          *)
(***************************************************************************)
EXTENDS MCTrialTokens, FiniteSetTheorems, WellFoundedInduction, TLAPS

Steps == {"idle", "find", "load", "deactivate", "insert", "read", "get", "put", "commit"}

Tokens == [active : BOOLEAN, created : 0 .. starts]

Sessions ==
  [step : Steps, op : {None, "generate", "revoke"}, month : Months \cup {None},
   old : Months \cup {None}, start : Nat, content : Months \cup {None}, sha : Nat,
   pushed : BOOLEAN]

TypeOK ==
  /\ tokens \in [Months -> Tokens]
  /\ manifest \in Months \cup {None}
  /\ sha \in Nat /\ starts \in Nat /\ now \in Nat
  /\ sessions \in [Workers -> Sessions]

(* A handler at work has an operation, a month and its place in time.      *)
Sound(s) ==
  s.step # "idle" =>
    /\ s.op \in {"generate", "revoke"} /\ s.month \in Months /\ s.start \in 1 .. starts
    /\ s.step \in {"find", "insert"} => s.op = "generate"
    /\ s.step = "load" => s.op = "revoke"

(* A row that a handler has inserted is not there before it commits, and no *)
(* other handler has inserted it.                                          *)
Fresh(s) == \A m \in Inserted(s) : tokens[m].created = 0

Unshared ==
  \A v, w \in Workers :
    v # w => Inserted(sessions[v]) \cap Inserted(sessions[w]) = {}

TokenInv ==
  /\ TypeOK
  /\ \A w \in Workers : Sound(sessions[w]) /\ Fresh(sessions[w])
  /\ Unshared
--------------------------------------------------------------------------------
(* A bounded set of numbers has a greatest one. *)
NatOrder == OpToRel(<, Nat)

LEMMA NatOrderMeans == \A m, n \in Nat : <<m, n>> \in NatOrder <=> m < n
BY DEF NatOrder, OpToRel

LEMMA NatMin ==
  ASSUME NEW T \in SUBSET Nat, T # {}
  PROVE  \E x \in T : \A y \in T : x <= y
<1>1. IsWellFoundedOn(NatOrder, Nat)
  BY NatLessThanWellFounded DEF NatOrder
<1>2. PICK x \in T : \A y \in T : ~(<<y, x>> \in NatOrder)
  BY <1>1, WFMin, Zenon
<1>3. ASSUME NEW y \in T
      PROVE  x <= y
  <2>1. x \in Nat /\ y \in Nat
    OBVIOUS
  <2>2. ~(y < x)
    BY <1>2, <2>1, NatOrderMeans
  <2>3. QED
    BY <2>1, <2>2
<1>4. QED
  BY <1>3

LEMMA NatMax ==
  ASSUME NEW T \in SUBSET Nat, T # {}, NEW n \in Nat, \A x \in T : x <= n
  PROVE  \E x \in T : \A y \in T : y <= x
<1>1. PICK D : D = {n - x : x \in T}
  OBVIOUS
<1>2. D \in SUBSET Nat /\ D # {}
  <2>1. \A x \in T : n - x \in Nat
    OBVIOUS
  <2>2. \E x \in T : n - x \in D
    BY <1>1
  <2>3. QED
    BY <1>1, <2>1, <2>2
<1>3. PICK d \in D : \A e \in D : d <= e
  BY <1>2, NatMin
<1>4. PICK x \in T : d = n - x
  BY <1>1
<1>5. ASSUME NEW y \in T
      PROVE  y <= x
  <2>1. n - y \in D
    BY <1>1
  <2>2. n - x <= n - y
    BY <1>3, <1>4, <2>1
  <2>3. x \in Nat /\ y \in Nat
    OBVIOUS
  <2>4. QED
    BY <2>2, <2>3
<1>6. QED
  BY <1>5

(* get_active_token returns an active token when there is one. *)
LEMMA ActiveTokenIsActive ==
  ASSUME starts \in Nat, NEW table \in [Months -> Tokens], ActiveTokens(table) # {}
  PROVE  ActiveToken(table) \in ActiveTokens(table)
<1>1. PICK T : T = {table[m].created : m \in ActiveTokens(table)}
  OBVIOUS
<1>2. \A m \in ActiveTokens(table) : table[m].created \in 0 .. starts
  BY DEF Tokens, ActiveTokens
<1>3. T \in SUBSET Nat /\ T # {} /\ (\A x \in T : x <= starts) /\ starts \in Nat
  BY <1>1, <1>2
<1>4. PICK x \in T : \A y \in T : y <= x
  BY <1>3, NatMax
<1>5. PICK m \in ActiveTokens(table) : table[m].created = x
  BY <1>1
<1>6. \A a \in ActiveTokens(table) : table[a].created <= table[m].created
  BY <1>1, <1>4, <1>5
<1>7. QED
  BY <1>6 DEF ActiveToken

LEMMA ActiveTokenType ==
  ASSUME starts \in Nat, NEW table \in [Months -> Tokens]
  PROVE  ActiveToken(table) \in Months \cup {None}
<1>1. CASE ActiveTokens(table) = {}
  BY <1>1 DEF ActiveToken
<1>2. CASE ActiveTokens(table) # {}
  BY <1>2, ActiveTokenIsActive DEF ActiveTokens
<1>3. QED
  BY <1>1, <1>2

(* A handler sees tokens: its own is as old as its transaction. *)
LEMMA ViewType ==
  ASSUME TypeOK, NEW s \in Sessions, s.op = "generate" => s.start \in 1 .. starts
  PROVE  View(s) \in [Months -> Tokens]
<1>1. ASSUME NEW m \in Months
      PROVE  View(s)[m] \in Tokens
  <2>1. tokens[m] \in Tokens /\ [tokens[m] EXCEPT !.active = FALSE] \in Tokens
    BY DEF TypeOK, Tokens
  <2>2. CASE s.op = "generate" /\ m = s.month
    <3>1. s.start \in 0 .. starts
      BY <2>2 DEF TypeOK
    <3>2. [active |-> TRUE, created |-> s.start] \in Tokens
      BY <3>1 DEF Tokens
    <3>3. QED
      BY <2>2, <3>2 DEF View
  <2>3. CASE ~(s.op = "generate" /\ m = s.month)
    BY <2>1, <2>3 DEF View
  <2>4. QED
    BY <2>2, <2>3
<1>2. QED
  BY <1>1 DEF View

(* What a commit does to one token. *)
LEMMA ViewOf ==
  ASSUME TypeOK, NEW s, NEW m \in Months
  PROVE  /\ s.op = "generate" /\ m = s.month =>
              View(s)[m].active /\ View(s)[m].created = s.start
         /\ ~(s.op = "generate" /\ m = s.month) =>
              /\ View(s)[m].created = tokens[m].created
              /\ View(s)[m].active => tokens[m].active /\ m # s.old
<1>1. CASE s.op = "generate" /\ m = s.month
  BY <1>1 DEF View
<1>2. CASE ~(s.op = "generate" /\ m = s.month) /\ m = s.old
  <2>1. View(s)[m] = [tokens[m] EXCEPT !.active = FALSE] /\ tokens[m] \in Tokens
    BY <1>2 DEF View, TypeOK
  <2>2. View(s)[m].active = FALSE /\ View(s)[m].created = tokens[m].created
    BY <2>1 DEF Tokens
  <2>3. QED
    BY <1>2, <2>2
<1>3. CASE ~(s.op = "generate" /\ m = s.month) /\ m # s.old
  BY <1>3 DEF View
<1>4. QED
  BY <1>1, <1>2, <1>3
--------------------------------------------------------------------------------
LEMMA IdleSession == Idle \in Sessions /\ Sound(Idle) /\ Inserted(Idle) = {}
BY DEF Idle, Sessions, Steps, Sound, Inserted

(* A step of one handler that changes no token and inserts no row. *)
LEMMA MoveKeeps ==
  ASSUME TokenInv, NEW w \in Workers, NEW n \in Sessions, Sound(n),
         Inserted(n) \subseteq Inserted(sessions[w]), Move(w, n),
         UNCHANGED <<tokens, starts, now>>, manifest' \in Months \cup {None}, sha' \in Nat
  PROVE  TokenInv'
<1>1. sessions' = [sessions EXCEPT ![w] = n] /\ sessions' \in [Workers -> Sessions]
  BY DEF Move, TokenInv, TypeOK
<1>2. TypeOK'
  BY <1>1 DEF TokenInv, TypeOK, Tokens
<1>3. sessions'[w] = n /\ \A v \in Workers : v # w => sessions'[v] = sessions[v]
  BY <1>1 DEF TokenInv, TypeOK
<1>4. \A v \in Workers : Sound(sessions'[v]) /\ Inserted(sessions'[v]) \subseteq Inserted(sessions[v])
  BY <1>3 DEF TokenInv
<1>5. Unshared'
  BY <1>4 DEF TokenInv, Unshared
<1>6. \A v \in Workers : Fresh(sessions[v])'
  BY <1>4 DEF TokenInv, Fresh
<1>7. \A v \in Workers : Sound(sessions[v])'
  BY <1>4 DEF Sound
<1>8. QED
  BY <1>2, <1>5, <1>6, <1>7 DEF TokenInv

LEMMA TokenStep == TokenInv /\ [Next]_vars => TokenInv'
<1> SUFFICES ASSUME TokenInv, [Next]_vars
             PROVE  TokenInv'
  OBVIOUS
<1>1. ASSUME NEW w \in Workers
      PROVE  sessions[w] \in Sessions /\ Sound(sessions[w])
  BY DEF TokenInv, TypeOK
<1>2. manifest \in Months \cup {None} /\ sha \in Nat /\ starts \in Nat /\ now \in Nat
  BY DEF TokenInv, TypeOK
<1>3. CASE UNCHANGED vars
  BY <1>3 DEF vars, TokenInv, TypeOK, Tokens, Sound, Fresh, Unshared
<1>4. CASE NextMonth
  BY <1>2, <1>4 DEF NextMonth, TokenInv, TypeOK, Tokens, Sound, Fresh, Unshared
<1>5. ASSUME NEW w \in Workers, NEW m \in Months, NEW op \in {"generate", "revoke"},
             NEW step \in {"find", "load"}, op = "generate" <=> step = "find",
             Begin(w, op, m, step)
      PROVE  TokenInv'
  <2>1. PICK n : n = [Idle EXCEPT !.step = step, !.op = op, !.month = m, !.start = starts + 1]
    OBVIOUS
  <2>2. /\ n \in Sessions /\ n.step = step /\ n.op = op /\ n.month = m
        /\ n.start = starts + 1 /\ Inserted(n) = {}
    <3>1. /\ n.step = step /\ n.op = op /\ n.month = m /\ n.start = starts + 1
          /\ step \in Steps /\ op \in {None, "generate", "revoke"}
          /\ m \in Months \cup {None} /\ starts + 1 \in Nat
      BY <1>2, <1>5, <2>1 DEF Idle, Steps
    <3>2. n \in Sessions
      BY <2>1, <3>1, IdleSession DEF Sessions
    <3>3. QED
      BY <1>5, <3>1, <3>2 DEF Inserted
  <2>3. sessions' = [sessions EXCEPT ![w] = n]
    BY <1>5, <2>1 DEF Begin
  <2>4. UNCHANGED <<tokens, manifest, sha, now>> /\ starts' = starts + 1
    BY <1>5 DEF Begin
  <2>5. sessions'[w] = n /\ \A v \in Workers : v # w => sessions'[v] = sessions[v]
    BY <2>3 DEF TokenInv, TypeOK
  <2>6. Sound(n)' /\ \A v \in Workers : Sound(sessions[v])'
    <3>1. Sound(n)'
      <4>1. starts + 1 \in 1 .. starts'
        BY <1>2, <2>4
      <4>2. /\ n.op \in {"generate", "revoke"} /\ n.month \in Months /\ n.start \in 1 .. starts'
            /\ n.step = step /\ n.op = op
        BY <2>2, <4>1
      <4>3. (n.step \in {"find", "insert"} => n.op = "generate") /\ (n.step = "load" => n.op = "revoke")
        BY <1>5, <4>2
      <4>4. QED
        BY <4>2, <4>3 DEF Sound
    <3>2. ASSUME NEW v \in Workers, v # w
          PROVE  Sound(sessions[v])'
      BY <1>1, <1>2, <2>4, <2>5, <3>2 DEF Sound
    <3>3. QED
      BY <2>5, <3>1, <3>2 DEF Sound
  <2>7. TypeOK'
    <3>1. tokens' \in [Months -> Tokens']
      BY <1>2, <2>4 DEF TokenInv, TypeOK, Tokens
    <3>2. sessions' \in [Workers -> Sessions]
      BY <2>2, <2>3 DEF TokenInv, TypeOK
    <3>3. QED
      BY <1>2, <2>4, <3>1, <3>2 DEF TypeOK
  <2>8. \A v \in Workers : Fresh(sessions[v])'
    BY <2>2, <2>4, <2>5 DEF TokenInv, Fresh
  <2>9. Unshared'
    BY <2>2, <2>5 DEF TokenInv, Unshared
  <2>10. QED
    BY <2>6, <2>7, <2>8, <2>9 DEF TokenInv
<1>6. ASSUME NEW w \in Workers, FindActive(w)
      PROVE  TokenInv'
  <2>1. PICK n : n = [sessions[w] EXCEPT !.step = "deactivate", !.old = ActiveToken(tokens)]
    OBVIOUS
  <2>2. n \in Sessions /\ n.step = "deactivate" /\ n.op = sessions[w].op
        /\ n.month = sessions[w].month /\ n.start = sessions[w].start
    BY <1>1, <1>2, <2>1, ActiveTokenType DEF TokenInv, TypeOK, Sessions, Steps
  <2>3. Sound(n) /\ Inserted(n) = {}
    BY <1>1, <1>6, <2>2 DEF FindActive, Sound, Inserted
  <2>4. Move(w, n) /\ UNCHANGED <<tokens, manifest, sha, starts, now>>
    BY <1>6, <2>1 DEF FindActive
  <2>5. QED
    BY <1>2, <2>2, <2>3, <2>4, MoveKeeps
<1>7. ASSUME NEW w \in Workers, LoadToken(w)
      PROVE  TokenInv'
  <2>1. PICK old : old = IF tokens[sessions[w].month].active THEN sessions[w].month ELSE None
    OBVIOUS
  <2>2. PICK n : n = [sessions[w] EXCEPT !.step = "deactivate", !.old = old]
    OBVIOUS
  <2>3. old \in Months \cup {None}
    BY <1>1, <2>1 DEF Sessions
  <2>4. n \in Sessions /\ n.step = "deactivate" /\ n.op = sessions[w].op
        /\ n.month = sessions[w].month /\ n.start = sessions[w].start
    BY <1>1, <2>2, <2>3 DEF Sessions, Steps
  <2>5. Sound(n) /\ Inserted(n) = {}
    BY <1>1, <1>7, <2>4 DEF LoadToken, Sound, Inserted
  <2>6. Move(w, n) /\ UNCHANGED <<tokens, manifest, sha, starts, now>>
    BY <1>7, <2>1, <2>2 DEF LoadToken
  <2>7. QED
    BY <1>2, <2>4, <2>5, <2>6, MoveKeeps
<1>8. ASSUME NEW w \in Workers, Deactivate(w)
      PROVE  TokenInv'
  <2>1. PICK step : step = IF sessions[w].op = "generate" THEN "insert" ELSE "read"
    OBVIOUS
  <2>2. PICK n : n = [sessions[w] EXCEPT !.step = step]
    OBVIOUS
  <2>3. n \in Sessions /\ n.step = step /\ n.op = sessions[w].op
        /\ n.month = sessions[w].month /\ n.start = sessions[w].start
    BY <1>1, <2>1, <2>2 DEF Sessions, Steps
  <2>4. Sound(n) /\ Inserted(n) = {}
    BY <1>1, <1>8, <2>1, <2>3 DEF Deactivate, Sound, Inserted
  <2>5. Move(w, n) /\ UNCHANGED <<tokens, manifest, sha, starts, now>>
    BY <1>8, <2>1, <2>2 DEF Deactivate
  <2>6. QED
    BY <1>2, <2>3, <2>4, <2>5, MoveKeeps
<1>9. ASSUME NEW w \in Workers, Insert(w)
      PROVE  TokenInv'
  <2>1. PICK n : n = [sessions[w] EXCEPT !.step = "read"]
    OBVIOUS
  <2>2. n \in Sessions /\ n.step = "read" /\ n.op = sessions[w].op
        /\ n.month = sessions[w].month /\ n.start = sessions[w].start
    BY <1>1, <2>1 DEF Sessions, Steps
  <2>3. sessions' = [sessions EXCEPT ![w] = n] /\ UNCHANGED <<tokens, manifest, sha, starts, now>>
    BY <1>9, <2>1 DEF Insert, Move
  <2>4. Sound(n) /\ Inserted(n) \subseteq {sessions[w].month} /\ tokens[sessions[w].month].created = 0
        /\ \A v \in Workers \ {w} : sessions[w].month \notin Inserted(sessions[v])
    BY <1>1, <1>9, <2>2 DEF Insert, Sound, Inserted
  <2>5. sessions'[w] = n /\ \A v \in Workers : v # w => sessions'[v] = sessions[v]
    BY <2>3 DEF TokenInv, TypeOK
  <2>6. TypeOK'
    BY <2>2, <2>3 DEF TokenInv, TypeOK, Tokens
  <2>7. \A v \in Workers : Sound(sessions[v])'
    BY <1>1, <2>3, <2>4, <2>5 DEF Sound
  <2>8. \A v \in Workers : Fresh(sessions[v])'
    BY <2>3, <2>4, <2>5 DEF TokenInv, Fresh
  <2>9. Unshared'
    <3>1. SUFFICES ASSUME NEW u \in Workers, NEW v \in Workers, u # v
                   PROVE  Inserted(sessions'[u]) \cap Inserted(sessions'[v]) = {}
      BY DEF Unshared
    <3>2. CASE u = w
      BY <2>4, <2>5, <3>1, <3>2
    <3>3. CASE v = w
      BY <2>4, <2>5, <3>1, <3>3
    <3>4. CASE u # w /\ v # w
      BY <2>5, <3>1, <3>4 DEF TokenInv, Unshared
    <3>5. QED
      BY <3>2, <3>3, <3>4
  <2>10. QED
    BY <2>6, <2>7, <2>8, <2>9 DEF TokenInv
<1>10. ASSUME NEW w \in Workers, ReadManifest(w)
      PROVE  TokenInv'
  <2>1. PICK n : n = [sessions[w] EXCEPT !.step = "get", !.content = ActiveManifest(View(sessions[w]))]
    OBVIOUS
  <2>2. View(sessions[w]) \in [Months -> Tokens]
    BY <1>1, <1>10, ViewType DEF ReadManifest, Sound, TokenInv
  <2>3. ActiveManifest(View(sessions[w])) \in Months \cup {None}
    BY <1>2, <2>2, ActiveTokenType DEF ActiveManifest
  <2>4. n \in Sessions /\ n.step = "get" /\ n.op = sessions[w].op
        /\ n.month = sessions[w].month /\ n.start = sessions[w].start
    BY <1>1, <2>1, <2>3 DEF Sessions, Steps
  <2>5. Move(w, n) /\ UNCHANGED <<tokens, manifest, sha, starts, now>>
    BY <1>10, <2>1 DEF ReadManifest
  <2>6. QED
    BY <1>1, <1>2, <1>10, <2>4, <2>5, MoveKeeps DEF ReadManifest, Sound, Inserted
<1>11. ASSUME NEW w \in Workers, GetSha(w)
      PROVE  TokenInv'
  <2>1. PICK n : n = [sessions[w] EXCEPT !.step = "put", !.sha = sha]
    OBVIOUS
  <2>2. n \in Sessions /\ n.step = "put" /\ n.op = sessions[w].op
        /\ n.month = sessions[w].month /\ n.start = sessions[w].start
    BY <1>1, <1>2, <2>1 DEF Sessions, Steps
  <2>3. Move(w, n) /\ UNCHANGED <<tokens, manifest, sha, starts, now>>
    BY <1>11, <2>1 DEF GetSha
  <2>4. QED
    BY <1>1, <1>2, <1>11, <2>2, <2>3, MoveKeeps DEF GetSha, Sound, Inserted
<1>12. ASSUME NEW w \in Workers, PutManifest(w)
      PROVE  TokenInv'
  <2>1. PICK n : n = [sessions[w] EXCEPT !.step = "commit", !.pushed = TRUE]
    OBVIOUS
  <2>2. n \in Sessions /\ n.step = "commit" /\ n.op = sessions[w].op
        /\ n.month = sessions[w].month /\ n.start = sessions[w].start
    BY <1>1, <2>1 DEF Sessions, Steps
  <2>3. Move(w, n) /\ UNCHANGED <<tokens, starts, now>> /\ manifest' \in Months \cup {None} /\ sha' \in Nat
    BY <1>1, <1>2, <1>12, <2>1 DEF PutManifest, Sessions
  <2>4. Sound(n) /\ Inserted(n) \subseteq Inserted(sessions[w])
    BY <1>1, <1>12, <2>2 DEF PutManifest, Sound, Inserted
  <2>5. QED
    BY <2>2, <2>3, <2>4, MoveKeeps
<1>13. ASSUME NEW w \in Workers, PutRefused(w)
      PROVE  TokenInv'
  <2>1. PICK n : n = [sessions[w] EXCEPT !.step = "commit"]
    OBVIOUS
  <2>2. n \in Sessions /\ n.step = "commit" /\ n.op = sessions[w].op
        /\ n.month = sessions[w].month /\ n.start = sessions[w].start
    BY <1>1, <2>1 DEF Sessions, Steps
  <2>3. Move(w, n) /\ UNCHANGED <<tokens, manifest, sha, starts, now>>
    BY <1>13, <2>1 DEF PutRefused
  <2>4. Sound(n) /\ Inserted(n) \subseteq Inserted(sessions[w])
    BY <1>1, <1>13, <2>2 DEF PutRefused, Sound, Inserted
  <2>5. QED
    BY <1>2, <2>2, <2>3, <2>4, MoveKeeps
<1>14. ASSUME NEW w \in Workers, Commit(w)
      PROVE  TokenInv'
  <2>1. /\ tokens' = View(sessions[w]) /\ UNCHANGED <<manifest, sha, starts, now>>
        /\ sessions' = [sessions EXCEPT ![w] = Idle] /\ sessions[w].step = "commit"
    BY <1>14 DEF Commit, Move
  <2>2. sessions'[w] = Idle /\ \A v \in Workers : v # w => sessions'[v] = sessions[v]
    BY <2>1 DEF TokenInv, TypeOK
  <2>3. TypeOK'
    <3>1. View(sessions[w]) \in [Months -> Tokens]
      BY <1>1, <2>1, ViewType DEF Sound, TokenInv
    <3>2. tokens' \in [Months -> Tokens']
      BY <2>1, <3>1 DEF Tokens
    <3>3. sessions' \in [Workers -> Sessions]
      BY <2>1, IdleSession DEF TokenInv, TypeOK
    <3>4. QED
      BY <1>2, <2>1, <3>2, <3>3 DEF TypeOK
  <2>4. \A v \in Workers : Sound(sessions[v])'
    BY <1>1, <2>1, <2>2, IdleSession DEF Sound
  <2>5. Unshared'
    BY <2>2, IdleSession DEF TokenInv, Unshared
  <2>6. ASSUME NEW v \in Workers, v # w, NEW m \in Inserted(sessions[v])
        PROVE  tokens'[m].created = 0
    <3>1. m \in Months /\ tokens[m].created = 0
      BY <1>1, <2>6 DEF TokenInv, Fresh, Inserted, Sound
    <3>2. ~(sessions[w].op = "generate" /\ m = sessions[w].month)
      BY <2>1, <2>6 DEF TokenInv, Unshared, Inserted
    <3>3. QED
      BY <2>1, <3>1, <3>2, ViewOf DEF TokenInv
  <2>7. \A v \in Workers : Fresh(sessions[v])'
    BY <2>2, <2>6, IdleSession DEF Fresh
  <2>8. QED
    BY <2>3, <2>4, <2>5, <2>7 DEF TokenInv
<1>15. ASSUME NEW w \in Workers, Fail(w)
      PROVE  TokenInv'
  BY <1>2, <1>15, MoveKeeps, IdleSession DEF Fail
<1>16. QED
  BY <1>3, <1>4, <1>5, <1>6, <1>7, <1>8, <1>9, <1>10, <1>11, <1>12, <1>13, <1>14, <1>15
     DEF Next, BeginGenerate, BeginRevoke

LEMMA TokenInvariant == Spec => []TokenInv
<1>1. Init => TokenInv
  <2> SUFFICES ASSUME Init
               PROVE  TokenInv
    OBVIOUS
  <2>1. \A w \in Workers : sessions[w] = Idle
    BY DEF Init
  <2>2. TypeOK
    BY IdleSession DEF Init, TypeOK, Tokens, NoToken
  <2>3. QED
    BY <2>1, <2>2, IdleSession DEF TokenInv, Fresh, Unshared
<1>2. QED
  BY <1>1, TokenStep, PTL DEF Spec

(* A token that was revoked or replaced never becomes active again, however *)
(* handlers overlap and fail: a row is inserted once, and no update makes a *)
(* token active.                                                           *)
THEOREM TokensAreIssuedOnce == Spec => IssuedOnce
<1>1. TokenInv /\ [Next]_vars =>
        [\A m \in Months : tokens[m].created # 0 /\ ~tokens[m].active => ~tokens'[m].active]_vars
  <2> SUFFICES ASSUME TokenInv, Next, NEW m \in Months,
                      tokens[m].created # 0, ~tokens[m].active
               PROVE  ~tokens'[m].active
    OBVIOUS
  <2>1. CASE UNCHANGED tokens
    BY <2>1
  <2>2. ASSUME NEW w \in Workers, Commit(w)
        PROVE  ~tokens'[m].active
    <3>1. ~(sessions[w].op = "generate" /\ m = sessions[w].month)
      BY <2>2 DEF TokenInv, Fresh, Inserted, Commit
    <3>2. QED
      BY <2>2, <3>1, ViewOf DEF TokenInv, Commit
  <2>3. QED
    BY <2>1, <2>2 DEF Next, NextMonth, BeginGenerate, BeginRevoke, Begin, FindActive, LoadToken,
       Deactivate, Insert, ReadManifest, GetSha, PutManifest, PutRefused, Fail
<1>2. QED
  BY <1>1, TokenInvariant, PTL DEF Spec, IssuedOnce
--------------------------------------------------------------------------------
(* Until requests overlap only one handler is at work: a generation has read *)
(* the one active token, and the manifest to push follows from what the     *)
(* handler will commit, unless months have passed since.                   *)
OneAtATime ==
  \A v, w \in Workers : sessions[v].step # "idle" /\ sessions[w].step # "idle" => v = w

AtMostOne == \A a, b \in ActiveTokens(tokens) : a = b

Replaces(s) ==
  s.op = "generate" /\ s.step \in {"deactivate", "insert", "read", "get", "put", "commit"} =>
    ActiveTokens(tokens) \subseteq {s.old}

Follows(s) ==
  LET active == ActiveToken(View(s))
  IN  /\ s.content # None => s.content = active
      /\ active # None /\ active >= now => s.content = active

Pushes(s) ==
  /\ s.step \in {"get", "put", "commit"} => Follows(s)
  /\ s.pushed => s.step = "commit" /\ manifest = s.content

AloneInv ==
  ~overlapped =>
    /\ OneAtATime /\ AtMostOne
    /\ \A w \in Workers : Replaces(sessions[w]) /\ Pushes(sessions[w])

LEMMA NoOverlap ==
  ASSUME NEW ss \in [Workers -> Sessions], ~Overlap(ss), NEW v \in Workers, NEW w \in Workers,
         ss[v].step # "idle", ss[w].step # "idle"
  PROVE  v = w
<1> SUFFICES ASSUME v # w PROVE FALSE
  OBVIOUS
<1>1. {v, w} \subseteq Busy(ss) /\ Busy(ss) \subseteq Workers
  BY DEF Busy
<1>2. IsFiniteSet(Busy(ss))
  BY <1>1, WorkersAreFinite, FS_Subset
<1>3. Cardinality({v, w}) = 2
  <2>1. IsFiniteSet({v}) /\ Cardinality({v}) = 1
    BY FS_Singleton
  <2>2. {v, w} = {v} \cup {w} /\ w \notin {v}
    OBVIOUS
  <2>3. Cardinality({v} \cup {w}) = Cardinality({v}) + 1
    BY <2>1, <2>2, FS_AddElement
  <2>4. QED
    BY <2>1, <2>2, <2>3
<1>4. Cardinality({v, w}) <= Cardinality(Busy(ss)) /\ Cardinality(Busy(ss)) \in Nat
  BY <1>1, <1>2, FS_Subset, FS_CardinalityType
<1>5. QED
  BY <1>3, <1>4 DEF Overlap

(* What remains to be shown of a step that one handler takes. *)
LEMMA AloneKept ==
  ASSUME TokenInv, TokenInv', OneAtATime, ~Overlap(sessions'), NEW w \in Workers, NEW n,
         Move(w, n), sessions[w].step # "idle" \/ n.step # "idle",
         AtMostOne', Replaces(n)', Pushes(n)',
         \A v \in Workers : Pushes(sessions[v])
  PROVE  /\ OneAtATime' /\ AtMostOne'
         /\ \A v \in Workers : Replaces(sessions[v])' /\ Pushes(sessions[v])'
<1>1. sessions \in [Workers -> Sessions] /\ sessions' \in [Workers -> Sessions]
  BY DEF TokenInv, TypeOK
<1>2. OneAtATime'
  BY <1>1, NoOverlap DEF OneAtATime
<1>3. sessions'[w] = n /\ \A v \in Workers : v # w => sessions'[v] = sessions[v]
  BY <1>1 DEF Move
<1>4. \A v \in Workers : v # w => sessions'[v].step = "idle"
  BY <1>2, <1>3 DEF OneAtATime
<1>5. QED
  BY <1>2, <1>3, <1>4 DEF Replaces, Pushes

(* While the tokens stay as they are a handler sees the same ones. *)
LEMMA ViewKept ==
  ASSUME NEW s, NEW n, UNCHANGED tokens,
         n.op = s.op, n.month = s.month, n.old = s.old, n.start = s.start
  PROVE  View(n)' = View(s)
BY DEF View

(* What the manifest says stays right as long as nothing is committed. *)
LEMMA FollowsKept ==
  ASSUME NEW s, NEW n, UNCHANGED tokens, now \in Nat, now' \in Nat, now <= now',
         ActiveToken(View(s)) \in Months \cup {None},
         n.op = s.op, n.month = s.month, n.old = s.old, n.start = s.start,
         n.content = s.content, Follows(s)
  PROVE  Follows(n)'
<1>1. View(n)' = View(s)
  BY ViewKept
<1>2. ActiveToken(View(n))' = ActiveToken(View(s))
  BY <1>1 DEF ActiveToken, ActiveTokens
<1>3. \A m \in Months : m \in Nat
  BY BoundsAreNat DEF Months
<1>4. QED
  BY <1>2, <1>3 DEF Follows

LEMMA AloneStep ==
  ASSUME TokenInv, TokenInv', [Next]_vars, OneAtATime, AtMostOne,
         \A w \in Workers : Replaces(sessions[w]) /\ Pushes(sessions[w]), ~Overlap(sessions')
  PROVE  /\ OneAtATime' /\ AtMostOne'
         /\ \A w \in Workers : Replaces(sessions[w])' /\ Pushes(sessions[w])'
<1>1. ASSUME NEW w \in Workers
      PROVE  /\ sessions[w] \in Sessions /\ Sound(sessions[w])
             /\ Replaces(sessions[w]) /\ Pushes(sessions[w])
  BY DEF TokenInv, TypeOK
<1>2. UNCHANGED tokens => AtMostOne' /\ ActiveTokens(tokens)' = ActiveTokens(tokens)
  BY DEF AtMostOne, ActiveTokens
<1>3. starts \in Nat /\ now \in Nat /\ now' \in Nat /\ sha \in Nat /\ tokens \in [Months -> Tokens]
  BY DEF TokenInv, TypeOK
<1>4. ASSUME NEW s \in Sessions, Sound(s), s.step # "idle"
      PROVE  ActiveToken(View(s)) \in Months \cup {None}
  BY <1>3, <1>4, ViewType, ActiveTokenType DEF TokenInv, Sound
<1>5. CASE UNCHANGED <<tokens, manifest, sessions>> /\ now <= now'
  <2>1. \A w \in Workers : Pushes(sessions[w])'
    <3>1. SUFFICES ASSUME NEW w \in Workers PROVE Pushes(sessions[w])'
      OBVIOUS
    <3>2. PICK s : s = sessions[w] /\ s = sessions'[w]
      BY <1>5
    <3>3. CASE s.step \in {"get", "put", "commit"}
      <4>1. Follows(s)'
        BY <1>1, <1>3, <1>4, <1>5, <3>2, <3>3, FollowsKept DEF Pushes
      <4>2. QED
        BY <1>1, <1>5, <3>2, <4>1 DEF Pushes
    <3>4. CASE s.step \notin {"get", "put", "commit"}
      BY <1>1, <1>5, <3>2, <3>4 DEF Pushes
    <3>5. QED
      BY <3>3, <3>4
  <2>2. QED
    BY <1>2, <1>5, <2>1 DEF OneAtATime, Replaces
<1>6. CASE UNCHANGED vars
  BY <1>3, <1>5, <1>6 DEF vars
<1>7. CASE NextMonth
  BY <1>3, <1>5, <1>7 DEF NextMonth
<1>8. ASSUME NEW w \in Workers, NEW m \in Months, NEW op \in {"generate", "revoke"},
             NEW step \in {"find", "load"}, Begin(w, op, m, step)
      PROVE  /\ OneAtATime' /\ AtMostOne'
             /\ \A v \in Workers : Replaces(sessions[v])' /\ Pushes(sessions[v])'
  <2>1. PICK n : n = [Idle EXCEPT !.step = step, !.op = op, !.month = m, !.start = starts + 1]
    OBVIOUS
  <2>2. n.step = step /\ n.pushed = FALSE
    BY <2>1 DEF Idle
  <2>3. Move(w, n) /\ UNCHANGED tokens
    BY <1>8, <2>1 DEF Begin, Move
  <2>4. Replaces(n)' /\ Pushes(n)' /\ n.step # "idle"
    BY <2>2 DEF Replaces, Pushes
  <2>5. QED
    BY <1>1, <1>2, <2>3, <2>4, AloneKept
<1>9. ASSUME NEW w \in Workers, FindActive(w)
      PROVE  /\ OneAtATime' /\ AtMostOne'
             /\ \A v \in Workers : Replaces(sessions[v])' /\ Pushes(sessions[v])'
  <2>1. PICK n : n = [sessions[w] EXCEPT !.step = "deactivate", !.old = ActiveToken(tokens)]
    OBVIOUS
  <2>2. n.step = "deactivate" /\ n.old = ActiveToken(tokens) /\ n.pushed = sessions[w].pushed
    BY <1>1, <2>1 DEF Sessions
  <2>3. Move(w, n) /\ UNCHANGED tokens /\ sessions[w].step = "find"
    BY <1>9, <2>1 DEF FindActive
  <2>4. ActiveTokens(tokens) \subseteq {ActiveToken(tokens)}
    BY <1>3, ActiveTokenIsActive DEF AtMostOne
  <2>5. Replaces(n)' /\ Pushes(n)'
    BY <1>1, <1>2, <2>2, <2>3, <2>4 DEF Replaces, Pushes
  <2>6. QED
    BY <1>1, <1>2, <2>3, <2>5, AloneKept
<1>10. ASSUME NEW w \in Workers, LoadToken(w)
      PROVE  /\ OneAtATime' /\ AtMostOne'
             /\ \A v \in Workers : Replaces(sessions[v])' /\ Pushes(sessions[v])'
  <2>1. PICK old : old = IF tokens[sessions[w].month].active THEN sessions[w].month ELSE None
    OBVIOUS
  <2>2. PICK n : n = [sessions[w] EXCEPT !.step = "deactivate", !.old = old]
    OBVIOUS
  <2>3. n.step = "deactivate" /\ n.op = sessions[w].op /\ n.pushed = sessions[w].pushed
    BY <1>1, <2>2 DEF Sessions
  <2>4. Move(w, n) /\ UNCHANGED tokens /\ sessions[w].step = "load"
    BY <1>10, <2>1, <2>2 DEF LoadToken
  <2>5. Replaces(n)' /\ Pushes(n)'
    BY <1>1, <2>3, <2>4 DEF Replaces, Pushes, Sound
  <2>6. QED
    BY <1>1, <1>2, <2>4, <2>5, AloneKept
<1>11. ASSUME NEW w \in Workers, Deactivate(w) \/ Insert(w)
      PROVE  /\ OneAtATime' /\ AtMostOne'
             /\ \A v \in Workers : Replaces(sessions[v])' /\ Pushes(sessions[v])'
  <2>1. PICK step \in {"insert", "read"} : Move(w, [sessions[w] EXCEPT !.step = step])
    BY <1>11 DEF Deactivate, Insert
  <2>2. PICK n : n = [sessions[w] EXCEPT !.step = step]
    OBVIOUS
  <2>3. n.step = step /\ n.op = sessions[w].op /\ n.old = sessions[w].old /\ n.pushed = sessions[w].pushed
    BY <1>1, <2>2 DEF Sessions
  <2>4. Move(w, n) /\ UNCHANGED tokens /\ sessions[w].step \in {"deactivate", "insert"}
    BY <1>11, <2>1, <2>2 DEF Deactivate, Insert
  <2>5. Replaces(n)' /\ Pushes(n)'
    BY <1>1, <1>2, <2>3, <2>4 DEF Replaces, Pushes
  <2>6. QED
    BY <1>1, <1>2, <2>4, <2>5, AloneKept
<1>12. ASSUME NEW w \in Workers, ReadManifest(w)
      PROVE  /\ OneAtATime' /\ AtMostOne'
             /\ \A v \in Workers : Replaces(sessions[v])' /\ Pushes(sessions[v])'
  <2>1. PICK content : content = ActiveManifest(View(sessions[w]))
    OBVIOUS
  <2>2. PICK n : n = [sessions[w] EXCEPT !.step = "get", !.content = content]
    OBVIOUS
  <2>3. /\ n.step = "get" /\ n.content = content /\ n.op = sessions[w].op /\ n.month = sessions[w].month
        /\ n.old = sessions[w].old /\ n.start = sessions[w].start /\ n.pushed = sessions[w].pushed
    BY <1>1, <2>2 DEF Sessions
  <2>4. Move(w, n) /\ UNCHANGED <<tokens, now>> /\ sessions[w].step = "read"
    BY <1>12, <2>1, <2>2 DEF ReadManifest
  <2>5. Follows(n)'
    <3>1. View(n)' = View(sessions[w])
      BY <2>3, <2>4, ViewKept
    <3>2. ActiveToken(View(n))' = ActiveToken(View(sessions[w]))
      BY <3>1 DEF ActiveToken, ActiveTokens
    <3>3. QED
      BY <2>1, <2>3, <2>4, <3>2 DEF Follows, ActiveManifest
  <2>6. Replaces(n)' /\ Pushes(n)'
    BY <1>1, <1>2, <2>3, <2>4, <2>5 DEF Replaces, Pushes
  <2>7. QED
    BY <1>1, <1>2, <2>4, <2>6, AloneKept
<1>13. ASSUME NEW w \in Workers, NEW n, Move(w, n), sessions[w].step \in {"get", "put"},
              UNCHANGED <<tokens, now>>, n.step \in {"put", "commit"},
              n.op = sessions[w].op, n.month = sessions[w].month, n.old = sessions[w].old,
              n.start = sessions[w].start, n.content = sessions[w].content,
              n.pushed => n.step = "commit" /\ manifest' = n.content
      PROVE  /\ OneAtATime' /\ AtMostOne'
             /\ \A v \in Workers : Replaces(sessions[v])' /\ Pushes(sessions[v])'
  <2>1. Follows(n)'
    BY <1>1, <1>3, <1>4, <1>13, FollowsKept DEF Pushes
  <2>2. Replaces(n)' /\ Pushes(n)'
    BY <1>1, <1>2, <1>13, <2>1 DEF Replaces, Pushes
  <2>3. QED
    BY <1>1, <1>2, <1>13, <2>2, AloneKept
<1>14. ASSUME NEW w \in Workers, GetSha(w)
      PROVE  /\ OneAtATime' /\ AtMostOne'
             /\ \A v \in Workers : Replaces(sessions[v])' /\ Pushes(sessions[v])'
  <2>1. PICK n : n = [sessions[w] EXCEPT !.step = "put", !.sha = sha]
    OBVIOUS
  <2>2. /\ n.step = "put" /\ n.op = sessions[w].op /\ n.month = sessions[w].month
        /\ n.old = sessions[w].old /\ n.start = sessions[w].start
        /\ n.content = sessions[w].content /\ n.pushed = sessions[w].pushed
    BY <1>1, <2>1 DEF Sessions
  <2>3. Move(w, n) /\ UNCHANGED <<tokens, now>> /\ sessions[w].step = "get"
    BY <1>14, <2>1 DEF GetSha
  <2>4. ~n.pushed
    BY <1>1, <2>2, <2>3 DEF Pushes
  <2>5. QED
    BY <1>13, <2>2, <2>3, <2>4
<1>15. ASSUME NEW w \in Workers, PutManifest(w)
      PROVE  /\ OneAtATime' /\ AtMostOne'
             /\ \A v \in Workers : Replaces(sessions[v])' /\ Pushes(sessions[v])'
  <2>1. PICK n : n = [sessions[w] EXCEPT !.step = "commit", !.pushed = TRUE]
    OBVIOUS
  <2>2. /\ n.step = "commit" /\ n.op = sessions[w].op /\ n.month = sessions[w].month
        /\ n.old = sessions[w].old /\ n.start = sessions[w].start
        /\ n.content = sessions[w].content
    BY <1>1, <2>1 DEF Sessions
  <2>3. /\ Move(w, n) /\ UNCHANGED <<tokens, now>> /\ sessions[w].step = "put"
        /\ manifest' = n.content
    BY <1>15, <2>1, <2>2 DEF PutManifest
  <2>4. QED
    BY <1>13, <2>2, <2>3
<1>16. ASSUME NEW w \in Workers, PutRefused(w)
      PROVE  /\ OneAtATime' /\ AtMostOne'
             /\ \A v \in Workers : Replaces(sessions[v])' /\ Pushes(sessions[v])'
  <2>1. PICK n : n = [sessions[w] EXCEPT !.step = "commit"]
    OBVIOUS
  <2>2. /\ n.step = "commit" /\ n.op = sessions[w].op /\ n.month = sessions[w].month
        /\ n.old = sessions[w].old /\ n.start = sessions[w].start
        /\ n.content = sessions[w].content /\ n.pushed = sessions[w].pushed
    BY <1>1, <2>1 DEF Sessions
  <2>3. Move(w, n) /\ UNCHANGED <<tokens, now>> /\ sessions[w].step = "put"
    BY <1>16, <2>1 DEF PutRefused
  <2>4. ~n.pushed
    BY <1>1, <2>2, <2>3 DEF Pushes
  <2>5. QED
    BY <1>13, <2>2, <2>3, <2>4
<1>17. Replaces(Idle)' /\ Pushes(Idle)'
  BY DEF Replaces, Pushes, Idle
<1>18. ASSUME NEW w \in Workers, Commit(w)
      PROVE  /\ OneAtATime' /\ AtMostOne'
             /\ \A v \in Workers : Replaces(sessions[v])' /\ Pushes(sessions[v])'
  <2>1. tokens' = View(sessions[w]) /\ Move(w, Idle) /\ sessions[w].step = "commit"
    BY <1>18 DEF Commit
  <2>2. ASSUME NEW a \in Months, tokens'[a].active
        PROVE  IF sessions[w].op = "generate" THEN a = sessions[w].month ELSE tokens[a].active
    BY <1>1, <2>1, <2>2, ViewOf DEF TokenInv, Replaces, ActiveTokens
  <2>3. AtMostOne'
    BY <2>2 DEF AtMostOne, ActiveTokens
  <2>4. QED
    BY <1>1, <1>17, <2>1, <2>3, AloneKept
<1>19. ASSUME NEW w \in Workers, Fail(w)
      PROVE  /\ OneAtATime' /\ AtMostOne'
             /\ \A v \in Workers : Replaces(sessions[v])' /\ Pushes(sessions[v])'
  BY <1>1, <1>2, <1>17, <1>19, AloneKept DEF Fail
<1>20. QED
  BY <1>6, <1>7, <1>8, <1>9, <1>10, <1>11, <1>12, <1>14, <1>15, <1>16, <1>18, <1>19
     DEF Next, BeginGenerate, BeginRevoke

LEMMA AlwaysSpec == MCSpec => Spec
<1>1. MCInit => Init
  BY DEF MCInit
<1>2. [MCNext]_<<vars, overlapped>> => [Next]_vars
  BY DEF MCNext
<1>3. QED
  BY <1>1, <1>2, PTL DEF MCSpec, Spec

LEMMA AloneInvariant == MCSpec => []AloneInv
<1>1. MCInit => AloneInv
  BY DEF MCInit, Init, Idle, AloneInv, OneAtATime, AtMostOne, ActiveTokens, NoToken, Replaces,
         Pushes
<1>2. TokenInv /\ TokenInv' /\ AloneInv /\ [MCNext]_<<vars, overlapped>> => AloneInv'
  <2> SUFFICES ASSUME TokenInv, TokenInv', AloneInv, [MCNext]_<<vars, overlapped>>, ~overlapped'
               PROVE  AloneInv'
    BY DEF AloneInv
  <2>1. CASE UNCHANGED <<vars, overlapped>>
    <3>1. UNCHANGED <<tokens, manifest, now, sessions, overlapped>>
      BY <2>1 DEF vars
    <3>2. OneAtATime' /\ AtMostOne' /\ \A w \in Workers : Replaces(sessions[w])'
      BY <3>1 DEF AloneInv, OneAtATime, AtMostOne, ActiveTokens, Replaces
    <3>3. ASSUME NEW w \in Workers
          PROVE  Pushes(sessions[w])'
      <4>1. View(sessions[w])' = View(sessions[w])
        BY <3>1 DEF View
      <4>2. ActiveToken(View(sessions[w]))' = ActiveToken(View(sessions[w]))
        BY <4>1 DEF ActiveToken, ActiveTokens
      <4>3. Pushes(sessions[w])
        BY <3>1 DEF AloneInv
      <4>4. QED
        BY <3>1, <4>2, <4>3 DEF Pushes, Follows
    <3>4. QED
      BY <3>2, <3>3 DEF AloneInv
  <2>2. CASE MCNext
    <3>1. Next /\ ~overlapped /\ ~Overlap(sessions')
      BY <2>2 DEF MCNext
    <3>2. QED
      BY <3>1, AloneStep DEF AloneInv
  <2>3. QED
    BY <2>1, <2>2
<1>3. QED
  BY <1>1, <1>2, TokenInvariant, AlwaysSpec, PTL DEF MCSpec

(* Until requests overlap at most one token is active. *)
THEOREM OneTokenUntilOverlap == MCSpec => []OneActiveTokenAlone
<1>1. AloneInv => OneActiveTokenAlone
  <2> SUFFICES ASSUME AtMostOne
               PROVE  Cardinality(ActiveTokens(tokens)) <= 1
    BY DEF AloneInv, OneActiveTokenAlone, OneActiveToken
  <2>1. CASE ActiveTokens(tokens) = {}
    BY <2>1, FS_EmptySet
  <2>2. ASSUME NEW a \in ActiveTokens(tokens)
        PROVE  Cardinality(ActiveTokens(tokens)) <= 1
    <3>1. ActiveTokens(tokens) = {a}
      BY DEF AtMostOne
    <3>2. Cardinality(ActiveTokens(tokens)) = 1
      BY <3>1, FS_Singleton
    <3>3. QED
      BY <3>2
  <2>3. QED
    BY <2>1, <2>2
<1>2. QED
  BY <1>1, AloneInvariant, PTL

(* Until requests overlap a handler whose push GitHub took leaves the file  *)
(* and the database in agreement, whatever months pass while it works.      *)
THEOREM ManifestFollowsUntilOverlap == MCSpec => ManifestFollowsAlone
<1>1. AloneInv /\ [MCNext]_<<vars, overlapped>> => [~overlapped => ManifestFollows]_vars
  <2> SUFFICES ASSUME AloneInv, Next, ~overlapped, NEW w \in Workers,
                      Finishes(w), sessions[w].pushed
               PROVE  LET active == ActiveToken(tokens')
                      IN  /\ manifest # None => manifest = active
                          /\ active # None /\ active >= now => manifest = active
    BY DEF MCNext, ManifestFollows
  <2>1. PICK v \in Workers : Commit(v)
    <3>1. tokens' # tokens
      BY DEF Finishes
    <3>2. QED
      BY <3>1 DEF Next, NextMonth, BeginGenerate, BeginRevoke, Begin, FindActive, LoadToken,
         Deactivate, Insert, ReadManifest, GetSha, PutManifest, PutRefused, Fail
  <2>2. v = w
    BY <2>1 DEF AloneInv, OneAtATime, Commit, Finishes
  <2>3. tokens' = View(sessions[w])
    BY <2>1, <2>2 DEF Commit
  <2>4. Follows(sessions[w]) /\ manifest = sessions[w].content
    BY DEF AloneInv, Pushes
  <2>5. QED
    BY <2>3, <2>4 DEF Follows
<1>2. QED
  BY <1>1, AloneInvariant, PTL DEF MCSpec, ManifestFollowsAlone
================================================================================
