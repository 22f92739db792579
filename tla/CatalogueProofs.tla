----------------------------- MODULE CatalogueProofs -----------------------------
(***************************************************************************)
(* What the catalogue offers: releases and capabilities.  A published      *)
(* release stays what it is and a channel has one latest release, until    *)
(* requests overlap or a release moves, and a bounded number when they     *)
(* overlap; only capabilities of its product are attached to a plan.  For  *)
(* any releases, channels, capabilities and plans, without the bounds of   *)
(* the instances TLC checks.                                               *)
(***************************************************************************)
EXTENDS MCReleases, MCPlanCapabilities, FiniteSetTheorems, TLAPS

Row ==
  [status : Statuses, channel : Channels, build : Builds,
   latest : BOOLEAN, deleted : BOOLEAN, stamped : BOOLEAN]

Body == [status : Statuses, channel : Channels, build : Builds, latest : BOOLEAN]

Steps == {"idle", "demote", "create", "update", "delete"}

Sessions ==
  [step : Steps, id : Releases \cup {None}, patch : AllPatches, seen : Row \cup {NoRow},
   matched : SUBSET Releases]

TypeOK ==
  /\ rows \in [Releases -> Row \cup {NoRow}]
  /\ sessions \in [Workers -> Sessions]

Creates(s) == s.step \in {"demote", "create"} /\ s.seen = NoRow

(* A handler that creates a release has a complete body and an id without a *)
(* row; any other one has read the row it works on, and the checks it made *)
(* of that copy hold of it.                                                *)
Sound(s) ==
  s.step # "idle" =>
    /\ s.id \in Releases
    /\ s.step = "create" => s.seen = NoRow
    /\ s.step = "demote" => Demotes(s.seen, s.patch)
    /\ IF Creates(s) THEN s.patch \in Body /\ rows[s.id] = NoRow
                     ELSE s.seen \in Row /\ rows[s.id] \in Row /\ MayUpdate(s.seen, s.patch)

(* No two handlers create the same row.                                    *)
IdsUnshared ==
  \A v, w \in Workers :
    v # w /\ Creates(sessions[v]) /\ sessions[w].step # "idle" =>
      sessions[w].id # sessions[v].id

ReleaseInv ==
  /\ TypeOK
  /\ \A w \in Workers : Sound(sessions[w])
  /\ IdsUnshared
--------------------------------------------------------------------------------
LEMMA RowsAreRows == NoRow \notin Row /\ \A row \in Row : row.status # None /\ row.channel # None
BY NoneIsNoValue DEF Row, NoRow

LEMMA PatchedType ==
  ASSUME NEW S, NEW x \in S, NEW y, NEW z \in S \cup {None}
  PROVE  Patched(x, y, z) \in S
BY DEF Patched

LEMMA PatchedRowIs ==
  ASSUME NEW row \in Row, NEW seen \in Row, NEW patch \in AllPatches
  PROVE  /\ PatchedRow(row, seen, patch) \in Row
         /\ PatchedRow(row, seen, patch).status = Patched(row.status, seen.status, patch.status)
         /\ PatchedRow(row, seen, patch).channel = Patched(row.channel, seen.channel, patch.channel)
         /\ PatchedRow(row, seen, patch).build = Patched(row.build, seen.build, patch.build)
BY PatchedType DEF PatchedRow, Row, AllPatches

LEMMA PatchedRowStamp ==
  ASSUME NEW row \in Row, NEW seen \in Row, NEW patch \in AllPatches,
         \/ row.stamped
         \/ patch.status = "PUBLISHED" /\ seen.status # "PUBLISHED"
  PROVE  PatchedRow(row, seen, patch).stamped
BY PatchedType DEF PatchedRow, Row, AllPatches

LEMMA PatchedRowLatest ==
  ASSUME NEW row \in Row, NEW seen \in Row, NEW patch \in AllPatches,
         PatchedRow(row, seen, patch).latest, ~row.latest
  PROVE  Demotes(seen, patch)
<1>1. PICK latest : latest = Patched(row.latest, seen.latest, patch.latest)
  OBVIOUS
<1>2. PatchedRow(row, seen, patch).latest = latest
  BY <1>1 DEF PatchedRow, Row
<1>3. latest = TRUE /\ row.latest = FALSE
  BY <1>1, <1>2, PatchedType DEF Row, AllPatches
<1>4. patch.latest \notin {None, seen.latest} /\ patch.latest = TRUE
  BY <1>1, <1>3 DEF Patched
<1>5. QED
  BY <1>4 DEF Demotes, Row

LEMMA LoweredIs ==
  ASSUME NEW row \in Row \cup {NoRow}, NEW low, low = [row EXCEPT !.latest = FALSE]
  PROVE  /\ low.status = row.status /\ low.channel = row.channel /\ low.build = row.build
         /\ low.deleted = row.deleted /\ low.stamped = row.stamped /\ ~low.latest
         /\ row \in Row => low \in Row
         /\ row = NoRow => low = NoRow
<1>1. CASE row \in Row
  BY <1>1, RowsAreRows DEF Row
<1>2. CASE row = NoRow
  BY <1>2, RowsAreRows DEF NoRow
<1>3. QED
  BY <1>1, <1>2

(* What a commit does to the rows: one is written, and of the others those  *)
(* that were found by the demotion and still match lose the latest flag.    *)
LEMMA CommitRows ==
  ASSUME ReleaseInv, NEW w \in Workers, NEW new \in Row, sessions[w].id \in Releases,
         Commit(w, new), NEW s, s = sessions[w]
  PROVE  /\ rows' \in [Releases -> Row \cup {NoRow}]
         /\ sessions' = [sessions EXCEPT ![w] = Idle]
         /\ rows'[s.id] = new
         /\ \A r \in Releases \ {s.id} :
              /\ rows'[r].status = rows[r].status /\ rows'[r].channel = rows[r].channel
              /\ rows'[r].build = rows[r].build /\ rows'[r].deleted = rows[r].deleted
              /\ rows'[r].stamped = rows[r].stamped
              /\ rows'[r].latest =>
                   rows[r].latest /\ ~(r \in s.matched /\ rows[r].channel = Target(s.seen, s.patch))
              /\ rows[r] \in Row => rows'[r] \in Row
              /\ rows[r] = NoRow => rows'[r] = NoRow
<1>1. PICK c : c = Target(s.seen, s.patch)
  OBVIOUS
<1>2. rows' = [r \in Releases |->
                 IF r = s.id THEN new
                 ELSE IF r \in s.matched /\ rows[r].channel = c
                        THEN [rows[r] EXCEPT !.latest = FALSE]
                        ELSE rows[r]]
  BY <1>1 DEF Commit
<1>3. ASSUME NEW r \in Releases, r # s.id
      PROVE  /\ rows'[r].status = rows[r].status /\ rows'[r].channel = rows[r].channel
             /\ rows'[r].build = rows[r].build /\ rows'[r].deleted = rows[r].deleted
             /\ rows'[r].stamped = rows[r].stamped
             /\ rows'[r].latest =>
                  rows[r].latest /\ ~(r \in s.matched /\ rows[r].channel = c)
             /\ rows[r] \in Row => rows'[r] \in Row
             /\ rows[r] = NoRow => rows'[r] = NoRow
             /\ rows'[r] \in Row \cup {NoRow}
  <2>1. rows[r] \in Row \cup {NoRow}
    BY DEF ReleaseInv, TypeOK
  <2>2. CASE r \in s.matched /\ rows[r].channel = c
    <3>1. rows'[r] = [rows[r] EXCEPT !.latest = FALSE]
      BY <1>2, <1>3, <2>2
    <3>2. QED
      BY <2>1, <3>1, LoweredIs
  <2>3. CASE ~(r \in s.matched /\ rows[r].channel = c)
    BY <1>2, <1>3, <2>1, <2>3
  <2>4. QED
    BY <2>2, <2>3
<1>4. rows'[s.id] = new
  BY <1>2
<1>5. rows' \in [Releases -> Row \cup {NoRow}]
  BY <1>2, <1>3, <1>4
<1>6. QED
  BY <1>1, <1>3, <1>4, <1>5 DEF Commit

LEMMA IdleSession == Idle \in Sessions /\ Idle.step = "idle"
BY DEF Idle, Sessions, Steps, NoPatch, AllPatches

(* What the handlers' steps write: new is a row.                           *)
LEMMA CommitWrites ==
  ASSUME ReleaseInv, NEW w \in Workers, CommitCreate(w) \/ CommitUpdate(w) \/ CommitDelete(w),
         NEW s, s = sessions[w]
  PROVE  /\ s.id \in Releases /\ s \in Sessions /\ s.step # "idle"
         /\ \E new \in Row :
              /\ Commit(w, new)
              /\ s.step = "create" =>
                   /\ s.seen = NoRow /\ rows[s.id] = NoRow /\ s.patch \in Body
                   /\ new.channel = s.patch.channel /\ new.latest = s.patch.latest
              /\ s.step = "update" =>
                   /\ s.seen \in Row /\ rows[s.id] \in Row /\ MayUpdate(s.seen, s.patch)
                   /\ new = PatchedRow(rows[s.id], s.seen, s.patch)
              /\ s.step = "delete" =>
                   /\ rows[s.id] \in Row /\ new.status = rows[s.id].status
                   /\ new.channel = rows[s.id].channel /\ new.build = rows[s.id].build
                   /\ new.latest = rows[s.id].latest /\ new.stamped = rows[s.id].stamped
              /\ s.step \in {"create", "update", "delete"}
<1>1. s \in Sessions /\ Sound(s) /\ s.step \in {"create", "update", "delete"}
  BY DEF ReleaseInv, TypeOK, CommitCreate, CommitUpdate, CommitDelete
<1>2. CASE CommitCreate(w)
  <2>1. PICK new : new = [status |-> s.patch.status, channel |-> s.patch.channel, build |-> s.patch.build,
                          latest |-> s.patch.latest, deleted |-> FALSE, stamped |-> FALSE]
    OBVIOUS
  <2>2. s.step = "create" /\ Commit(w, new)
    BY <1>2, <2>1 DEF CommitCreate
  <2>3. s.seen = NoRow /\ rows[s.id] = NoRow /\ s.patch \in Body /\ s.id \in Releases
    BY <1>1, <2>2 DEF Sound, Creates
  <2>4. new \in Row /\ new.channel = s.patch.channel /\ new.latest = s.patch.latest
    BY <2>1, <2>3 DEF Row, Body
  <2>5. QED
    BY <1>1, <2>2, <2>3, <2>4
<1>3. CASE CommitUpdate(w)
  <2>1. s.step = "update" /\ Commit(w, PatchedRow(rows[s.id], s.seen, s.patch))
    BY <1>3 DEF CommitUpdate
  <2>2. s.seen \in Row /\ rows[s.id] \in Row /\ MayUpdate(s.seen, s.patch) /\ s.id \in Releases
    BY <1>1, <2>1 DEF Sound, Creates
  <2>3. PatchedRow(rows[s.id], s.seen, s.patch) \in Row
    BY <1>1, <2>2, PatchedRowIs DEF Sessions
  <2>4. QED
    BY <1>1, <2>1, <2>2, <2>3
<1>4. CASE CommitDelete(w)
  <2>1. PICK new : new = [rows[s.id] EXCEPT !.deleted = TRUE]
    OBVIOUS
  <2>2. s.step = "delete" /\ Commit(w, new)
    BY <1>4, <2>1 DEF CommitDelete
  <2>3. rows[s.id] \in Row /\ s.id \in Releases
    BY <1>1, <2>2 DEF Sound, Creates
  <2>4. /\ new \in Row /\ new.status = rows[s.id].status
        /\ new.channel = rows[s.id].channel /\ new.build = rows[s.id].build
        /\ new.latest = rows[s.id].latest /\ new.stamped = rows[s.id].stamped
    BY <2>1, <2>3 DEF Row
  <2>5. QED
    BY <1>1, <2>2, <2>3, <2>4
<1>5. QED
  BY <1>2, <1>3, <1>4

(* What a handler starts with. *)
LEMMA Begun ==
  ASSUME ReleaseInv, NEW w \in Workers, NEW r \in Releases, NEW patch,
         \/ patch \in Patches /\ (BeginCreate(w, r, patch) \/ BeginUpdate(w, r, patch))
         \/ BeginDelete(w, r)
  PROVE  /\ sessions[w].step = "idle" /\ UNCHANGED rows
         /\ \E n \in Sessions :
              /\ sessions' = [sessions EXCEPT ![w] = n]
              /\ n.step \in {"demote", "create", "update", "delete"} /\ n.id = r /\ n.matched = {}
              /\ n.step = "create" => n.seen = NoRow /\ ~Demotes(n.seen, n.patch)
              /\ n.step = "demote" => Demotes(n.seen, n.patch)
              /\ n.step = "update" => ~Demotes(n.seen, n.patch)
              /\ \/ /\ Creates(n) /\ n.patch \in Body /\ rows[r] = NoRow
                    /\ \A v \in Workers : sessions[v].id # r
                 \/ /\ ~Creates(n) /\ n.seen = rows[r] /\ rows[r] \in Row
                    /\ ~rows[r].deleted /\ MayUpdate(n.seen, n.patch)
<1>1. (patch \in Patches => patch \in AllPatches) /\ rows[r] \in Row \cup {NoRow}
  BY PatchesAreBodies DEF ReleaseInv, TypeOK
<1>2. CASE patch \in Patches /\ BeginCreate(w, r, patch)
  <2>1. PICK step : step = IF patch.latest THEN "demote" ELSE "create"
    OBVIOUS
  <2>2. PICK n : n = [step |-> step, id |-> r, patch |-> patch, seen |-> NoRow, matched |-> {}]
    OBVIOUS
  <2>3. patch \in Body
    <3>1. DOMAIN patch = {"status", "channel", "build", "latest"}
      BY <1>1, <1>2 DEF AllPatches
    <3>2. patch.status # None /\ patch.channel # None /\ patch.build # None /\ patch.latest # None
      BY <1>2, <3>1 DEF BeginCreate
    <3>3. QED
      BY <1>1, <1>2, <3>2 DEF AllPatches, Body
  <2>4. rows[r] = NoRow /\ \A v \in Workers : sessions[v].id # r
    BY <1>1, <1>2, RowsAreRows DEF BeginCreate
  <2>5. NoRow.latest = FALSE /\ patch.latest \in BOOLEAN
    BY <2>3 DEF NoRow, Body
  <2>6. /\ step \in {"demote", "create"}
        /\ step = "demote" => Demotes(NoRow, patch)
        /\ step = "create" => ~Demotes(NoRow, patch)
    BY <2>1, <2>5 DEF Demotes
  <2>7. n \in Sessions
    BY <1>1, <1>2, <2>2, <2>6 DEF Sessions, Steps
  <2>8. sessions[w].step = "idle" /\ UNCHANGED rows /\ sessions' = [sessions EXCEPT ![w] = n]
    BY <1>2, <2>1, <2>2 DEF BeginCreate, Go
  <2>9. Creates(n)
    BY <2>2, <2>6 DEF Creates
  <2>10. QED
    BY <2>2, <2>3, <2>4, <2>6, <2>7, <2>8, <2>9
<1>3. CASE patch \in Patches /\ BeginUpdate(w, r, patch)
  <2>1. PICK step : step = IF Demotes(rows[r], patch) THEN "demote" ELSE "update"
    OBVIOUS
  <2>2. PICK n : n = [step |-> step, id |-> r, patch |-> patch, seen |-> rows[r], matched |-> {}]
    OBVIOUS
  <2>3. rows[r] \in Row /\ ~rows[r].deleted /\ MayUpdate(rows[r], patch)
    BY <1>1, <1>3 DEF BeginUpdate, Exists, NoRow
  <2>4. n \in Sessions
    BY <1>1, <1>3, <2>1, <2>2 DEF Sessions, Steps
  <2>5. sessions[w].step = "idle" /\ UNCHANGED rows /\ sessions' = [sessions EXCEPT ![w] = n]
    BY <1>3, <2>1, <2>2 DEF BeginUpdate, Go
  <2>6. ~Creates(n)
    BY <2>2, <2>3, RowsAreRows DEF Creates
  <2>7. QED
    BY <2>1, <2>2, <2>3, <2>4, <2>5, <2>6
<1>4. CASE BeginDelete(w, r)
  <2>1. PICK n : n = [step |-> "delete", id |-> r, patch |-> NoPatch, seen |-> rows[r], matched |-> {}]
    OBVIOUS
  <2>2. rows[r] \in Row /\ ~rows[r].deleted
    BY <1>1, <1>4 DEF BeginDelete, Exists, NoRow
  <2>3. NoPatch \in AllPatches /\ MayUpdate(rows[r], NoPatch)
    BY DEF NoPatch, AllPatches, MayUpdate
  <2>4. n \in Sessions
    BY <1>1, <2>1, <2>3 DEF Sessions, Steps
  <2>5. sessions[w].step = "idle" /\ UNCHANGED rows /\ sessions' = [sessions EXCEPT ![w] = n]
    BY <1>4, <2>1 DEF BeginDelete, Go
  <2>6. QED
    BY <2>1, <2>2, <2>3, <2>4, <2>5 DEF Creates
<1>5. QED
  BY <1>2, <1>3, <1>4

LEMMA Demoted ==
  ASSUME ReleaseInv, NEW w \in Workers, Demote(w), NEW s, s = sessions[w]
  PROVE  /\ s.step = "demote" /\ UNCHANGED rows
         /\ \E n \in Sessions :
              /\ sessions' = [sessions EXCEPT ![w] = n]
              /\ n.step = IF s.seen = NoRow THEN "create" ELSE "update"
              /\ n.id = s.id /\ n.patch = s.patch /\ n.seen = s.seen
              /\ n.matched =
                   {r \in Releases : rows[r].channel = Target(s.seen, s.patch) /\ rows[r].latest}
<1>1. PICK step, matched :
        /\ step = IF s.seen = NoRow THEN "create" ELSE "update"
        /\ matched = {r \in Releases : rows[r].channel = Target(s.seen, s.patch) /\ rows[r].latest}
  OBVIOUS
<1>2. PICK n : n = [s EXCEPT !.step = step, !.matched = matched]
  OBVIOUS
<1>3. s \in Sessions
  BY DEF ReleaseInv, TypeOK
<1>4. step \in Steps /\ matched \in SUBSET Releases
  BY <1>1 DEF Steps
<1>5. /\ n \in Sessions /\ n.step = step /\ n.matched = matched
      /\ n.id = s.id /\ n.patch = s.patch /\ n.seen = s.seen
  BY <1>2, <1>3, <1>4 DEF Sessions
<1>6. sessions' = [sessions EXCEPT ![w] = n] /\ s.step = "demote" /\ UNCHANGED rows
  BY <1>1, <1>2 DEF Demote
<1>7. QED
  BY <1>1, <1>5, <1>6

(* A step of one handler that writes no row.                               *)
LEMMA MoveKeeps ==
  ASSUME ReleaseInv, NEW w \in Workers, NEW n \in Sessions, Sound(n), UNCHANGED rows,
         sessions' = [sessions EXCEPT ![w] = n],
         n.step # "idle" =>
           \A v \in Workers \ {w} :
             sessions[v].step # "idle" /\ (Creates(n) \/ Creates(sessions[v])) =>
               sessions[v].id # n.id
  PROVE  ReleaseInv'
<1>1. TypeOK'
  BY DEF ReleaseInv, TypeOK
<1>2. sessions'[w] = n /\ \A v \in Workers : v # w => sessions'[v] = sessions[v]
  BY DEF ReleaseInv, TypeOK
<1>3. \A v \in Workers : Sound(sessions[v])'
  BY <1>2 DEF ReleaseInv, Sound
<1>4. IdsUnshared'
  <2>1. SUFFICES ASSUME NEW v \in Workers, NEW u \in Workers, v # u, Creates(sessions'[v]),
                        sessions'[u].step # "idle"
                 PROVE  sessions'[u].id # sessions'[v].id
    BY DEF IdsUnshared
  <2>2. sessions'[v].step # "idle"
    BY <2>1 DEF Creates
  <2>3. CASE v = w
    BY <1>2, <2>1, <2>2, <2>3
  <2>4. CASE u = w
    BY <1>2, <2>1, <2>2, <2>4
  <2>5. CASE u # w /\ v # w
    BY <1>2, <2>1, <2>5 DEF ReleaseInv, IdsUnshared
  <2>6. QED
    BY <2>3, <2>4, <2>5
<1>5. QED
  BY <1>1, <1>3, <1>4 DEF ReleaseInv

LEMMA ReleaseStep == ReleaseInv /\ [Next]_vars => ReleaseInv'
<1> SUFFICES ASSUME ReleaseInv, [Next]_vars
             PROVE  ReleaseInv'
  OBVIOUS
<1>1. ASSUME NEW w \in Workers
      PROVE  sessions[w] \in Sessions /\ Sound(sessions[w])
  BY DEF ReleaseInv, TypeOK
<1>2. CASE UNCHANGED vars
  BY <1>2 DEF vars, ReleaseInv, TypeOK, Sound, IdsUnshared
<1>3. ASSUME NEW w \in Workers, NEW r \in Releases, NEW patch,
             \/ patch \in Patches /\ (BeginCreate(w, r, patch) \/ BeginUpdate(w, r, patch))
             \/ BeginDelete(w, r)
      PROVE  ReleaseInv'
  <2>1. PICK n \in Sessions :
              /\ sessions' = [sessions EXCEPT ![w] = n]
              /\ n.step \in {"demote", "create", "update", "delete"} /\ n.id = r /\ n.matched = {}
              /\ n.step = "create" => n.seen = NoRow /\ ~Demotes(n.seen, n.patch)
              /\ n.step = "demote" => Demotes(n.seen, n.patch)
              /\ n.step = "update" => ~Demotes(n.seen, n.patch)
              /\ \/ /\ Creates(n) /\ n.patch \in Body /\ rows[r] = NoRow
                    /\ \A v \in Workers : sessions[v].id # r
                 \/ /\ ~Creates(n) /\ n.seen = rows[r] /\ rows[r] \in Row
                    /\ ~rows[r].deleted /\ MayUpdate(n.seen, n.patch)
    BY <1>3, Begun
  <2>2. UNCHANGED rows
    BY <1>3, Begun
  <2>3. Sound(n)
    BY <2>1 DEF Sound
  <2>4. ASSUME NEW v \in Workers, sessions[v].step # "idle", Creates(n) \/ Creates(sessions[v])
        PROVE  sessions[v].id # n.id
    BY <1>1, <2>1, <2>4, RowsAreRows DEF Sound
  <2>5. QED
    BY <2>1, <2>2, <2>3, <2>4, MoveKeeps
<1>4. ASSUME NEW w \in Workers, Demote(w)
      PROVE  ReleaseInv'
  <2>1. PICK n \in Sessions :
              /\ sessions' = [sessions EXCEPT ![w] = n]
              /\ n.step = IF sessions[w].seen = NoRow THEN "create" ELSE "update"
              /\ n.id = sessions[w].id /\ n.patch = sessions[w].patch /\ n.seen = sessions[w].seen
    BY <1>4, Demoted
  <2>2. UNCHANGED rows /\ sessions[w].step = "demote"
    BY <1>4, Demoted
  <2>3. (Creates(n) <=> Creates(sessions[w])) /\ Sound(n)
    BY <1>1, <2>1, <2>2 DEF Sound, Creates
  <2>4. ASSUME NEW v \in Workers \ {w}, sessions[v].step # "idle", Creates(n) \/ Creates(sessions[v])
        PROVE  sessions[v].id # n.id
    BY <2>1, <2>2, <2>3, <2>4 DEF ReleaseInv, IdsUnshared
  <2>5. QED
    BY <2>1, <2>2, <2>3, <2>4, MoveKeeps
<1>5. ASSUME NEW w \in Workers, CommitCreate(w) \/ CommitUpdate(w) \/ CommitDelete(w)
      PROVE  ReleaseInv'
  <2>1. PICK s : s = sessions[w]
    OBVIOUS
  <2>2. s.id \in Releases /\ s \in Sessions /\ s.step # "idle"
    BY <1>5, <2>1, CommitWrites
  <2>3. PICK new \in Row : Commit(w, new)
    BY <1>5, CommitWrites
  <2>4. /\ rows' \in [Releases -> Row \cup {NoRow}]
        /\ sessions' = [sessions EXCEPT ![w] = Idle]
        /\ rows'[s.id] = new
        /\ \A r \in Releases \ {s.id} :
              (rows[r] \in Row => rows'[r] \in Row) /\ (rows[r] = NoRow => rows'[r] = NoRow)
    BY <2>1, <2>2, <2>3, CommitRows
  <2>5. sessions'[w] = Idle /\ \A v \in Workers : v # w => sessions'[v] = sessions[v]
    BY <2>4 DEF ReleaseInv, TypeOK
  <2>6. TypeOK'
    BY <2>4, IdleSession DEF ReleaseInv, TypeOK
  <2>7. ASSUME NEW v \in Workers
        PROVE  Sound(sessions[v])'
    <3>1. CASE v = w
      BY <2>5, <3>1, IdleSession DEF Sound
    <3>2. CASE v # w /\ Creates(sessions[v])
      <4>1. s.id # sessions[v].id
        BY <2>1, <2>2, <3>2 DEF ReleaseInv, IdsUnshared
      <4>2. QED
        BY <1>1, <2>4, <2>5, <3>2, <4>1 DEF Sound
    <3>3. CASE v # w /\ ~Creates(sessions[v])
      <4>1. sessions[v].step # "idle" => sessions[v].id \in Releases /\ rows[sessions[v].id] \in Row
        BY <1>1, <3>3 DEF Sound
      <4>2. sessions[v].step # "idle" => rows'[sessions[v].id] \in Row
        BY <2>4, <4>1
      <4>3. QED
        BY <1>1, <2>5, <3>3, <4>2 DEF Sound
    <3>4. QED
      BY <3>1, <3>2, <3>3
  <2>8. IdsUnshared'
    BY <2>5, IdleSession DEF ReleaseInv, IdsUnshared, Creates
  <2>9. QED
    BY <2>6, <2>7, <2>8 DEF ReleaseInv
<1>6. ASSUME NEW w \in Workers, Fail(w)
      PROVE  ReleaseInv'
  BY <1>6, MoveKeeps, IdleSession DEF Fail, Sound
<1>7. QED
  BY <1>2, <1>3, <1>4, <1>5, <1>6 DEF Next

LEMMA ReleaseInvariant == Spec => []ReleaseInv
<1>1. Init => ReleaseInv
  BY IdleSession DEF Init, ReleaseInv, TypeOK, Sound, IdsUnshared
<1>2. QED
  BY <1>1, ReleaseStep, PTL DEF Spec

(* The bound of TLC's instance only removes steps.                         *)
LEMMA BoundedIsHistory == MCSpec => HistorySpec
<1>1. [MCNext]_<<vars, overlapped, moved>> => [HistoryNext]_<<vars, overlapped, moved>>
  BY DEF MCNext
<1>2. QED
  BY <1>1, PTL DEF MCSpec, HistorySpec

LEMMA AlwaysSpec == HistorySpec => Spec
<1>1. MCInit => Init
  BY DEF MCInit
<1>2. [HistoryNext]_<<vars, overlapped, moved>> => [Next]_vars
  BY DEF HistoryNext
<1>3. QED
  BY <1>1, <1>2, PTL DEF HistorySpec, Spec

(* What a commit writes to the rows other handlers may be about.            *)
LEMMA RowsChange ==
  ASSUME ReleaseInv, Next
  PROVE  \/ UNCHANGED rows
         \/ \E w \in Workers : CommitCreate(w) \/ CommitUpdate(w) \/ CommitDelete(w)
BY DEF Next, BeginCreate, BeginUpdate, BeginDelete, Go, Demote, Fail

(* A release published by an update is stamped and no update takes a stamp  *)
(* away: a published release without one was created published.             *)
THEOREM PublishedIsStamped == Spec => UnstampedAreBornPublished
<1>1. ReleaseInv /\ [Next]_vars =>
        [\A r \in Releases :
           rows[r].status # None =>
             /\ rows[r].stamped => rows'[r].stamped
             /\ rows'[r].status = "PUBLISHED" =>
                  rows'[r].stamped \/ rows[r].status = "PUBLISHED"]_vars
  <2> SUFFICES ASSUME ReleaseInv, Next, NEW r \in Releases, rows[r].status # None
               PROVE  /\ rows[r].stamped => rows'[r].stamped
                      /\ rows'[r].status = "PUBLISHED" =>
                           rows'[r].stamped \/ rows[r].status = "PUBLISHED"
    OBVIOUS
  <2>1. CASE UNCHANGED rows
    BY <2>1
  <2>2. ASSUME NEW w \in Workers, CommitCreate(w) \/ CommitUpdate(w) \/ CommitDelete(w)
        PROVE  /\ rows[r].stamped => rows'[r].stamped
               /\ rows'[r].status = "PUBLISHED" =>
                    rows'[r].stamped \/ rows[r].status = "PUBLISHED"
    <3>1. PICK s : s = sessions[w]
      OBVIOUS
    <3>2. PICK new \in Row :
              /\ Commit(w, new)
              /\ s.step = "create" => rows[s.id] = NoRow
              /\ s.step = "update" =>
                   /\ s.seen \in Row /\ rows[s.id] \in Row
                   /\ new = PatchedRow(rows[s.id], s.seen, s.patch)
              /\ s.step = "delete" =>
                   /\ rows[s.id] \in Row /\ new.status = rows[s.id].status
                   /\ new.channel = rows[s.id].channel /\ new.build = rows[s.id].build
                   /\ new.latest = rows[s.id].latest /\ new.stamped = rows[s.id].stamped
              /\ s.step \in {"create", "update", "delete"}
      BY <2>2, <3>1, CommitWrites
    <3>3. s.id \in Releases /\ s \in Sessions
      BY <2>2, <3>1, CommitWrites
    <3>4. CASE r # s.id
      BY <3>1, <3>2, <3>3, <3>4, CommitRows
    <3>5. CASE r = s.id
      <4>1. rows'[r] = new
        BY <3>1, <3>2, <3>3, <3>5, CommitRows
      <4>2. CASE s.step = "create"
        BY <3>2, <3>5, <4>2 DEF NoRow
      <4>3. CASE s.step = "update"
        <5>1. /\ rows[r] \in Row /\ s.seen \in Row /\ s.patch \in AllPatches
              /\ new = PatchedRow(rows[r], s.seen, s.patch)
          BY <3>2, <3>3, <3>5, <4>3 DEF Sessions
        <5>2. new.status = Patched(rows[r].status, s.seen.status, s.patch.status)
          BY <5>1, PatchedRowIs
        <5>3. /\ rows[r].stamped => new.stamped
              /\ s.patch.status = "PUBLISHED" /\ s.seen.status # "PUBLISHED" => new.stamped
          BY <5>1, PatchedRowStamp
        <5>4. QED
          BY <4>1, <5>2, <5>3 DEF Patched
      <4>4. CASE s.step = "delete"
        BY <3>2, <3>5, <4>1, <4>4
      <4>5. QED
        BY <3>2, <4>2, <4>3, <4>4
    <3>6. QED
      BY <3>4, <3>5
  <2>3. QED
    BY <2>1, <2>2, RowsChange
<1>2. QED
  BY <1>1, ReleaseInvariant, PTL DEF Spec, UnstampedAreBornPublished
--------------------------------------------------------------------------------
(* The latest releases of a channel no release has moved to: each has a     *)
(* handler of its own, and a handler about to add another takes its own away *)
(* in the same commit.                                                      *)
Flagged(c) == {r \in Releases : rows[r].channel = c /\ rows[r].latest}

Promotes(s, c) ==
  s.step \in {"create", "update"} /\ Demotes(s.seen, s.patch) /\ Target(s.seen, s.patch) = c

OwnedBy(f, c) ==
  /\ f \in [Flagged(c) -> Workers]
  /\ \A q, r \in Flagged(c) : f[q] = f[r] => q = r
  /\ \A r \in Flagged(c) : Promotes(sessions[f[r]], c) => r \in sessions[f[r]].matched

(* The copy a handler works on is about the channel the release is in,      *)
(* unless the release has moved since.                                      *)
ChannelKept(s) ==
  s.step # "idle" /\ ~Creates(s) => rows[s.id].channel \in {s.seen.channel} \cup moved

OwnedInv ==
  /\ \A w \in Workers : ChannelKept(sessions[w])
  /\ \A c \in Channels \ moved : \E f : OwnedBy(f, c)

(* The latest releases of a channel after a commit.                         *)
LEMMA Promoted ==
  ASSUME ReleaseInv, NEW w \in Workers, CommitCreate(w) \/ CommitUpdate(w) \/ CommitDelete(w),
         NEW s, s = sessions[w], NEW c \in Channels
  PROVE  /\ s.id \in Releases /\ sessions' = [sessions EXCEPT ![w] = Idle]
         /\ \A r \in Releases \ {s.id} :
              /\ rows'[r].status = rows[r].status /\ rows'[r].deleted = rows[r].deleted
              /\ rows'[r].channel = rows[r].channel
              /\ rows'[r].latest => rows[r].latest
              /\ r \in Flagged(c)' => ~(r \in s.matched /\ Promotes(s, c))
         /\ s.id \in Flagged(c)' =>
              \/ s.id \in Flagged(c)
              \/ rows[s.id].channel \notin {None, c}
              \/ Promotes(s, c)
              \/ /\ s.step = "update" /\ s.seen \in Row
                 /\ s.seen.channel # c /\ rows[s.id].channel = c
<1>1. PICK new \in Row :
              /\ Commit(w, new)
              /\ s.step = "create" =>
                   /\ s.seen = NoRow /\ s.patch \in Body
                   /\ new.channel = s.patch.channel /\ new.latest = s.patch.latest
              /\ s.step = "update" =>
                   /\ s.seen \in Row /\ rows[s.id] \in Row
                   /\ new = PatchedRow(rows[s.id], s.seen, s.patch)
              /\ s.step = "delete" =>
                   new.channel = rows[s.id].channel /\ new.latest = rows[s.id].latest
              /\ s.step \in {"create", "update", "delete"}
  BY CommitWrites
<1>2. s.id \in Releases /\ s \in Sessions
  BY CommitWrites
<1>3. /\ sessions' = [sessions EXCEPT ![w] = Idle]
      /\ rows'[s.id] = new
      /\ \A r \in Releases \ {s.id} :
              /\ rows'[r].status = rows[r].status /\ rows'[r].channel = rows[r].channel
              /\ rows'[r].deleted = rows[r].deleted
              /\ rows'[r].latest =>
                   rows[r].latest /\ ~(r \in s.matched /\ rows[r].channel = Target(s.seen, s.patch))
  BY <1>1, <1>2, CommitRows
<1>4. ASSUME NEW r \in Releases \ {s.id}, r \in Flagged(c)', r \in s.matched
      PROVE  ~Promotes(s, c)
  BY <1>3, <1>4 DEF Flagged, Promotes
<1>5. ASSUME s.id \in Flagged(c)', s.id \notin Flagged(c), rows[s.id].channel \in {None, c}
      PROVE  \/ Promotes(s, c)
             \/ /\ s.step = "update" /\ s.seen \in Row
                /\ s.seen.channel # c /\ rows[s.id].channel = c
  <2>1. new.channel = c /\ new.latest
    BY <1>2, <1>3, <1>5 DEF Flagged
  <2>2. CASE s.step = "create"
    <3>1. s.patch.latest = TRUE /\ s.patch.channel = c /\ s.patch.channel # None
      BY <1>1, <2>1, <2>2, NoneIsNoValue DEF Row, Body
    <3>2. s.seen.latest = FALSE
      BY <1>1, <2>2 DEF NoRow
    <3>3. QED
      BY <2>2, <3>1, <3>2 DEF Promotes, Demotes, Target
  <2>3. CASE s.step = "update"
    <3>1. PICK row, seen, patch : row = rows[s.id] /\ seen = s.seen /\ patch = s.patch
      OBVIOUS
    <3>2. row \in Row /\ seen \in Row /\ patch \in AllPatches /\ new = PatchedRow(row, seen, patch)
      BY <1>1, <1>2, <2>3, <3>1 DEF Sessions
    <3>3. new.channel = Patched(row.channel, seen.channel, patch.channel)
      BY <3>2, PatchedRowIs
    <3>4. row.channel = c /\ ~row.latest
      BY <1>2, <1>5, <3>1, <3>2, RowsAreRows DEF Flagged
    <3>5. Demotes(seen, patch)
      BY <2>1, <3>2, <3>4, PatchedRowLatest
    <3>6. seen.channel # c \/ Target(seen, patch) = c
      BY <2>1, <3>2, <3>3 DEF Patched, Target
    <3>7. QED
      BY <2>3, <3>1, <3>2, <3>4, <3>5, <3>6 DEF Promotes
  <2>4. CASE s.step = "delete"
    BY <1>1, <1>2, <1>5, <2>1, <2>4 DEF Flagged
  <2>5. QED
    BY <1>1, <2>2, <2>3, <2>4
<1>6. QED
  BY <1>2, <1>3, <1>4, <1>5

(* A step of one handler that writes no row. *)
LEMMA MoveOwned ==
  ASSUME ReleaseInv, OwnedInv, NEW w \in Workers, NEW n, UNCHANGED rows, moved \subseteq moved',
         sessions' = [sessions EXCEPT ![w] = n], ChannelKept(n),
         \A c \in Channels : Promotes(n, c) => Flagged(c) \subseteq n.matched
  PROVE  OwnedInv'
<1>1. sessions'[w] = n /\ \A v \in Workers : v # w => sessions'[v] = sessions[v]
  BY DEF ReleaseInv, TypeOK
<1>2. \A v \in Workers : ChannelKept(sessions[v])'
  BY <1>1 DEF OwnedInv, ChannelKept
<1>3. ASSUME NEW c \in Channels \ moved'
      PROVE  \E f : OwnedBy(f, c)'
  <2>1. PICK f : OwnedBy(f, c)
    BY DEF OwnedInv
  <2>2. Flagged(c)' = Flagged(c)
    BY DEF Flagged
  <2>3. ASSUME NEW r \in Flagged(c), Promotes(sessions'[f[r]], c)
        PROVE  r \in sessions'[f[r]].matched
    <3>1. CASE f[r] = w
      BY <1>1, <2>3, <3>1
    <3>2. CASE f[r] # w
      BY <1>1, <2>1, <2>3, <3>2 DEF OwnedBy
    <3>3. QED
      BY <3>1, <3>2
  <2>4. OwnedBy(f, c)'
    BY <2>1, <2>2, <2>3 DEF OwnedBy
  <2>5. QED
    BY <2>4
<1>4. QED
  BY <1>2, <1>3 DEF OwnedInv

(* A commit that gives a channel no release has moved to another latest     *)
(* release takes the committing handler's own away.                         *)
LEMMA CommitOwned ==
  ASSUME ReleaseInv, ReleaseInv', OwnedInv, Remembered, NEW w \in Workers,
         CommitCreate(w) \/ CommitUpdate(w) \/ CommitDelete(w)
  PROVE  OwnedInv'
<1>1. PICK s : s = sessions[w]
  OBVIOUS
<1>2. s.id \in Releases /\ sessions' = [sessions EXCEPT ![w] = Idle]
      /\ \A r \in Releases \ {s.id} : rows'[r].channel = rows[r].channel
  <2>1. s.id \in Releases /\ \E new \in Row : Commit(w, new)
    BY <1>1, CommitWrites
  <2>2. QED
    BY <1>1, <2>1, CommitRows
<1>3. sessions'[w] = Idle /\ \A v \in Workers : v # w => sessions'[v] = sessions[v]
  BY <1>2 DEF ReleaseInv, TypeOK
<1>4. ASSUME NEW c \in Channels \ moved', NEW r \in Releases, rows'[r].channel = c
      PROVE  c \notin moved /\ rows[r].channel \in {None, c}
  BY <1>4 DEF Remembered, Movers
<1>5. ASSUME NEW v \in Workers
      PROVE  ChannelKept(sessions[v])'
  <2>1. PICK u : u = sessions[v]
    OBVIOUS
  <2>2. CASE v = w
    BY <1>3, <2>2, IdleSession DEF ChannelKept
  <2>3. CASE v # w /\ (u.step = "idle" \/ Creates(u))
    BY <1>3, <2>1, <2>3 DEF ChannelKept, Creates
  <2>4. CASE v # w /\ u.step # "idle" /\ ~Creates(u)
    <3>1. u.id \in Releases /\ rows[u.id].channel \in {u.seen.channel} \cup moved
          /\ rows[u.id] \in Row /\ Sound(u)'
      BY <1>3, <2>1, <2>4 DEF ReleaseInv, OwnedInv, ChannelKept, Sound
    <3>2. rows'[u.id] \in Row /\ rows'[u.id].channel \in Channels
      BY <2>4, <3>1 DEF Sound, Creates, Row
    <3>3. rows[u.id].channel # None
      BY <3>1, RowsAreRows
    <3>4. rows'[u.id].channel \in {u.seen.channel} \cup moved'
      <4>1. CASE rows'[u.id].channel \in moved'
        BY <4>1
      <4>2. CASE rows'[u.id].channel \notin moved'
        BY <1>4, <3>1, <3>2, <3>3, <4>2
      <4>3. QED
        BY <4>1, <4>2
    <3>5. QED
      BY <1>3, <2>1, <2>4, <3>4 DEF ChannelKept
  <2>5. QED
    BY <2>2, <2>3, <2>4
<1>6. ASSUME NEW c \in Channels \ moved'
      PROVE  \E f : OwnedBy(f, c)'
  <2>1. c \notin moved
    BY DEF Remembered
  <2>2. PICK f : OwnedBy(f, c)
    BY <2>1 DEF OwnedInv
  <2>3. PICK g : g = [r \in Flagged(c)' |-> IF r \in Flagged(c) THEN f[r] ELSE w]
    OBVIOUS
  <2>4. ASSUME NEW r \in Flagged(c)', r # s.id
        PROVE  r \in Flagged(c) /\ ~(r \in s.matched /\ Promotes(s, c))
    <3>1. r \in Releases /\ rows'[r].channel = c /\ rows'[r].latest
      BY DEF Flagged
    <3>2. rows[r].channel = c /\ rows[r].latest /\ ~(r \in s.matched /\ Promotes(s, c))
      BY <1>1, <2>4, <3>1, Promoted
    <3>3. QED
      BY <3>1, <3>2 DEF Flagged
  <2>5. ASSUME s.id \in Flagged(c)', s.id \notin Flagged(c)
        PROVE  Promotes(s, c)
    <3>1. rows'[s.id].channel = c
      BY <2>5 DEF Flagged
    <3>2. rows[s.id].channel \in {None, c}
      BY <1>2, <1>4, <3>1
    <3>3. ~(/\ s.step = "update" /\ s.seen \in Row
            /\ s.seen.channel # c /\ rows[s.id].channel = c)
      BY <1>1, <2>1, RowsAreRows DEF OwnedInv, ChannelKept, Creates
    <3>4. QED
      BY <1>1, <2>5, <3>2, <3>3, Promoted
  <2>6. ASSUME NEW r \in Flagged(c)', r # s.id, Promotes(s, c)
        PROVE  f[r] # w
    BY <1>1, <2>2, <2>4, <2>6 DEF OwnedBy
  <2>7. \A r \in Flagged(c)' : r \in Flagged(c) => g[r] = f[r]
    BY <2>3
  <2>8. \A r \in Flagged(c)' : r \notin Flagged(c) => r = s.id /\ g[r] = w /\ Promotes(s, c)
    BY <2>3, <2>4, <2>5
  <2>9. g \in [Flagged(c)' -> Workers]
    BY <2>2, <2>3 DEF OwnedBy
  <2>10. ASSUME NEW q \in Flagged(c)', NEW r \in Flagged(c)', g[q] = g[r]
         PROVE  q = r
    <3>1. CASE q \in Flagged(c) /\ r \in Flagged(c)
      BY <2>2, <2>7, <2>10, <3>1 DEF OwnedBy
    <3>2. CASE q \notin Flagged(c) \/ r \notin Flagged(c)
      BY <2>4, <2>6, <2>7, <2>8, <2>10, <3>2
    <3>3. QED
      BY <3>1, <3>2
  <2>11. ASSUME NEW r \in Flagged(c)', Promotes(sessions'[g[r]], c)
         PROVE  r \in sessions'[g[r]].matched
    <3>1. g[r] # w
      BY <1>3, <2>11, IdleSession DEF Promotes
    <3>2. r \in Flagged(c) /\ g[r] = f[r] /\ f[r] \in Workers
      BY <2>2, <2>7, <2>8, <3>1 DEF OwnedBy
    <3>3. QED
      BY <1>3, <2>2, <2>11, <3>1, <3>2 DEF OwnedBy
  <2>12. OwnedBy(g, c)'
    BY <2>9, <2>10, <2>11 DEF OwnedBy
  <2>13. QED
    BY <2>12
<1>7. QED
  BY <1>5, <1>6 DEF OwnedInv

LEMMA OwnedStep ==
  ASSUME ReleaseInv, ReleaseInv', OwnedInv, HistoryNext
  PROVE  OwnedInv'
<1>1. moved \subseteq moved' /\ Remembered
  BY DEF HistoryNext, Remembered
<1>2. ASSUME NEW w \in Workers, NEW r \in Releases, NEW patch,
             \/ patch \in Patches /\ (BeginCreate(w, r, patch) \/ BeginUpdate(w, r, patch))
             \/ BeginDelete(w, r)
      PROVE  OwnedInv'
  <2>1. PICK n \in Sessions :
              /\ sessions' = [sessions EXCEPT ![w] = n] /\ n.id = r
              /\ n.step \in {"create", "update"} => ~Demotes(n.seen, n.patch)
              /\ Creates(n) \/ n.seen = rows[r]
    BY <1>2, Begun
  <2>2. UNCHANGED rows
    BY <1>2, Begun
  <2>3. ChannelKept(n) /\ \A c \in Channels : ~Promotes(n, c)
    BY <2>1 DEF ChannelKept, Promotes
  <2>4. QED
    BY <1>1, <2>1, <2>2, <2>3, MoveOwned
<1>3. ASSUME NEW w \in Workers, Demote(w)
      PROVE  OwnedInv'
  <2>1. PICK s : s = sessions[w]
    OBVIOUS
  <2>2. PICK n \in Sessions :
              /\ sessions' = [sessions EXCEPT ![w] = n]
              /\ n.step = IF s.seen = NoRow THEN "create" ELSE "update"
              /\ n.id = s.id /\ n.patch = s.patch /\ n.seen = s.seen
              /\ n.matched =
                   {r \in Releases : rows[r].channel = Target(s.seen, s.patch) /\ rows[r].latest}
    BY <1>3, <2>1, Demoted
  <2>3. UNCHANGED rows /\ s.step = "demote"
    BY <1>3, <2>1, Demoted
  <2>4. ChannelKept(n)
    BY <2>1, <2>2, <2>3 DEF OwnedInv, ChannelKept, Creates
  <2>5. \A c \in Channels : Promotes(n, c) => n.matched = Flagged(c)
    BY <2>2 DEF Promotes, Flagged
  <2>6. QED
    BY <1>1, <2>2, <2>3, <2>4, <2>5, MoveOwned
<1>4. ASSUME NEW w \in Workers, CommitCreate(w) \/ CommitUpdate(w) \/ CommitDelete(w)
      PROVE  OwnedInv'
  BY <1>1, <1>4, CommitOwned
<1>5. ASSUME NEW w \in Workers, Fail(w)
      PROVE  OwnedInv'
  BY <1>1, <1>5, MoveOwned, IdleSession DEF Fail, ChannelKept, Promotes
<1>6. QED
  BY <1>2, <1>3, <1>4, <1>5 DEF HistoryNext, Next

LEMMA OwnedInvariant == HistorySpec => []OwnedInv
<1>1. MCInit => OwnedInv
  <2> SUFFICES ASSUME MCInit
               PROVE  OwnedInv
    OBVIOUS
  <2>1. \A w \in Workers : ChannelKept(sessions[w])
    BY IdleSession DEF MCInit, Init, ChannelKept
  <2>2. ASSUME NEW c \in Channels
        PROVE  \E f : OwnedBy(f, c)
    <3>1. Flagged(c) = {}
      BY DEF MCInit, Init, Flagged, NoRow
    <3>2. OwnedBy([r \in {} |-> None], c)
      BY <3>1 DEF OwnedBy
    <3>3. QED
      BY <3>2
  <2>3. QED
    BY <2>1, <2>2 DEF OwnedInv
<1>2. ReleaseInv /\ ReleaseInv' /\ OwnedInv /\ [HistoryNext]_<<vars, overlapped, moved>> => OwnedInv'
  <2> SUFFICES ASSUME ReleaseInv, ReleaseInv', OwnedInv, [HistoryNext]_<<vars, overlapped, moved>>
               PROVE  OwnedInv'
    OBVIOUS
  <2>1. CASE UNCHANGED <<vars, overlapped, moved>>
    BY <2>1 DEF vars, OwnedInv, ChannelKept, OwnedBy, Flagged
  <2>2. CASE HistoryNext
    BY <2>2, OwnedStep
  <2>3. QED
    BY <2>1, <2>2
<1>3. QED
  BY <1>1, <1>2, ReleaseInvariant, AlwaysSpec, PTL DEF HistorySpec

(* However handlers overlap, a channel no release has moved to has at most  *)
(* one latest release for each of them.                                     *)
THEOREM LatestIsBounded == HistorySpec => []LatestBounded
<1>1. OwnedInv => LatestBounded
  <2> SUFFICES ASSUME OwnedInv, NEW c \in Channels \ moved
               PROVE  Cardinality(Latest(c)) <= Cardinality(Workers)
    BY DEF LatestBounded
  <2>1. PICK f : OwnedBy(f, c)
    BY DEF OwnedInv
  <2>2. f \in Injection(Flagged(c), Workers)
    BY <2>1 DEF OwnedBy, Injection, IsInjective
  <2>3. IsFiniteSet(Flagged(c)) /\ Cardinality(Flagged(c)) <= Cardinality(Workers)
    BY <2>2, WorkersAreFinite, FS_Injection
  <2>4. Latest(c) \subseteq Flagged(c)
    BY DEF Latest, Flagged
  <2>5. Cardinality(Latest(c)) <= Cardinality(Flagged(c)) /\ IsFiniteSet(Latest(c))
    BY <2>3, <2>4, FS_Subset
  <2>6. QED
    BY <2>3, <2>5, WorkersAreFinite, FS_CardinalityType
<1>2. QED
  BY <1>1, OwnedInvariant, PTL
--------------------------------------------------------------------------------
(* Until requests overlap the one handler at work has an up-to-date copy of *)
(* its release, and its demotion found every latest release of the channel. *)
OneAtATime ==
  \A v, w \in Workers : sessions[v].step # "idle" /\ sessions[w].step # "idle" => v = w

Current(s) ==
  /\ s.step # "idle" /\ ~Creates(s) => s.seen = rows[s.id] /\ ~rows[s.id].deleted
  /\ \A c \in Channels : Promotes(s, c) => Flagged(c) \subseteq s.matched

AloneInv ==
  ~overlapped => OneAtATime /\ \A w \in Workers : Current(sessions[w])

(* There is no end of releases, but there are only so many at a time.      *)
Written == {r \in Releases : rows[r] # NoRow}

LEMMA WrittenIsFinite == Spec => []IsFiniteSet(Written)
<1>1. Init => IsFiniteSet(Written)
  <2> SUFFICES ASSUME Init
               PROVE  IsFiniteSet(Written)
    OBVIOUS
  <2>1. Written = {}
    BY DEF Init, Written
  <2>2. QED
    BY <2>1, FS_EmptySet
<1>2. ReleaseInv /\ IsFiniteSet(Written) /\ [Next]_vars => IsFiniteSet(Written)'
  <2> SUFFICES ASSUME ReleaseInv, IsFiniteSet(Written), [Next]_vars
               PROVE  IsFiniteSet(Written)'
    OBVIOUS
  <2>1. CASE UNCHANGED rows
    BY <2>1 DEF Written
  <2>2. ASSUME NEW w \in Workers, CommitCreate(w) \/ CommitUpdate(w) \/ CommitDelete(w)
        PROVE  IsFiniteSet(Written)'
    <3>1. PICK s : s = sessions[w]
      OBVIOUS
    <3>2. s.id \in Releases /\ \E new \in Row : Commit(w, new)
      BY <2>2, <3>1, CommitWrites
    <3>3. \A r \in Releases \ {s.id} : rows[r] = NoRow => rows'[r] = NoRow
      BY <3>1, <3>2, CommitRows
    <3>4. Written' \subseteq Written \cup {s.id}
      BY <3>3 DEF Written
    <3>5. IsFiniteSet(Written \cup {s.id})
      BY FS_AddElement
    <3>6. IsFiniteSet(Written')
      BY <3>4, <3>5, FS_Subset
    <3>7. QED
      BY <3>6
  <2>3. QED
    BY <2>1, <2>2, RowsChange DEF vars
<1>3. QED
  BY <1>1, <1>2, ReleaseInvariant, PTL DEF Spec

LEMMA LatestIsWritten ==
  ASSUME NEW c
  PROVE  Latest(c) \subseteq Written /\ Latest(c) \subseteq Flagged(c)
BY DEF Latest, Exists, Written, Flagged, NoRow

LEMMA NoOverlap ==
  ASSUME NEW W, IsFiniteSet(W), NEW S, NEW ss \in [W -> S], ~Overlap(ss),
         NEW v \in W, NEW w \in W, ss[v].step # "idle", ss[w].step # "idle"
  PROVE  v = w
<1> SUFFICES ASSUME v # w PROVE FALSE
  OBVIOUS
<1>1. {v, w} \subseteq Busy(ss) /\ Busy(ss) \subseteq W
  BY DEF Busy
<1>2. IsFiniteSet(Busy(ss))
  BY <1>1, FS_Subset
<1>3. Cardinality({v, w}) = 2
  <2>1. IsFiniteSet({v}) /\ Cardinality({v}) = 1
    BY FS_Singleton
  <2>2. {v, w} = {v} \cup {w} /\ w \notin {v}
    OBVIOUS
  <2>3. Cardinality({v} \cup {w}) = Cardinality({v}) + 1
    BY <2>1, <2>2, FS_AddElement
  <2>4. QED
    BY <2>1, <2>2, <2>3
<1>4. Cardinality({v, w}) <= Cardinality(Busy(ss)) /\ Cardinality(Busy(ss)) \in Nat
  BY <1>1, <1>2, FS_Subset, FS_CardinalityType
<1>5. QED
  BY <1>3, <1>4 DEF Overlap

LEMMA AtATime ==
  ASSUME sessions' \in [Workers -> Sessions], ~Overlap(sessions')
  PROVE  OneAtATime'
BY WorkersAreFinite, NoOverlap DEF OneAtATime

(* What remains to be shown of a step that one handler takes. *)
LEMMA AloneKept ==
  ASSUME ReleaseInv, ReleaseInv', OneAtATime, ~Overlap(sessions'), NEW w \in Workers, NEW n,
         sessions' = [sessions EXCEPT ![w] = n], sessions[w].step # "idle" \/ n.step # "idle",
         Current(n)'
  PROVE  OneAtATime' /\ \A v \in Workers : Current(sessions[v])'
<1>1. sessions \in [Workers -> Sessions] /\ sessions' \in [Workers -> Sessions]
  BY DEF ReleaseInv, TypeOK
<1>2. OneAtATime'
  BY <1>1, AtATime
<1>3. sessions'[w] = n /\ \A v \in Workers : v # w => sessions'[v] = sessions[v]
  BY <1>1
<1>4. \A v \in Workers : v # w => sessions'[v].step = "idle"
  BY <1>2, <1>3 DEF OneAtATime
<1>5. QED
  BY <1>2, <1>3, <1>4 DEF Current, Promotes

LEMMA AloneStep ==
  ASSUME ReleaseInv, ReleaseInv', Next, OneAtATime, \A w \in Workers : Current(sessions[w]),
         ~Overlap(sessions')
  PROVE  OneAtATime' /\ \A w \in Workers : Current(sessions[w])'
<1>1. Current(Idle)'
  BY IdleSession DEF Current, Promotes
<1>2. ASSUME NEW w \in Workers, NEW r \in Releases, NEW patch,
             \/ patch \in Patches /\ (BeginCreate(w, r, patch) \/ BeginUpdate(w, r, patch))
             \/ BeginDelete(w, r)
      PROVE  OneAtATime' /\ \A v \in Workers : Current(sessions[v])'
  <2>1. PICK n \in Sessions :
              /\ sessions' = [sessions EXCEPT ![w] = n] /\ n.id = r
              /\ n.step \in {"demote", "create", "update", "delete"}
              /\ n.step \in {"create", "update"} => ~Demotes(n.seen, n.patch)
              /\ Creates(n) \/ (n.seen = rows[r] /\ ~rows[r].deleted)
    BY <1>2, Begun
  <2>2. UNCHANGED rows
    BY <1>2, Begun
  <2>3. Current(n)'
    BY <2>1, <2>2 DEF Current, Promotes, Creates
  <2>4. QED
    BY <2>1, <2>3, AloneKept
<1>3. ASSUME NEW w \in Workers, Demote(w)
      PROVE  OneAtATime' /\ \A v \in Workers : Current(sessions[v])'
  <2>1. PICK s : s = sessions[w]
    OBVIOUS
  <2>2. PICK n \in Sessions :
              /\ sessions' = [sessions EXCEPT ![w] = n]
              /\ n.step = IF s.seen = NoRow THEN "create" ELSE "update"
              /\ n.id = s.id /\ n.patch = s.patch /\ n.seen = s.seen
              /\ n.matched =
                   {r \in Releases : rows[r].channel = Target(s.seen, s.patch) /\ rows[r].latest}
    BY <1>3, <2>1, Demoted
  <2>3. UNCHANGED rows /\ s.step = "demote" /\ Current(s)
    BY <1>3, <2>1, Demoted
  <2>4. Current(n)'
    <3>1. n.step # "idle" /\ ~Creates(n) => n.seen = rows[n.id] /\ ~rows[n.id].deleted
      BY <2>2, <2>3 DEF Current, Creates
    <3>2. \A c \in Channels : Promotes(n, c) => n.matched = Flagged(c)
      BY <2>2 DEF Promotes, Flagged
    <3>3. QED
      BY <2>3, <3>1, <3>2 DEF Current, Flagged
  <2>5. QED
    BY <2>1, <2>2, <2>3, <2>4, AloneKept
<1>4. ASSUME NEW w \in Workers, CommitCreate(w) \/ CommitUpdate(w) \/ CommitDelete(w)
      PROVE  OneAtATime' /\ \A v \in Workers : Current(sessions[v])'
  <2>1. sessions[w].step # "idle" /\ sessions' = [sessions EXCEPT ![w] = Idle]
    BY <1>4 DEF CommitCreate, CommitUpdate, CommitDelete, Commit
  <2>2. QED
    BY <1>1, <2>1, AloneKept
<1>5. ASSUME NEW w \in Workers, Fail(w)
      PROVE  OneAtATime' /\ \A v \in Workers : Current(sessions[v])'
  BY <1>1, <1>5, AloneKept DEF Fail
<1>6. QED
  BY <1>2, <1>3, <1>4, <1>5 DEF Next

LEMMA AloneInvariant == HistorySpec => []AloneInv
<1>1. MCInit => AloneInv
  BY IdleSession DEF MCInit, Init, AloneInv, OneAtATime, Current, Promotes
<1>2. ReleaseInv /\ ReleaseInv' /\ AloneInv /\ [HistoryNext]_<<vars, overlapped, moved>> => AloneInv'
  <2> SUFFICES ASSUME ReleaseInv, ReleaseInv', AloneInv, ~overlapped',
                      [HistoryNext]_<<vars, overlapped, moved>>
               PROVE  AloneInv'
    BY DEF AloneInv
  <2>1. CASE UNCHANGED <<vars, overlapped, moved>>
    BY <2>1 DEF vars, AloneInv, OneAtATime, Current, Flagged
  <2>2. CASE HistoryNext
    <3>1. Next /\ ~overlapped /\ ~Overlap(sessions')
      BY <2>2 DEF HistoryNext, Remembered
    <3>2. QED
      BY <3>1, AloneStep DEF AloneInv
  <2>3. QED
    BY <2>1, <2>2
<1>3. QED
  BY <1>1, <1>2, ReleaseInvariant, AlwaysSpec, PTL DEF HistorySpec

(* Until requests overlap a published or archived release keeps its        *)
(* version, build and channel, whatever is demoted or changed around it.    *)
THEOREM PublishedFrozenUntilOverlap == HistorySpec => PublishedFrozenAlone
<1>1. ReleaseInv /\ AloneInv /\ [HistoryNext]_<<vars, overlapped, moved>> =>
        [~overlapped => PublishedFrozen]_vars
  <2> SUFFICES ASSUME ReleaseInv, AloneInv, Next, ~overlapped, NEW r \in Releases,
                      Protected(rows[r].status)
               PROVE  rows'[r].build = rows[r].build /\ rows'[r].channel = rows[r].channel
    BY DEF HistoryNext, PublishedFrozen
  <2>1. CASE UNCHANGED rows
    BY <2>1
  <2>2. ASSUME NEW w \in Workers, CommitCreate(w) \/ CommitUpdate(w) \/ CommitDelete(w)
        PROVE  rows'[r].build = rows[r].build /\ rows'[r].channel = rows[r].channel
    <3>1. PICK s : s = sessions[w]
      OBVIOUS
    <3>2. PICK new \in Row :
              /\ Commit(w, new)
              /\ s.step = "create" => rows[s.id] = NoRow
              /\ s.step = "update" =>
                   /\ s.seen \in Row /\ rows[s.id] \in Row /\ MayUpdate(s.seen, s.patch)
                   /\ new = PatchedRow(rows[s.id], s.seen, s.patch)
              /\ s.step = "delete" =>
                   new.channel = rows[s.id].channel /\ new.build = rows[s.id].build
              /\ s.step \in {"create", "update", "delete"}
      BY <2>2, <3>1, CommitWrites
    <3>3. s.id \in Releases /\ s \in Sessions
      BY <2>2, <3>1, CommitWrites
    <3>4. CASE r # s.id
      BY <3>1, <3>2, <3>3, <3>4, CommitRows
    <3>5. CASE r = s.id
      <4>1. rows'[r] = new
        BY <3>1, <3>2, <3>3, <3>5, CommitRows
      <4>2. s.step # "create"
        BY <3>2, <3>5, NoneIsNoValue DEF NoRow, Protected, Statuses
      <4>3. CASE s.step = "update"
        <5>1. PICK row, seen, patch : row = rows[r] /\ seen = s.seen /\ patch = s.patch
          OBVIOUS
        <5>2. row \in Row /\ seen \in Row /\ patch \in AllPatches /\ new = PatchedRow(row, seen, patch)
          BY <3>2, <3>3, <3>5, <4>3, <5>1 DEF Sessions
        <5>3. seen = row
          BY <3>1, <3>2, <3>5, <4>3, <5>1, RowsAreRows DEF AloneInv, Current, Creates
        <5>4. patch.build = None /\ patch.channel = None
          BY <3>2, <4>3, <5>1, <5>3 DEF MayUpdate
        <5>5. /\ new.build = Patched(row.build, seen.build, patch.build)
              /\ new.channel = Patched(row.channel, seen.channel, patch.channel)
          BY <5>2, PatchedRowIs
        <5>6. QED
          BY <4>1, <5>1, <5>4, <5>5 DEF Patched
      <4>4. CASE s.step = "delete"
        BY <3>2, <3>5, <4>1, <4>4
      <4>5. QED
        BY <3>2, <4>2, <4>3, <4>4
    <3>6. QED
      BY <3>4, <3>5
  <2>3. QED
    BY <2>1, <2>2, RowsChange
<1>2. QED
  BY <1>1, ReleaseInvariant, AlwaysSpec, AloneInvariant, PTL DEF HistorySpec, PublishedFrozenAlone

(* Until requests overlap only a release that moves to a channel gives it a *)
(* second latest release: a promotion has demoted all the others.           *)
THEOREM SecondLatestUntilOverlap == HistorySpec => SecondLatestIsMovedAlone
<1>1. ReleaseInv /\ IsFiniteSet(Written) /\ IsFiniteSet(Written)' /\ AloneInv
        /\ [HistoryNext]_<<vars, overlapped, moved>> =>
        [~overlapped => SecondLatestIsMoved]_vars
  <2> SUFFICES ASSUME ReleaseInv, IsFiniteSet(Written), IsFiniteSet(Written)', AloneInv, Next,
                      ~overlapped, NEW c \in Channels, OneLatest(c),
                      \A r \in Releases : r \in Latest(c)' => rows[r].channel \in {None, c}
               PROVE  OneLatest(c)'
    BY DEF HistoryNext, SecondLatestIsMoved
  <2>1. CASE UNCHANGED rows
    BY <2>1 DEF OneLatest, Latest, Exists
  <2>2. ASSUME NEW w \in Workers, CommitCreate(w) \/ CommitUpdate(w) \/ CommitDelete(w)
        PROVE  OneLatest(c)'
    <3>1. PICK s : s = sessions[w]
      OBVIOUS
    <3>2. Current(s) /\ s \in Sessions /\ s.step \in {"create", "update", "delete"} /\ Sound(s)
      BY <2>2, <3>1 DEF AloneInv, ReleaseInv, TypeOK, CommitCreate, CommitUpdate, CommitDelete
    <3>3. \A r \in Latest(c)' : r \in Releases /\ r \in Flagged(c)'
      BY DEF Latest, Flagged
    <3>4. ASSUME NEW r \in Latest(c)', r # s.id
          PROVE  r \in Latest(c) /\ ~Promotes(s, c)
      <4>1. /\ r \in Releases /\ rows'[r].status = rows[r].status
            /\ rows'[r].deleted = rows[r].deleted /\ rows'[r].channel = rows[r].channel
            /\ rows'[r].latest => rows[r].latest
            /\ ~(r \in s.matched /\ Promotes(s, c))
        BY <2>2, <3>1, <3>3, <3>4, Promoted
      <4>2. r \in Latest(c)
        BY <4>1 DEF Latest, Exists
      <4>3. r \in Flagged(c)
        BY <4>2, LatestIsWritten
      <4>4. QED
        BY <3>2, <4>1, <4>2, <4>3 DEF Current
    <3>5. ASSUME s.id \in Latest(c)', s.id \notin Latest(c)
          PROVE  Promotes(s, c)
      <4>1. \/ s.id \in Flagged(c)
            \/ Promotes(s, c)
            \/ s.step = "update" /\ s.seen \in Row /\ s.seen.channel # c /\ rows[s.id].channel = c
        BY <2>2, <3>1, <3>3, <3>5, Promoted
      <4>2. ~(s.step = "update" /\ s.seen \in Row /\ s.seen.channel # c /\ rows[s.id].channel = c)
        BY <3>2, RowsAreRows DEF Current, Creates
      <4>3. s.id \notin Flagged(c)
        <5>1. CASE Creates(s)
          BY <3>2, <5>1 DEF Sound, Flagged, NoRow
        <5>2. CASE ~Creates(s)
          <6>1. rows[s.id].status # None /\ ~rows[s.id].deleted
            BY <3>2, <5>2, RowsAreRows DEF Sound, Current
          <6>2. QED
            BY <3>5, <6>1 DEF Flagged, Latest, Exists
        <5>3. QED
          BY <5>1, <5>2
      <4>4. QED
        BY <4>1, <4>2, <4>3
    <3>6. CASE Latest(c)' \subseteq Latest(c)
      <4>1. IsFiniteSet(Latest(c))
        BY LatestIsWritten, FS_Subset
      <4>2. /\ Cardinality(Latest(c)') <= Cardinality(Latest(c))
            /\ Cardinality(Latest(c)') \in Nat /\ Cardinality(Latest(c)) \in Nat
        BY <3>6, <4>1, FS_Subset, FS_CardinalityType
      <4>3. QED
        BY <4>2 DEF OneLatest
    <3>7. CASE ~(Latest(c)' \subseteq Latest(c))
      <4>1. Latest(c)' = {s.id}
        BY <3>4, <3>5, <3>7
      <4>2. Cardinality(Latest(c)') = 1
        BY <4>1, FS_Singleton
      <4>3. QED
        BY <4>2 DEF OneLatest
    <3>8. QED
      BY <3>6, <3>7
  <2>3. QED
    BY <2>1, <2>2, RowsChange
<1>2. QED
  BY <1>1, ReleaseInvariant, WrittenIsFinite, AlwaysSpec, AloneInvariant, PTL
     DEF HistorySpec, SecondLatestIsMovedAlone
--------------------------------------------------------------------------------
(* The capabilities of the product and the plans they are attached to.      *)
Edits ==
  [step : {"idle", "delete", "assign", "withdraw", "attach", "detach"},
   cap : Capabilities \cup {Nothing}, to : Products \cup Plans \cup {Nothing}]

EditsTyped == edits \in [Editors -> Edits]

EditAtATime ==
  \A v, w \in Editors : edits[v].step # "idle" /\ edits[w].step # "idle" => v = w

(* What a handler has looked up before it attaches a capability.           *)
Belongs(s) ==
  s.step = "attach" => \A plan \in Plans :
    s.to = plan => s.cap \in OfProduct(ProductOf[plan])

AttachInv == EditsTyped /\ (~crossed => EditAtATime /\ \A w \in Editors : Belongs(edits[w]))

LEMMA IdleEdit == LinkIdle \in Edits /\ LinkIdle.step = "idle"
BY DEF LinkIdle, Edits

(* What a handler does to its own session: it takes up an operation without *)
(* changing a table, or it is done.                                         *)
LEMMA EditStep ==
  ASSUME EditsTyped, LinkNext
  PROVE  \E w \in Editors, n \in Edits :
           /\ edits' = [edits EXCEPT ![w] = n]
           /\ edits[w].step # "idle" \/ n.step # "idle"
           /\ \/ n.step = "idle"
              \/ UNCHANGED <<deleted, inProduct, inPlan>> /\ Belongs(n)
<1>1. ASSUME NEW w \in Editors, NEW step \in {"delete", "assign", "withdraw", "attach", "detach"},
             NEW c \in Capabilities, NEW to \in Products \cup Plans \cup {Nothing},
             Edit(w, step, c, to), Belongs([step |-> step, cap |-> c, to |-> to])
      PROVE  \E n \in Edits :
               /\ edits' = [edits EXCEPT ![w] = n] /\ n.step # "idle"
               /\ UNCHANGED <<deleted, inProduct, inPlan>> /\ Belongs(n)
  <2>1. PICK n : n = [step |-> step, cap |-> c, to |-> to]
    OBVIOUS
  <2>2. n \in Edits /\ n.step # "idle" /\ Belongs(n)
    BY <1>1, <2>1 DEF Edits
  <2>3. edits' = [edits EXCEPT ![w] = n] /\ UNCHANGED <<deleted, inProduct, inPlan>>
    BY <1>1, <2>1 DEF Edit
  <2>4. QED
    BY <2>2, <2>3
<1>2. ASSUME NEW w \in Editors, NEW c \in Capabilities, DeleteLoad(w, c)
      PROVE  \E n \in Edits :
               /\ edits' = [edits EXCEPT ![w] = n] /\ n.step # "idle"
               /\ UNCHANGED <<deleted, inProduct, inPlan>> /\ Belongs(n)
  BY <1>1, <1>2 DEF DeleteLoad, Belongs
<1>3. ASSUME NEW w \in Editors, NEW c \in Capabilities, NEW p \in Products,
             AssignLoad(w, c, p) \/ WithdrawLoad(w, c, p)
      PROVE  \E n \in Edits :
               /\ edits' = [edits EXCEPT ![w] = n] /\ n.step # "idle"
               /\ UNCHANGED <<deleted, inProduct, inPlan>> /\ Belongs(n)
  BY <1>1, <1>3 DEF AssignLoad, WithdrawLoad, Belongs
<1>4. ASSUME NEW w \in Editors, NEW c \in Capabilities, NEW p \in Plans,
             AttachLoad(w, c, p) \/ DetachLoad(w, c, p)
      PROVE  \E n \in Edits :
               /\ edits' = [edits EXCEPT ![w] = n] /\ n.step # "idle"
               /\ UNCHANGED <<deleted, inProduct, inPlan>> /\ Belongs(n)
  BY <1>1, <1>4 DEF AttachLoad, DetachLoad, Belongs
<1>5. ASSUME NEW w \in Editors,
             \/ DeleteCommit(w) \/ AssignCommit(w) \/ WithdrawCommit(w)
             \/ AttachCommit(w) \/ DetachCommit(w) \/ Abort(w)
      PROVE  edits' = [edits EXCEPT ![w] = LinkIdle] /\ edits[w].step # "idle"
  BY <1>5 DEF DeleteCommit, AssignCommit, WithdrawCommit, AttachCommit, DetachCommit, Abort, Finish
<1>6. QED
  BY <1>2, <1>3, <1>4, <1>5, IdleEdit DEF LinkNext

LEMMA AttachInvariant == MCLinkSpec => []AttachInv
<1>1. MCLinkInit => AttachInv
  BY IdleEdit DEF MCLinkInit, LinkInit, AttachInv, EditsTyped, EditAtATime, Belongs
<1>2. AttachInv /\ [MCLinkNext]_<<linkVars, crossed>> => AttachInv'
  <2> SUFFICES ASSUME AttachInv, [MCLinkNext]_<<linkVars, crossed>>
               PROVE  AttachInv'
    OBVIOUS
  <2>1. CASE UNCHANGED <<linkVars, crossed>>
    BY <2>1 DEF linkVars, AttachInv, EditsTyped, EditAtATime, Belongs, OfProduct
  <2>2. CASE MCLinkNext
    <3>1. PICK w \in Editors, n \in Edits :
            /\ edits' = [edits EXCEPT ![w] = n]
            /\ edits[w].step # "idle" \/ n.step # "idle"
            /\ \/ n.step = "idle"
               \/ UNCHANGED <<deleted, inProduct, inPlan>> /\ Belongs(n)
      BY <2>2, EditStep DEF AttachInv, MCLinkNext
    <3>2. /\ EditsTyped' /\ edits'[w] = n
          /\ \A v \in Editors : v # w => edits'[v] = edits[v]
      BY <3>1 DEF AttachInv, EditsTyped
    <3>3. ASSUME ~crossed'
          PROVE  EditAtATime' /\ \A v \in Editors : Belongs(edits[v])'
      <4>1. ~crossed /\ ~Overlap(edits')
        BY <2>2, <3>3 DEF MCLinkNext
      <4>2. EditAtATime'
        BY <3>2, <4>1, EditorsAreFinite, NoOverlap DEF EditsTyped, EditAtATime
      <4>3. \A v \in Editors : v # w => edits'[v].step = "idle"
        BY <3>1, <3>2, <4>1, <4>2 DEF AttachInv, EditAtATime
      <4>4. Belongs(n)'
        BY <3>1 DEF Belongs, OfProduct
      <4>5. QED
        BY <3>2, <4>2, <4>3, <4>4 DEF Belongs
    <3>4. QED
      BY <3>2, <3>3 DEF AttachInv
  <2>3. QED
    BY <2>1, <2>2
<1>3. QED
  BY <1>1, <1>2, PTL DEF MCLinkSpec

(* Until requests overlap a capability that is attached to a plan belongs   *)
(* to the plan's product when the link is written, and is not deleted.      *)
THEOREM AttachedUntilOverlap == MCLinkSpec => AttachedWithinProductAlone
<1>1. AttachInv /\ [MCLinkNext]_<<linkVars, crossed>> =>
        [~crossed => AttachedWithinProduct]_linkVars
  <2> SUFFICES ASSUME AttachInv, LinkNext, ~crossed, NEW c \in Capabilities, NEW plan \in Plans,
                      <<c, plan>> \in inPlan' \ inPlan
               PROVE  c \in OfProduct(ProductOf[plan])
    BY DEF MCLinkNext, AttachedWithinProduct
  <2>1. PICK w \in Editors : AttachCommit(w)
    <3>1. ~(inPlan' \subseteq inPlan)
      OBVIOUS
    <3>2. QED
      BY <3>1 DEF LinkNext, DeleteLoad, AssignLoad, WithdrawLoad, AttachLoad, DetachLoad, Edit,
         DeleteCommit, AssignCommit, WithdrawCommit, DetachCommit, Abort
  <2>2. <<c, plan>> = <<edits[w].cap, edits[w].to>> /\ edits[w].step = "attach"
    BY <2>1 DEF AttachCommit, Link
  <2>3. QED
    BY <2>2 DEF AttachInv, Belongs
<1>2. QED
  BY <1>1, AttachInvariant, PTL DEF MCLinkSpec, AttachedWithinProductAlone
================================================================================
