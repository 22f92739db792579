-------------------------- MODULE RequestIntakeProofs --------------------------
(***************************************************************************)
(* Request numbers stay dense and stored files stay in place for any       *)
(* number of uploads, documents and names and for every limit, and what is *)
(* promised of uploads that do not overlap holds until two do, of their    *)
(* files as long as clients give plain file names.                         *)
(***************************************************************************)
EXTENDS MCRequestIntake, FiniteSetTheorems, TLAPS

Rows == [number : 1 .. Limit, doc : Documents, name : Names]

Steps == {"idle", "number", "save", "insert"}

Sessions ==
  [step : Steps, doc : Documents \cup {None}, name : Names \cup {None}, number : 0 .. Limit]

TypeOK ==
  /\ rows \in SUBSET Rows /\ IsFiniteSet(rows)
  /\ files \in [Paths -> Documents \cup {None}]
  /\ sessions \in [Workers -> Sessions]

Count == Cardinality(rows)

(* An upload has a document, and from the draw on a number that was the    *)
(* next one then; before the insert its file is stored.                    *)
Sound(s) ==
  /\ s.step # "idle" => s.doc \in Documents /\ s.name \in Names
  /\ s.step \in {"save", "insert"} => s.number \in 1 .. Limit /\ s.number <= Count + 1
  /\ s.step = "insert" => files[Path(s.number, s.name)] # None

IntakeInv ==
  /\ TypeOK
  /\ NumbersDense /\ Count <= Limit
  /\ FileStored
  /\ \A w \in Workers : Sound(sessions[w])
--------------------------------------------------------------------------------
(* Text order agrees with the numbers below the limit. *)
LEMMA LastBelowLimit ==
  ASSUME NEW k \in Nat, 0 < k, k < Limit
  PROVE  LastNumber(1 .. k) = k
<1>1. \A n \in 1 .. k : Position(n) = n
  BY LimitAtLeast2 DEF Position
<1>2. QED
  BY <1>1 DEF LastNumber, Precedes

(* At the limit the greatest number sorts before the one below it. *)
LEMMA LastAtLimit == LastNumber(1 .. Limit) = Limit - 1
<1>1. /\ \A n \in 1 .. Limit : n < Limit => Position(n) = n
      /\ Position(Limit) \in Nat /\ Position(Limit) < Limit - 1
  BY LimitAtLeast2 DEF Position
<1>2. Limit - 1 \in 1 .. Limit
  BY LimitAtLeast2
<1>3. \A m \in 1 .. Limit : m = Limit - 1 \/ Precedes(m, Limit - 1)
  BY <1>1, LimitAtLeast2 DEF Precedes
<1>4. \A n \in 1 .. Limit : n # Limit - 1 => ~Precedes(Limit - 1, n)
  BY <1>1, LimitAtLeast2 DEF Precedes
<1>5. QED
  BY <1>2, <1>3, <1>4 DEF LastNumber

LEMMA NextIsFree ==
  ASSUME IntakeInv
  PROVE  /\ Count \in Nat
         /\ NextNumber(Numbers) = IF Count < Limit THEN Count + 1 ELSE Limit
<1>1. Count \in Nat /\ Count <= Limit /\ Numbers = 1 .. Count
  BY FS_CardinalityType DEF IntakeInv, TypeOK, NumbersDense, Count
<1>2. CASE Count = 0
  BY <1>1, <1>2, LimitAtLeast2 DEF NextNumber
<1>3. CASE 0 < Count /\ Count < Limit
  <2>1. Numbers # {}
    BY <1>1, <1>3
  <2>2. QED
    BY <1>1, <1>3, <2>1, LastBelowLimit DEF NextNumber
<1>4. CASE Count = Limit
  <2>1. Numbers # {}
    BY <1>1, <1>4, LimitAtLeast2
  <2>2. QED
    BY <1>1, <1>4, <2>1, LastAtLimit, LimitAtLeast2 DEF NextNumber
<1>5. QED
  BY <1>1, <1>2, <1>3, <1>4, LimitAtLeast2

(* A number that is drawn and not taken is the next one. *)
LEMMA InsertedDense ==
  ASSUME IntakeInv, NEW w \in Workers, Insert(w)
  PROVE  /\ rows' \in SUBSET Rows /\ IsFiniteSet(rows') /\ NumbersDense'
         /\ Cardinality(rows') = Count + 1 /\ Cardinality(rows') <= Limit
         /\ sessions[w].number = Count + 1
<1>1. PICK row : row = [number |-> sessions[w].number,
                        doc |-> sessions[w].doc, name |-> sessions[w].name]
  OBVIOUS
<1>2. sessions[w] \in Sessions /\ Sound(sessions[w]) /\ sessions[w].step = "insert"
  BY DEF IntakeInv, TypeOK, Insert
<1>3. row \in Rows /\ rows' = rows \cup {row}
  BY <1>1, <1>2 DEF Insert, Sound, Rows
<1>4. Count \in Nat /\ Count <= Limit /\ Numbers = 1 .. Count
  BY FS_CardinalityType DEF IntakeInv, TypeOK, NumbersDense, Count
<1>5. row.number = Count + 1 /\ row.number \in 1 .. Limit /\ row.number \notin Numbers
  BY <1>1, <1>2, <1>4 DEF Insert, Sound
<1>6. row \notin rows
  BY <1>5 DEF Numbers
<1>7. IsFiniteSet(rows') /\ Cardinality(rows') = Count + 1
  BY <1>3, <1>6, FS_AddElement DEF IntakeInv, TypeOK, Count
<1>8. Numbers' = Numbers \cup {row.number}
  BY <1>3 DEF Numbers
<1>9. Numbers' = 1 .. Cardinality(rows')
  BY <1>4, <1>5, <1>7, <1>8
<1>10. \A a, b \in rows' : a.number = b.number => a = b
  BY <1>3, <1>5 DEF IntakeInv, NumbersDense, Numbers
<1>11. QED
  BY <1>1, <1>3, <1>5, <1>7, <1>9, <1>10 DEF NumbersDense, IntakeInv, TypeOK

LEMMA PathIsKnown ==
  ASSUME NEW n \in 1 .. Limit, NEW name \in Names
  PROVE  Path(n, name) \in Paths
BY DEF Paths

(* What a step has to show that changes no row. *)
LEMMA RowsKept ==
  ASSUME IntakeInv, UNCHANGED rows, TypeOK', FileStored',
         \A w \in Workers : Sound(sessions[w])'
  PROVE  IntakeInv'
BY DEF IntakeInv, NumbersDense, Numbers, Count

LEMMA IdleSession == Idle \in Sessions /\ Sound(Idle) /\ Sound(Idle)'
BY LimitAtLeast2 DEF Idle, Sessions, Steps, Sound

LEMMA Drawn ==
  ASSUME NEW s \in Sessions, NEW n
  PROVE  [s EXCEPT !.step = "save", !.number = n]
           = [step |-> "save", doc |-> s.doc, name |-> s.name, number |-> n]
<1>1. PICK e : e = [s EXCEPT !.step = "save"]
  OBVIOUS
<1>2. e = [step |-> "save", doc |-> s.doc, name |-> s.name, number |-> s.number]
  BY <1>1 DEF Sessions
<1>3. [e EXCEPT !.number = n] = [step |-> "save", doc |-> s.doc, name |-> s.name, number |-> n]
  BY <1>2
<1>4. QED
  BY <1>1, <1>3

LEMMA IntakeStep == IntakeInv /\ [Next]_vars => IntakeInv'
<1> SUFFICES ASSUME IntakeInv, [Next]_vars
             PROVE  IntakeInv'
  OBVIOUS
<1> USE DEF IntakeInv
<1>1. CASE UNCHANGED vars
  BY <1>1, RowsKept DEF vars, TypeOK, FileStored, Sound, Count
<1>2. ASSUME NEW w \in Workers, NEW s, s \in Sessions, Sound(s),
             sessions' = [sessions EXCEPT ![w] = s], UNCHANGED <<rows, files>>
      PROVE  IntakeInv'
  <2>1. TypeOK' /\ FileStored'
    BY <1>2 DEF TypeOK, FileStored
  <2>2. \A v \in Workers : Sound(sessions'[v])
    BY <1>2 DEF TypeOK
  <2>3. \A v \in Workers : Sound(sessions[v])'
    BY <1>2, <2>2 DEF Sound, Count
  <2>4. QED
    BY <1>2, <2>1, <2>3, RowsKept
<1>3. ASSUME NEW w \in Workers, NEW doc \in Documents, NEW name \in Names, Begin(w, doc, name)
      PROVE  IntakeInv'
  <2>1. PICK s : s = [step |-> "number", doc |-> doc, name |-> name, number |-> 0]
    OBVIOUS
  <2>2. s \in Sessions /\ Sound(s)
    BY <2>1, LimitAtLeast2 DEF Sessions, Steps, Sound
  <2>3. QED
    BY <1>2, <1>3, <2>1, <2>2 DEF Begin
<1>4. ASSUME NEW w \in Workers, DrawNumber(w)
      PROVE  IntakeInv'
  <2>1. sessions[w] \in Sessions /\ Sound(sessions[w])
    BY DEF TypeOK
  <2>2. PICK s : s = [step |-> "save", doc |-> sessions[w].doc, name |-> sessions[w].name,
                      number |-> NextNumber(Numbers)]
    OBVIOUS
  <2>3. s \in Sessions /\ Sound(s)
    BY <1>4, <2>1, <2>2, NextIsFree, LimitAtLeast2 DEF DrawNumber, Sessions, Steps, Sound
  <2>4. sessions' = [sessions EXCEPT ![w] = s]
    <3>1. [sessions[w] EXCEPT !.step = "save", !.number = NextNumber(Numbers)] = s
      BY <2>1, <2>2, Drawn
    <3>2. sessions' = [sessions EXCEPT ![w] =
                         [sessions[w] EXCEPT !.step = "save", !.number = NextNumber(Numbers)]]
      BY <1>4 DEF DrawNumber, TypeOK
    <3>3. QED
      BY <3>1, <3>2
  <2>5. QED
    BY <1>2, <1>4, <2>3, <2>4 DEF DrawNumber
<1>5. ASSUME NEW w \in Workers, SaveFile(w)
      PROVE  IntakeInv'
  <2>1. sessions[w] \in Sessions /\ Sound(sessions[w])
    BY DEF TypeOK
  <2>2. PICK s : s = [step |-> "insert", doc |-> sessions[w].doc, name |-> sessions[w].name,
                      number |-> sessions[w].number]
    OBVIOUS
  <2>3. sessions' = [sessions EXCEPT ![w] = s]
    <3>1. [sessions[w] EXCEPT !.step = "insert"] = s
      BY <2>1, <2>2 DEF Sessions
    <3>2. sessions' = [sessions EXCEPT ![w] = [sessions[w] EXCEPT !.step = "insert"]]
      BY <1>5 DEF SaveFile, TypeOK
    <3>3. QED
      BY <3>1, <3>2
  <2>4. /\ s.number \in 1 .. Limit /\ s.number <= Count + 1 /\ s.name \in Names
        /\ s.doc \in Documents
        /\ files' = [files EXCEPT ![Path(s.number, s.name)] = s.doc]
    BY <1>5, <2>1, <2>2 DEF SaveFile, Sound
  <2>5. /\ files' \in [Paths -> Documents \cup {None}]
        /\ files'[Path(s.number, s.name)] # None
        /\ \A at \in Paths : files[at] # None => files'[at] # None
    BY <2>4, PathIsKnown, NoneIsNoDocument DEF TypeOK
  <2>6. s \in Sessions /\ sessions' \in [Workers -> Sessions]
    BY <2>1, <2>2, <2>3, <2>4 DEF Sessions, Steps, TypeOK
  <2>7. TypeOK' /\ FileStored'
    BY <1>5, <2>5, <2>6, PathIsKnown DEF TypeOK, FileStored, SaveFile, Rows
  <2>8. ASSUME NEW v \in Workers
        PROVE  Sound(sessions[v])'
    <3>1. CASE v = w
      BY <1>5, <2>2, <2>3, <2>4, <2>5, <3>1 DEF Sound, TypeOK, SaveFile, Count
    <3>2. CASE v # w
      <4>1. sessions'[v] = sessions[v] /\ Sound(sessions[v])
        BY <2>3, <3>2 DEF TypeOK
      <4>2. QED
        BY <1>5, <2>5, <4>1, PathIsKnown DEF Sound, SaveFile, Count
    <3>3. QED
      BY <3>1, <3>2
  <2>9. QED
    BY <1>5, <2>7, <2>8, RowsKept DEF SaveFile
<1>6. ASSUME NEW w \in Workers, Insert(w)
      PROVE  IntakeInv'
  <2>1. sessions' = [sessions EXCEPT ![w] = Idle] /\ UNCHANGED files
    BY <1>6 DEF Insert
  <2>2. TypeOK'
    BY <1>6, <2>1, InsertedDense, IdleSession DEF TypeOK
  <2>3. Count' = Count + 1 /\ Count' <= Limit /\ NumbersDense'
    BY <1>6, InsertedDense DEF Count
  <2>4. FileStored'
    <3>1. PICK row : row = [number |-> sessions[w].number, doc |-> sessions[w].doc,
                            name |-> sessions[w].name]
      OBVIOUS
    <3>2. rows' = rows \cup {row} /\ files[Path(row.number, row.name)] # None
      BY <1>6, <3>1 DEF Insert, Sound
    <3>3. QED
      BY <2>1, <3>2 DEF FileStored
  <2>5. ASSUME NEW v \in Workers
        PROVE  Sound(sessions[v])'
    <3>1. CASE v = w
      BY <2>1, <3>1, IdleSession DEF TypeOK
    <3>2. CASE v # w
      <4>1. sessions'[v] = sessions[v] /\ Sound(sessions[v])
        BY <2>1, <3>2 DEF TypeOK
      <4>2. Count \in Nat
        BY FS_CardinalityType DEF TypeOK, Count
      <4>3. QED
        BY <2>1, <2>3, <4>1, <4>2 DEF Sound
    <3>3. QED
      BY <3>1, <3>2
  <2>6. QED
    BY <2>2, <2>3, <2>4, <2>5
<1>7. ASSUME NEW w \in Workers, Fail(w)
      PROVE  IntakeInv'
  BY <1>2, <1>7, IdleSession DEF Fail
<1>8. QED
  BY <1>1, <1>3, <1>4, <1>5, <1>6, <1>7 DEF Next

LEMMA IntakeInit == Init => IntakeInv
<1> SUFFICES ASSUME Init
             PROVE  IntakeInv
  OBVIOUS
<1>1. TypeOK
  BY FS_EmptySet, LimitAtLeast2 DEF Init, TypeOK, Idle, Sessions, Steps
<1>2. Count = 0 /\ Numbers = {}
  BY FS_EmptySet DEF Init, Count, Numbers
<1>3. \A w \in Workers : Sound(sessions[w])
  BY DEF Init, Sound, Idle
<1>4. NumbersDense
  BY <1>2 DEF Init, NumbersDense, Count
<1>5. FileStored
  BY DEF Init, FileStored
<1>6. QED
  BY <1>1, <1>2, <1>3, <1>4, <1>5, LimitAtLeast2 DEF IntakeInv

THEOREM IntakeInvariant == MCSpec => []IntakeInv
<1>1. MCInit => IntakeInv
  BY IntakeInit DEF MCInit
<1>2. IntakeInv /\ [MCNext]_<<vars, overlapped, wandered>> => IntakeInv'
  BY IntakeStep DEF MCNext
<1>3. QED
  BY <1>1, <1>2, PTL DEF MCSpec

(* Request numbers are 1, 2, 3... without gap or repeat, however uploads   *)
(* overlap and fail.                                                       *)
THEOREM NumbersAreDense == MCSpec => []NumbersDense
<1>1. IntakeInv => NumbersDense
  BY DEF IntakeInv
<1>2. QED
  BY <1>1, IntakeInvariant, PTL

(* Every accepted upload has a stored file. *)
THEOREM FilesAreStored == MCSpec => []FileStored
<1>1. IntakeInv => FileStored
  BY DEF IntakeInv
<1>2. QED
  BY <1>1, IntakeInvariant, PTL

(* Below the limit the number an upload draws is a free one. *)
THEOREM IntakeIsOpen == MCSpec => []OpenUntilLimit
<1>1. IntakeInv => OpenUntilLimit
  BY NextIsFree DEF IntakeInv, NumbersDense, OpenUntilLimit, Count
<1>2. QED
  BY <1>1, IntakeInvariant, PTL
--------------------------------------------------------------------------------
(* Until uploads overlap only one is under way, it has drawn the number    *)
(* the next row gets, and no row has its document.  Until then, and as     *)
(* long as all names are plain, every row has the file of its document.    *)
OneAtATime ==
  \A v, w \in Workers : sessions[v].step # "idle" /\ sessions[w].step # "idle" => v = w

Current(s) ==
  /\ s.step # "idle" => \A row \in rows : row.doc # s.doc
  /\ s.step \in {"save", "insert"} => s.number = NextNumber(Numbers)
  /\ s.step = "insert" => files[Path(s.number, s.name)] = s.doc

NamesPlain ==
  /\ \A row \in rows : row.name \in Plain
  /\ \A w \in Workers : sessions[w].step # "idle" => sessions[w].name \in Plain

(* At the limit the last number is drawn again, and a file may be lost.    *)
Settled == Count < Limit => FileIsDocument

AloneInv ==
  /\ overlapped \in BOOLEAN /\ wandered \in BOOLEAN
  /\ ~overlapped => OneAtATime /\ Deduplicated /\ \A w \in Workers : Current(sessions[w])
  /\ ~wandered => NamesPlain
  /\ ~overlapped /\ ~wandered => Settled

LEMMA NoOverlap ==
  ASSUME NEW ss \in [Workers -> Sessions], ~Overlap(ss), NEW v \in Workers, NEW w \in Workers,
         ss[v].step # "idle", ss[w].step # "idle"
  PROVE  v = w
<1> SUFFICES ASSUME v # w PROVE FALSE
  OBVIOUS
<1>1. {v, w} \subseteq Busy(ss) /\ Busy(ss) \subseteq Workers
  BY DEF Busy
<1>2. IsFiniteSet(Busy(ss))
  BY <1>1, WorkersAreFinite, FS_Subset
<1>3. Cardinality({v, w}) = 2
  <2>1. IsFiniteSet({v}) /\ Cardinality({v}) = 1
    BY FS_Singleton
  <2>2. {v, w} = {v} \cup {w} /\ w \notin {v}
    OBVIOUS
  <2>3. Cardinality({v} \cup {w}) = Cardinality({v}) + 1
    BY <2>1, <2>2, FS_AddElement
  <2>4. QED
    BY <2>1, <2>2, <2>3
<1>4. Cardinality({v, w}) <= Cardinality(Busy(ss)) /\ Cardinality(Busy(ss)) \in Nat
  BY <1>1, <1>2, FS_Subset, FS_CardinalityType
<1>5. QED
  BY <1>3, <1>4 DEF Overlap

(* Only the upload that takes the step is under way after it. *)
LEMMA OthersIdle ==
  ASSUME IntakeInv, IntakeInv', OneAtATime, ~Overlap(sessions'), NEW w \in Workers,
         NEW s, sessions' = [sessions EXCEPT ![w] = s],
         sessions[w].step # "idle" \/ s.step # "idle"
  PROVE  /\ OneAtATime'
         /\ \A v \in Workers : v # w => sessions'[v].step = "idle"
         /\ sessions'[w] = s
<1>1. sessions \in [Workers -> Sessions] /\ sessions' \in [Workers -> Sessions]
  BY DEF IntakeInv, TypeOK
<1>2. OneAtATime'
  BY <1>1, NoOverlap DEF OneAtATime
<1>3. sessions'[w] = s /\ \A v \in Workers : v # w => sessions'[v] = sessions[v]
  BY <1>1
<1>4. QED
  BY <1>2, <1>3 DEF OneAtATime

(* What remains to be shown of a step. *)
LEMMA AloneKept ==
  ASSUME IntakeInv, IntakeInv', OneAtATime, ~Overlap(sessions'), NEW w \in Workers,
         NEW s, sessions' = [sessions EXCEPT ![w] = s],
         sessions[w].step # "idle" \/ s.step # "idle",
         Current(s)', Deduplicated'
  PROVE  OneAtATime' /\ (\A v \in Workers : Current(sessions[v])') /\ Deduplicated'
<1>1. /\ OneAtATime'
      /\ \A v \in Workers : v # w => sessions'[v].step = "idle"
      /\ sessions'[w] = s
  BY OthersIdle
<1>2. \A v \in Workers : Current(sessions[v])'
  BY <1>1 DEF Current
<1>3. QED
  BY <1>1, <1>2

LEMMA AloneStep ==
  ASSUME IntakeInv, IntakeInv', [Next]_vars, OneAtATime,
         \A w \in Workers : Current(sessions[w]), Deduplicated, ~Overlap(sessions')
  PROVE  OneAtATime' /\ (\A w \in Workers : Current(sessions[w])') /\ Deduplicated'
<1>1. CASE UNCHANGED vars
  BY <1>1 DEF vars, OneAtATime, Current, Deduplicated, Numbers
<1>2. UNCHANGED rows => Deduplicated'
  BY DEF Deduplicated
<1>3. ASSUME NEW w \in Workers
      PROVE  sessions[w] \in Sessions /\ Sound(sessions[w]) /\ Current(sessions[w])
  BY DEF IntakeInv, TypeOK
<1>4. ASSUME NEW w \in Workers, NEW doc \in Documents, NEW name \in Names, Begin(w, doc, name)
      PROVE  OneAtATime' /\ (\A v \in Workers : Current(sessions[v])') /\ Deduplicated'
  <2>1. PICK s : s = [step |-> "number", doc |-> doc, name |-> name, number |-> 0]
    OBVIOUS
  <2>2. Current(s)' /\ s.step # "idle"
    BY <1>4, <2>1 DEF Begin, Current
  <2>3. QED
    BY <1>2, <1>4, <2>1, <2>2, AloneKept DEF Begin
<1>5. ASSUME NEW w \in Workers, DrawNumber(w)
      PROVE  OneAtATime' /\ (\A v \in Workers : Current(sessions[v])') /\ Deduplicated'
  <2>1. PICK s : s = [sessions[w] EXCEPT !.step = "save", !.number = NextNumber(Numbers)]
    OBVIOUS
  <2>2. s.step = "save" /\ s.doc = sessions[w].doc /\ s.number = NextNumber(Numbers)
    BY <1>3, <2>1 DEF Sessions
  <2>3. sessions[w].step = "number" /\ UNCHANGED <<rows, files>>
    BY <1>5 DEF DrawNumber
  <2>4. Current(s)'
    BY <1>3, <2>2, <2>3 DEF Current, Numbers
  <2>5. sessions' = [sessions EXCEPT ![w] = s]
    BY <1>5, <2>1 DEF DrawNumber, IntakeInv, TypeOK
  <2>6. QED
    BY <1>2, <2>2, <2>3, <2>4, <2>5, AloneKept
<1>6. ASSUME NEW w \in Workers, SaveFile(w)
      PROVE  OneAtATime' /\ (\A v \in Workers : Current(sessions[v])') /\ Deduplicated'
  <2>1. PICK s : s = [sessions[w] EXCEPT !.step = "insert"]
    OBVIOUS
  <2>2. /\ s.step = "insert" /\ s.doc = sessions[w].doc /\ s.number = sessions[w].number
        /\ s.name = sessions[w].name
    BY <1>3, <2>1 DEF Sessions
  <2>3. /\ sessions[w].step = "save" /\ UNCHANGED rows
        /\ files' = [files EXCEPT ![Path(s.number, s.name)] = s.doc]
        /\ s.number \in 1 .. Limit /\ s.name \in Names /\ s.number = NextNumber(Numbers)
    BY <1>3, <1>6, <2>2 DEF SaveFile, Sound, Current
  <2>4. files'[Path(s.number, s.name)] = s.doc
    BY <2>3, PathIsKnown DEF IntakeInv, TypeOK
  <2>5. Current(s)'
    BY <1>3, <2>2, <2>3, <2>4 DEF Current, Numbers
  <2>6. Deduplicated'
    BY <2>3 DEF Deduplicated
  <2>7. sessions' = [sessions EXCEPT ![w] = s]
    BY <1>6, <2>1 DEF SaveFile, IntakeInv, TypeOK
  <2>8. QED
    BY <2>2, <2>5, <2>6, <2>7, AloneKept
<1>7. ASSUME NEW w \in Workers, Insert(w)
      PROVE  OneAtATime' /\ (\A v \in Workers : Current(sessions[v])') /\ Deduplicated'
  <2>1. PICK row : row = [number |-> sessions[w].number, doc |-> sessions[w].doc,
                          name |-> sessions[w].name]
    OBVIOUS
  <2>2. /\ rows' = rows \cup {row} /\ sessions[w].step = "insert" /\ UNCHANGED files
        /\ sessions' = [sessions EXCEPT ![w] = Idle]
    BY <1>7, <2>1 DEF Insert
  <2>3. \A other \in rows : other.doc # row.doc
    BY <1>3, <2>1, <2>2 DEF Current
  <2>4. Deduplicated'
    BY <2>2, <2>3 DEF Deduplicated
  <2>5. Current(Idle)'
    BY DEF Current, Idle
  <2>6. QED
    BY <2>2, <2>4, <2>5, AloneKept
<1>8. ASSUME NEW w \in Workers, Fail(w)
      PROVE  OneAtATime' /\ (\A v \in Workers : Current(sessions[v])') /\ Deduplicated'
  <2>1. Current(Idle)'
    BY DEF Current, Idle
  <2>2. QED
    BY <1>2, <1>8, <2>1, AloneKept DEF Fail
<1>9. QED
  BY <1>1, <1>4, <1>5, <1>6, <1>7, <1>8 DEF Next

(* Below the limit a plain name is stored where no row has its file. *)
LEMMA SettledStep ==
  ASSUME IntakeInv, [Next]_vars, NamesPlain, Settled, \A w \in Workers : Current(sessions[w])
  PROVE  Settled'
<1>1. CASE UNCHANGED <<rows, files>>
  BY <1>1 DEF Settled, Count, FileIsDocument
<1>2. ASSUME NEW w \in Workers
      PROVE  sessions[w] \in Sessions /\ Sound(sessions[w]) /\ Current(sessions[w])
  BY DEF IntakeInv, TypeOK
<1>3. ASSUME NEW w \in Workers, SaveFile(w)
      PROVE  Settled'
  <2>1. PICK n, name, doc :
          n = sessions[w].number /\ name = sessions[w].name /\ doc = sessions[w].doc
    OBVIOUS
  <2>2. /\ UNCHANGED rows /\ files' = [files EXCEPT ![Path(n, name)] = doc]
        /\ n \in 1 .. Limit /\ n = NextNumber(Numbers) /\ name \in Plain
    BY <1>2, <1>3, <2>1 DEF SaveFile, Sound, Current, NamesPlain
  <2>3. SUFFICES ASSUME Count < Limit, NEW row \in rows
                 PROVE  files'[Path(row.number, row.name)] = row.doc
    BY <2>2 DEF Settled, Count, FileIsDocument
  <2>4. n = Count + 1 /\ Numbers = 1 .. Count /\ Count \in Nat
    BY <2>2, <2>3, NextIsFree DEF IntakeInv, NumbersDense, Count
  <2>5. row.number # n /\ row.number \in 1 .. Limit /\ row.name \in Plain
    BY <2>4 DEF Numbers, IntakeInv, TypeOK, Rows, NamesPlain
  <2>6. Path(row.number, row.name) # Path(n, name)
    BY <2>2, <2>5, PlainPaths
  <2>7. files'[Path(row.number, row.name)] = files[Path(row.number, row.name)]
    BY <2>2, <2>5, <2>6, PathIsKnown, PlainNames DEF IntakeInv, TypeOK
  <2>8. QED
    BY <2>3, <2>7 DEF Settled, FileIsDocument
<1>4. ASSUME NEW w \in Workers, Insert(w)
      PROVE  Settled'
  <2>1. PICK row : row = [number |-> sessions[w].number, doc |-> sessions[w].doc,
                          name |-> sessions[w].name]
    OBVIOUS
  <2>2. rows' = rows \cup {row} /\ sessions[w].step = "insert" /\ UNCHANGED files
    BY <1>4, <2>1 DEF Insert
  <2>3. files[Path(row.number, row.name)] = row.doc
    BY <1>2, <2>1, <2>2 DEF Current
  <2>4. Count' = Count + 1 /\ Count \in Nat
    BY <1>4, InsertedDense, NextIsFree DEF Count
  <2>5. Count' < Limit => FileIsDocument
    BY <2>4, LimitAtLeast2 DEF Settled
  <2>6. QED
    BY <2>2, <2>3, <2>5 DEF Settled, FileIsDocument
<1>5. QED
  BY <1>1, <1>3, <1>4 DEF Next, vars, Begin, DrawNumber, Fail

(* A row has the name of the upload that inserts it. *)
LEMMA PlainStep ==
  ASSUME NamesPlain, [Next]_vars,
         \A w \in Workers : sessions'[w].step # "idle" => sessions'[w].name \in Plain
  PROVE  NamesPlain'
<1>1. CASE UNCHANGED rows
  BY <1>1 DEF NamesPlain
<1>2. ASSUME NEW w \in Workers, Insert(w)
      PROVE  NamesPlain'
  <2>1. sessions[w].name \in Plain
    BY <1>2 DEF Insert, NamesPlain
  <2>2. QED
    BY <1>2, <2>1 DEF Insert, NamesPlain
<1>3. QED
  BY <1>1, <1>2 DEF Next, vars, Begin, DrawNumber, SaveFile, Fail

LEMMA AloneInvariant == MCSpec => []AloneInv
<1>1. MCInit => AloneInv
  <2> SUFFICES ASSUME MCInit
               PROVE  AloneInv
    OBVIOUS
  <2>1. \A w \in Workers : sessions[w].step = "idle"
    BY DEF MCInit, Init, Idle
  <2>2. OneAtATime /\ \A w \in Workers : Current(sessions[w])
    BY <2>1 DEF OneAtATime, Current
  <2>3. Deduplicated /\ Settled /\ NamesPlain
    BY <2>1 DEF MCInit, Init, Deduplicated, Settled, FileIsDocument, NamesPlain
  <2>4. QED
    BY <2>2, <2>3 DEF MCInit, AloneInv
<1>2. IntakeInv /\ IntakeInv' /\ AloneInv /\ [MCNext]_<<vars, overlapped, wandered>> => AloneInv'
  <2> SUFFICES ASSUME IntakeInv, IntakeInv', AloneInv, [MCNext]_<<vars, overlapped, wandered>>
               PROVE  AloneInv'
    OBVIOUS
  <2>1. CASE UNCHANGED <<vars, overlapped, wandered>>
    BY <2>1 DEF vars, AloneInv, OneAtATime, Current, Deduplicated, Settled, Count,
                FileIsDocument, Numbers, NamesPlain
  <2>2. CASE MCNext
    <3>1. /\ Next /\ overlapped' \in BOOLEAN /\ wandered' \in BOOLEAN
          /\ ~overlapped' => ~overlapped /\ ~Overlap(sessions')
      BY <2>2 DEF MCNext, AloneInv, Overlap
    <3>2. ASSUME ~wandered', NEW w \in Workers, sessions'[w].step # "idle"
          PROVE  ~wandered /\ sessions'[w].name \in Plain
      <4>1. w \in Busy(sessions')
        BY <3>2 DEF Busy, IntakeInv, TypeOK
      <4>2. QED
        BY <2>2, <3>2, <4>1 DEF MCNext
    <3>3. ~wandered' => ~wandered
      BY <2>2 DEF MCNext
    <3>4. ~overlapped' => OneAtATime' /\ Deduplicated' /\ (\A w \in Workers : Current(sessions[w])')
      BY <3>1, AloneStep DEF AloneInv
    <3>5. ~wandered' => NamesPlain'
      BY <3>1, <3>2, <3>3, PlainStep DEF AloneInv
    <3>6. ~overlapped' /\ ~wandered' => Settled'
      BY <3>1, <3>3, SettledStep DEF AloneInv
    <3>7. QED
      BY <3>1, <3>4, <3>5, <3>6 DEF AloneInv
  <2>3. QED
    BY <2>1, <2>2
<1>3. QED
  BY <1>1, <1>2, IntakeInvariant, PTL DEF MCSpec

(* Until uploads overlap, the numbers run out or a client gives a name     *)
(* with directories, the stored file of a row is the document its hash was *)
(* computed from.                                                          *)
THEOREM FileIsDocumentUntilOverlap == MCSpec => []FileIsDocumentAlone
<1>1. AloneInv => FileIsDocumentAlone
  BY DEF AloneInv, Settled, Count, FileIsDocumentAlone
<1>2. QED
  BY <1>1, AloneInvariant, PTL

(* Until uploads overlap a document has one request. *)
THEOREM DeduplicatedUntilOverlap == MCSpec => []DeduplicatedAlone
<1>1. AloneInv => DeduplicatedAlone
  BY DEF AloneInv, DeduplicatedAlone
<1>2. QED
  BY <1>1, AloneInvariant, PTL
================================================================================
