----------------------------- MODULE RequestIntake -----------------------------
(***************************************************************************)
(* The upload of .wfareq files: create_from_upload with the request number *)
(* it draws and the file it stores.  ActivationRequests takes over with    *)
(* the row this module inserts.                                            *)
(*                                                                         *)
(* An upload looks for a row with the same sha256, reads the greatest      *)
(* request number, writes the file under the next number and inserts the   *)
(* row: four database or disk calls, with other uploads in between.  Only  *)
(* the request number has a unique constraint.                             *)
(***************************************************************************)
EXTENDS Naturals, FiniteSets

CONSTANTS
  Documents,     \* contents of uploaded files, told apart by their sha256
  Names,         \* file names clients give
  Plain,         \* those that name a file and no directory
  Path(_, _),    \* where the file of a number and a name is stored
  Parsable,      \* the names a parser is registered for (.wfareq, .json)
  Workers,       \* uploads that may be in progress at the same time
  Limit,         \* the first number with more digits than the padding: 1000000
  None

ASSUME ParsableNames == Parsable \subseteq Names
ASSUME PlainNames == Plain \subseteq Names
ASSUME PlainPaths ==
  \A m, n \in 1 .. Limit : \A a, b \in Plain : Path(m, a) = Path(n, b) => m = n /\ a = b
ASSUME LimitAtLeast2 == Limit \in Nat /\ Limit >= 2
ASSUME WorkersAreFinite == IsFiniteSet(Workers)
ASSUME NoneIsNoDocument == None \notin Documents

VARIABLES
  rows,          \* activation_requests: number, document and file name
  files,         \* per path the document stored there
  sessions       \* what each upload is doing

vars == <<rows, files, sessions>>

Paths == {Path(n, name) : n \in 1 .. Limit, name \in Names}

Idle == [step |-> "idle", doc |-> None, name |-> None, number |-> 0]

Init ==
  /\ rows = {}
  /\ files = [at \in Paths |-> None]
  /\ sessions = [w \in Workers |-> Idle]

-------------------------------------------------------------------------------
(* request_number is a string: up to the limit its six padded digits sort    *)
(* like numbers, and 1000000 sorts just after 100000.                        *)
Position(n) == IF n < Limit THEN n ELSE n \div 10

Precedes(m, n) ==
  \/ Position(m) < Position(n)
  \/ Position(m) = Position(n) /\ m < n

FirstNumber(S) == CHOOSE n \in S : \A m \in S : m = n \/ Precedes(n, m)  \* mutant of LastNumber
LastNumber(S) == CHOOSE n \in S : \A m \in S : m = n \/ Precedes(m, n)

NextNumber(S) == IF S = {} THEN 1 ELSE LastNumber(S) + 1

Numbers == {row.number : row \in rows}

(* get_by_sha256 finds nothing and a parser takes the file.  An upload of a  *)
(* known document returns the row it finds and changes nothing.              *)
BeginUndeduplicated(w, doc, name) ==                    \* mutant of Begin
  /\ sessions[w].step = "idle"
  /\ name \in Parsable
  /\ sessions' = [sessions EXCEPT ![w] =
                    [step |-> "number", doc |-> doc, name |-> name, number |-> 0]]
  /\ UNCHANGED <<rows, files>>

Begin(w, doc, name) ==
  /\ sessions[w].step = "idle"
  /\ \A row \in rows : row.doc # doc
  /\ name \in Parsable
  /\ sessions' = [sessions EXCEPT ![w] =
                    [step |-> "number", doc |-> doc, name |-> name, number |-> 0]]
  /\ UNCHANGED <<rows, files>>

DrawNumber(w) ==
  /\ sessions[w].step = "number"
  /\ sessions' = [sessions EXCEPT ![w] =
                    [@ EXCEPT !.step = "save", !.number = NextNumber(Numbers)]]
  /\ UNCHANGED <<rows, files>>

SaveNothing(w) ==                                       \* mutant of SaveFile
  /\ sessions[w].step = "save"
  /\ sessions' = [sessions EXCEPT ![w].step = "insert"]
  /\ UNCHANGED <<rows, files>>

(* requests/<number>_<name> is joined to the base directory and not          *)
(* normalised: two numbers may share the path of a name with directories.    *)
SaveFile(w) ==
  /\ sessions[w].step = "save"
  /\ files' = [files EXCEPT ![Path(sessions[w].number, sessions[w].name)] = sessions[w].doc]
  /\ sessions' = [sessions EXCEPT ![w].step = "insert"]
  /\ UNCHANGED rows

(* The insert and its commit.  When the number is taken the database refuses *)
(* the row: that is a Fail.                                                  *)
InsertUnconstrained(w) ==                               \* mutant of Insert
  /\ sessions[w].step = "insert"
  /\ rows' = rows \cup {[number |-> sessions[w].number,
                         doc |-> sessions[w].doc, name |-> sessions[w].name]}
  /\ sessions' = [sessions EXCEPT ![w] = Idle]
  /\ UNCHANGED files

Insert(w) ==
  /\ sessions[w].step = "insert"
  /\ sessions[w].number \notin Numbers
  /\ rows' = rows \cup {[number |-> sessions[w].number,
                         doc |-> sessions[w].doc, name |-> sessions[w].name]}
  /\ sessions' = [sessions EXCEPT ![w] = Idle]
  /\ UNCHANGED files

(* The unique constraint, a parse error, a full disk, a lost connection: the *)
(* upload ends without a row.  A file it has written stays.                  *)
Fail(w) ==
  /\ sessions[w].step # "idle"
  /\ sessions' = [sessions EXCEPT ![w] = Idle]
  /\ UNCHANGED <<rows, files>>

Next ==
  \E w \in Workers :
    \/ \E doc \in Documents, name \in Names : Begin(w, doc, name)
    \/ DrawNumber(w) \/ SaveFile(w) \/ Insert(w) \/ Fail(w)

Spec == Init /\ [][Next]_vars

-------------------------------------------------------------------------------
(* Request numbers are the sequence 1, 2, 3...: two uploads that draw the    *)
(* same number never both get it, and a failed upload leaves no gap.         *)
NumbersDense ==
  /\ \A a, b \in rows : a.number = b.number => a = b
  /\ Numbers = 1 .. Cardinality(rows)

(* Every accepted upload has a file on disk at its storage_path.             *)
FileStored == \A row \in rows : files[Path(row.number, row.name)] # None

(* The intake takes new documents until the number needs more digits than    *)
(* the padding: before that, the number an upload draws is a free one.       *)
OpenUntilLimit == Cardinality(rows) < Limit => NextNumber(Numbers) \notin Numbers

-------------------------------------------------------------------------------
(* What holds as long as uploads do not overlap.                             *)

(* The stored file of a row is the document its sha256 was computed from,    *)
(* also when an earlier upload failed after writing under the same number.   *)
FileIsDocument == \A row \in rows : files[Path(row.number, row.name)] = row.doc

(* "Deduplication": a document has one request.                              *)
Deduplicated == \A a, b \in rows : a.doc = b.doc => a = b

===============================================================================
