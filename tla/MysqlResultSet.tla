---------------------------- MODULE MysqlResultSet ----------------------------
(***************************************************************************)
(* One CppMysqlResultSet, filled again and again by querySQL(), and the    *)
(* MYSQL_RES objects of the library that it points to.  A program calls    *)
(* its methods in any order.  A row is the pair of its MYSQL_RES and its   *)
(* number in it; rows of the same number have the same cells.              *)
(***************************************************************************)
EXTENDS Integers, Sequences, FiniteSets

CONSTANTS
  Result,      \* the addresses a MYSQL_RES may have; bounds how many may leak
  NULL,        \* the null pointer
  Name,        \* the column names
  Heading,     \* the lists of column names queries may return
  MaxRows,     \* bound: rows of a result
  ULongRange,  \* 2^64, the range of unsigned long, scaled down
  Text,        \* what a cell may hold that is not an SQL NULL
  Blank,       \* ""
  Content,     \* the cells of a row of each number: texts, and NULL for an SQL NULL
  Tenths,      \* the number each text denotes, in tenths; 0 if it is none
  nullValue    \* the argument of that name

ASSUME ResultSetAssumption ==
  /\ NULL \notin Result \cup (Result \X Nat)
  /\ Heading \subseteq Seq(Name) \ {<<>>}
  /\ MaxRows \in Nat /\ ULongRange \in Nat /\ MaxRows < ULongRange

ASSUME ContentAssumption ==
  /\ Blank \in Text /\ NULL \notin Text /\ Name \cap Nat = {}
  /\ Content \in [1 .. MaxRows -> Seq(Text \cup {NULL})]
  /\ \A i \in 1 .. MaxRows, h \in Heading : Len(h) <= Len(Content[i])
  /\ Tenths \in [Text -> Int]

VARIABLES
  obj,          \* "none", "live", or "crashed" with the whole process
  mysqlRes, mysqlRow, rows, fields,   \* the members of the object
  store,        \* the results allocated: their rows, columns and cursors
  overwritten,  \* history: results querySQL() has lost the pointer to
  ret           \* what the last method was asked and gave back, if it was a value

members == <<mysqlRes, mysqlRow, rows, fields>>
vars == <<obj, members, store, overwritten, ret>>

Allocated == DOMAIN store

\* at and field are the row and the column the library would fetch next.
Stored ==
  [ size : 0 .. MaxRows, names : Heading, at : 1 .. MaxRows + 1, field : Nat \ {0} ]

Row(x, i) == <<x, i>>

NoReturn == [op |-> "none", arg |-> 0, value |-> 0]

Returned(op, arg, value) == ret' = [op |-> op, arg |-> arg, value |-> value]

-----------------------------------------------------------------------------
(* The library.                                                            *)

\* What mysql_fetch_row() gives of r = store[x], and what is left behind.
Fetched(x, r) == IF r.at <= r.size THEN Row(x, r.at) ELSE NULL
Passed(r) == IF r.at <= r.size THEN [r EXCEPT !.at = @ + 1] ELSE r

Freed(x) == [y \in Allocated \ {x} |-> store[y]]

\* atoi() and atol() stop at the decimal point.
Atoi(text) ==
  IF Tenths[text] < 0 THEN -((-Tenths[text]) \div 10) ELSE Tenths[text] \div 10

\* mysql_data_seek() follows the list of rows and stops at its end.
Sought(r, offset) == [r EXCEPT !.at = IF offset < r.size THEN offset + 1 ELSE r.size + 1]

-----------------------------------------------------------------------------
(* querySQL() fills the object.                                            *)

\* mysqlRow_ after querySQL().
FirstRow(x, r) == Fetched(x, r)

\* Mutant: fields_ is not brought up to date.
FieldCount_Kept(r) == IF fields = 0 THEN Len(r.names) ELSE fields

\* fields_ after querySQL().
FieldCount(r) == Len(r.names)

\* mysqlRes_ is overwritten, whatever it pointed to.
QueryStores(n, names) ==
  LET r == [size |-> n, names |-> names, at |-> 1, field |-> 1] IN
  \E x \in Result \ Allocated :
    /\ obj = "live"
    /\ mysqlRes' = x
    /\ mysqlRow' = FirstRow(x, r)
    /\ rows' = n /\ fields' = FieldCount(r)
    /\ store' = [y \in Allocated \cup {x} |-> IF y = x THEN Passed(r) ELSE store[y]]
    /\ overwritten' = overwritten + (IF mysqlRes = NULL THEN 0 ELSE 1)
    /\ Returned("querySQL", 0, n)
    /\ obj' = obj

\* The statement fails and the object keeps what it had.
QueryFails ==
  /\ obj = "live"
  /\ Returned("querySQL", 0, -1)
  /\ UNCHANGED <<obj, members, store, overwritten>>

Members(res, row, n, m) == mysqlRes' = res /\ mysqlRow' = row /\ rows' = n /\ fields' = m

Crash ==
  /\ obj = "live" /\ obj' = "crashed"
  /\ Members(NULL, NULL, 0, 0)
  /\ store' = <<>> /\ overwritten' = 0

\* querySQL() of a statement without a result, seekRow() and fieldName() of an
\* object without one: a null MYSQL_RES is dereferenced.
QueryWithoutResult == Crash /\ ret' = NoReturn
UseWithoutResult   == mysqlRes = NULL /\ Crash /\ ret' = NoReturn

-----------------------------------------------------------------------------
(* The methods of the object.                                              *)

Construct ==
  /\ obj # "live" /\ obj' = "live"
  /\ Members(NULL, NULL, 0, 0)
  /\ ret' = NoReturn
  /\ UNCHANGED <<store, overwritten>>

\* mysqlRow_, rows_ and fields_ keep what they had.
FreeRes ==
  /\ obj = "live"
  /\ mysqlRes # NULL
  /\ store' = Freed(mysqlRes) /\ mysqlRes' = NULL
  /\ ret' = NoReturn
  /\ UNCHANGED <<obj, mysqlRow, rows, fields, overwritten>>

\* Mutant: the destructor leaves the result to the caller.
Destroyed_Kept == store

\* The destructor calls freeRes().
Destroyed == Freed(mysqlRes)

Destroy ==
  /\ obj = "live" /\ obj' = "none"
  /\ store' = Destroyed
  /\ Members(NULL, NULL, 0, 0) /\ ret' = NoReturn
  /\ overwritten' = overwritten

Eof == mysqlRow = NULL

\* Mutant: nextRow() fetches once more when it has passed a row.
NextRow_Twice ==
  /\ obj = "live" /\ mysqlRes # NULL
  /\ LET r == Passed(store[mysqlRes]) IN
       /\ mysqlRow' = Fetched(mysqlRes, r)
       /\ store' = [store EXCEPT ![mysqlRes] = Passed(r)]
  /\ ret' = NoReturn
  /\ UNCHANGED <<obj, mysqlRes, rows, fields, overwritten>>

NextRow ==
  /\ obj = "live" /\ mysqlRes # NULL
  /\ mysqlRow' = Fetched(mysqlRes, store[mysqlRes])
  /\ store' = [store EXCEPT ![mysqlRes] = Passed(@)]
  /\ ret' = NoReturn
  /\ UNCHANGED <<obj, mysqlRes, rows, fields, overwritten>>

\* n - 1 of an unsigned long.
Pred(n) == IF n = 0 THEN ULongRange - 1 ELSE n - 1

\* Mutant: an offset behind the last row is not corrected in the return value.
Corrected_OffByOne(offset) == IF offset > rows THEN rows ELSE offset

\* Mutant: the offset is a signed number.
Corrected_Signed(offset) == IF offset >= rows THEN rows - 1 ELSE offset

\* The offset seekRow() goes to: of a result without rows it is rows_ - 1 on an
\* unsigned zero.
Corrected(offset) == IF offset >= rows THEN Pred(rows) ELSE offset

SeekRow(offset) ==
  /\ obj = "live" /\ mysqlRes # NULL
  /\ LET r == Sought(store[mysqlRes], Corrected(offset)) IN
       /\ mysqlRow' = Fetched(mysqlRes, r)
       /\ store' = [store EXCEPT ![mysqlRes] = Passed(r)]
  /\ Returned("seekRow", offset, Corrected(offset))
  /\ UNCHANGED <<obj, mysqlRes, rows, fields, overwritten>>

\* Mutant: fieldIndex() goes on from the column where the last one stopped.
StartField_Kept(r) == r.field

\* mysql_field_seek(mysqlRes_, 0).
StartField(r) == 1

\* The columns fieldIndex() looks at, at most fields_ of them, and those of
\* them that have the name.
Matches(r, name) ==
  { i \in StartField(r) .. Len(r.names) : i < StartField(r) + fields /\ r.names[i] = name }

Least(S) == CHOOSE i \in S : \A j \in S : i <= j

\* What fieldIndex() returns, and where it leaves the library.
Index(name) ==
  LET m == Matches(store[mysqlRes], name) IN IF m = {} THEN -1 ELSE Least(m) - 1

Searched(name) ==
  LET r == store[mysqlRes]
      m == Matches(r, name) IN
  [store EXCEPT ![mysqlRes].field = IF m = {} THEN Len(r.names) + 1 ELSE Least(m) + 1]

FieldIndex(name) ==
  /\ obj = "live" /\ mysqlRes # NULL
  /\ Returned("fieldIndex", name, Index(name))
  /\ store' = Searched(name)
  /\ UNCHANGED <<obj, members, overwritten>>

\* When the getters read mysqlRow_[col]; otherwise they return their default.
ReadsCell(col) == mysqlRes # NULL /\ mysqlRow # NULL /\ col + 1 <= fields

Cell(col) == Content[mysqlRow[2]][col + 1]

\* getStringField(col, default).
StringAt(col, default) == IF ReadsCell(col) THEN Cell(col) ELSE default

\* Mutant: an SQL NULL is taken for an empty text.
StringOf_NullIsEmpty(name, default) ==
  IF Index(name) = -1 THEN default
  ELSE IF StringAt(Index(name), Blank) = NULL THEN Blank ELSE StringAt(Index(name), Blank)

\* getStringField(name, default) of a current row: the second call has a default
\* of its own.
StringOf(name, default) ==
  IF Index(name) = -1 THEN default ELSE StringAt(Index(name), Blank)

OrNullValue(text) == IF text = NULL THEN nullValue ELSE Atoi(text)

\* The getters that take the number of a column.  getFloatField() leaves its
\* default to getStringField(), and takes atol() of it.
GetByNumber(col) ==
  /\ obj = "live"
  /\ \/ Returned("getStringField", col, StringAt(col, nullValue))
     \/ Returned("getFloatField", col, OrNullValue(StringAt(col, Blank)))
     \/ /\ ~(ReadsCell(col) /\ Cell(col) = NULL)
        /\ Returned("getIntField", col, OrNullValue(StringAt(col, NULL)))
  /\ UNCHANGED <<obj, members, store, overwritten>>

\* getIntField(col) passes the null pointer of an SQL NULL to atoi().
GetIntOfNull(col) ==
  ReadsCell(col) /\ Cell(col) = NULL /\ Crash /\ Returned("getIntField", col, NULL)

\* The getters that take the name of a column, of a current row; the number of
\* a column that is not there is that of "".
GetByName(name) ==
  /\ obj = "live" /\ mysqlRes # NULL /\ mysqlRow # NULL
  /\ \/ Returned("getStringField", name, StringOf(name, nullValue))
     \/ \E op \in {"getIntField", "getFloatField"} :
          Returned(op, name, OrNullValue(StringOf(name, Blank)))
  /\ store' = Searched(name)
  /\ UNCHANGED <<obj, members, overwritten>>

\* Without a current row they look nothing up.
GetWithoutRow(name) ==
  /\ obj = "live" /\ (mysqlRes = NULL \/ mysqlRow = NULL)
  /\ \/ \E op \in {"getStringField", "getIntField"} : Returned(op, name, nullValue)
     \/ Returned("getFloatField", name, OrNullValue(Blank))
  /\ UNCHANGED <<obj, members, store, overwritten>>

-----------------------------------------------------------------------------

Init ==
  /\ obj = "none"
  /\ mysqlRes = NULL /\ mysqlRow = NULL /\ rows = 0 /\ fields = 0
  /\ store = <<>> /\ overwritten = 0 /\ ret = NoReturn

Next ==
  \/ \E n \in 0 .. MaxRows, names \in Heading : QueryStores(n, names)
  \/ QueryFails \/ QueryWithoutResult \/ UseWithoutResult
  \/ Construct \/ Destroy \/ FreeRes \/ NextRow
  \/ \E offset \in 0 .. MaxRows + 1 : SeekRow(offset)
  \/ \E name \in Name : FieldIndex(name) \/ GetByName(name) \/ GetWithoutRow(name)
  \/ \E h \in Heading : \E col \in 0 .. Len(h) : GetByNumber(col) \/ GetIntOfNull(col)

Spec == Init /\ [][Next]_vars

-----------------------------------------------------------------------------
(* What the class promises.                                                *)

Getters == {"getStringField", "getFloatField", "getIntField"}

\* Type invariant: the members and the library's objects keep the values their
\* declarations allow.
TypeOK ==
  /\ obj \in {"none", "live", "crashed"}
  /\ mysqlRes \in Result \cup {NULL}
  /\ mysqlRow = NULL \/ mysqlRow \in Result \X (1 .. MaxRows)
  /\ rows \in 0 .. MaxRows /\ fields \in { Len(h) : h \in Heading } \cup {0}
  /\ Allocated \subseteq Result /\ \A x \in Allocated : store[x] \in Stored
  /\ overwritten \in Nat
  /\ ret.op \in {"none", "querySQL", "seekRow", "fieldIndex"} \cup Getters
  /\ ret.op = "seekRow" => ret.value \in 0 .. ULongRange - 1

\* Whatever was queried and freed before, a getter that reads a cell reads one
\* of a row that is allocated, belongs to the current result, and has it.
ReadsLiveCell ==
  \A col \in 0 .. fields : ReadsCell(col) =>
    /\ mysqlRow[1] = mysqlRes /\ mysqlRes \in Allocated
    /\ mysqlRow[2] <= store[mysqlRes].size
    /\ col + 1 <= Len(store[mysqlRes].names)

\* Results leak only where querySQL() is given an object that holds one; what
\* is left is the object's own, once.
LeaksAreOverwritten ==
  /\ mysqlRes # NULL => mysqlRes \in Allocated
  /\ Cardinality(Allocated) = overwritten + IF mysqlRes = NULL THEN 0 ELSE 1

\* seekRow() returns the offset of the row that it makes the current one, and
\* of one that is asked for it returns the same; only a result without rows
\* has no such offset.
SeekReturnsPosition ==
  [][ret'.op = "seekRow" /\ ret' # ret /\ rows > 0 =>
       /\ mysqlRow' = Row(mysqlRes, ret'.value + 1)
       /\ ret'.arg < rows => ret'.value = ret'.arg]_vars

\* fieldIndex() finds the first column of the name, whichever lookups came
\* before it on this result, and -1 stands for a name that is not there.
LookupFinds ==
  [][ret'.op = "fieldIndex" /\ ret' # ret =>
       LET names == store[mysqlRes].names
           found == { i \in DOMAIN names : names[i] = ret'.arg } IN
       ret'.value = IF found = {} THEN -1 ELSE Least(found) - 1]_vars

\* The columns a getter is asked for, of the current row.
Asked(arg) ==
  IF mysqlRes = NULL \/ mysqlRow = NULL THEN {}
  ELSE LET names == store[mysqlRes].names IN
       { i \in DOMAIN names : IF arg \in Name THEN names[i] = arg ELSE i = arg + 1 }

CellAsked(arg) == Content[mysqlRow[2]][Least(Asked(arg))]

\* A getter that returns gives what the current row holds in the column it was
\* asked for, the first of the name, whatever rows and columns were looked up
\* before: as a text the cell itself, as a number nullValue for an SQL NULL and
\* else a number less than one off the one that the cell denotes.  Where there is
\* no such cell it gives nullValue, for a text and for an integer by number or
\* without a current row.  What the header says beyond that is below.
GettersTellTheCell ==
  [][obj' = "live" /\ ret' # ret /\ ret'.op \in Getters =>
       LET op == ret'.op  arg == ret'.arg  value == ret'.value  text == CellAsked(arg) IN
       IF Asked(arg) = {}
       THEN op = "getStringField" \/ (op = "getIntField" /\ (arg \in Name => mysqlRow = NULL))
              => value = nullValue
       ELSE IF op = "getStringField" THEN value = text
       ELSE IF text = NULL THEN value = nullValue
       ELSE value \in Int /\ Tenths[text] - 10 * value \in -9 .. 9]_vars

\* The library's cursor and mysqlRow_ together are one cursor over the rows.
Cursor == INSTANCE RowCursor WITH
  size <- IF mysqlRes = NULL THEN 0 ELSE rows,
  pos  <- IF mysqlRes = NULL THEN 0 ELSE IF Eof THEN rows + 1 ELSE mysqlRow[2]

CursorSpec == Cursor!Spec

-----------------------------------------------------------------------------
(* What the header says and the code does not do.                          *)

\* getFloatField() gives the number of the cell, not the integer it starts with.
FloatFieldTellsNumber ==
  ret.op = "getFloatField" /\ Asked(ret.arg) # {} /\ CellAsked(ret.arg) # NULL
    => 10 * ret.value = Tenths[CellAsked(ret.arg)]

\* A getter that finds no cell gives nullValue, whatever type it returns and
\* whether it was asked by name or by number.
MissingGivesDefault ==
  obj = "live" /\ ret.op \in Getters /\ Asked(ret.arg) = {} => ret.value = nullValue

\* A getter returns, also from a cell that it cannot convert.
GettersReturn == ret.op \in Getters => obj # "crashed"

\* The getters of numbers do what the header says of them: the value of the column,
\* and nullValue where it cannot be had.
GettersKeepContract == FloatFieldTellsNumber /\ MissingGivesDefault /\ GettersReturn
=============================================================================
