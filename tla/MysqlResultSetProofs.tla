------------------------- MODULE MysqlResultSetProofs -------------------------
(***************************************************************************)
(* Proofs about MysqlResultSet, for every set of addresses, every heading, *)
(* any number of rows and any width of unsigned long that can count them.  *)
(***************************************************************************)
EXTENDS MysqlResultSet, FiniteSetTheorems, WellFoundedInduction, TLAPS

\* What the members say of the result they point to: mysqlRow_ is the row
\* behind which the library's cursor stands.
Current(x, r) ==
  /\ obj = "live" /\ x \in Allocated
  /\ rows = r.size /\ fields = Len(r.names)
  /\ \/ mysqlRow = NULL /\ r.at = rows + 1
     \/ r.at \in 2 .. rows + 1 /\ mysqlRow = Row(x, r.at - 1)

PointsToResult == mysqlRes # NULL => Current(mysqlRes, store[mysqlRes])

\* The inductive invariant.  Types alone do not say that rows_, fields_ and
\* mysqlRow_, which freeRes() leaves behind, are those of the next result.
IInv == TypeOK /\ PointsToResult

LEMMA InitIInv == Init => IInv
BY ResultSetAssumption DEF Init, IInv, TypeOK, PointsToResult, Allocated, NoReturn

\* Fetching a row moves the cursor behind it, or leaves it at the end.
LEMMA FetchStep ==
  ASSUME NEW x \in Result, NEW r \in Stored, r.at \in 1 .. r.size + 1
  PROVE  /\ Passed(r) \in Stored
         /\ Passed(r).size = r.size /\ Passed(r).names = r.names
         /\ \/ Fetched(x, r) = NULL /\ Passed(r).at = r.size + 1
            \/ /\ Passed(r).at \in 2 .. r.size + 1
               /\ Fetched(x, r) = Row(x, Passed(r).at - 1)
         /\ Fetched(x, r) = IF r.at = r.size + 1 THEN NULL ELSE Row(x, r.at)
         /\ Fetched(x, r) = NULL \/ Fetched(x, r) \in Result \X (1 .. MaxRows)
<1> USE ResultSetAssumption
<1>1. CASE r.at <= r.size
  <2>1. Passed(r) = [r EXCEPT !.at = r.at + 1] /\ Fetched(x, r) = Row(x, r.at)
    BY <1>1 DEF Passed, Fetched
  <2>2. Passed(r).size = r.size /\ Passed(r).names = r.names /\ Passed(r).at = r.at + 1
    BY <2>1 DEF Stored
  <2>3. Passed(r) \in Stored
    BY <1>1, <2>1 DEF Stored
  <2>4. Row(x, r.at) \in Result \X (1 .. MaxRows) /\ (r.at + 1) - 1 = r.at
    BY <1>1 DEF Stored, Row
  <2> QED
    BY <1>1, <2>1, <2>2, <2>3, <2>4, SMTT(20) DEF Stored
<1>2. CASE ~(r.at <= r.size)
  <2>1. Passed(r) = r /\ Fetched(x, r) = NULL /\ r.at = r.size + 1
    BY <1>2 DEF Passed, Fetched, Stored
  <2> QED
    BY <2>1
<1> QED
  BY <1>1, <1>2

LEMMA SeekStep ==
  ASSUME NEW r \in Stored, NEW offset \in Nat
  PROVE  /\ Sought(r, offset) \in Stored
         /\ Sought(r, offset).size = r.size /\ Sought(r, offset).names = r.names
         /\ Sought(r, offset).at = IF offset < r.size THEN offset + 1 ELSE r.size + 1
         /\ Sought(r, offset).at \in 1 .. r.size + 1
BY ResultSetAssumption, SMTT(20) DEF Sought, Stored

\* A step that leaves the members to the result in mysqlRes_ and moves its
\* cursor as a fetch does.
LEMMA MovedStep ==
  ASSUME IInv, mysqlRes # NULL,
         NEW r \in Stored, r.at \in 1 .. r.size + 1,
         r.size = store[mysqlRes].size, r.names = store[mysqlRes].names,
         mysqlRow' = Fetched(mysqlRes, r),
         store' = [store EXCEPT ![mysqlRes] = Passed(r)],
         UNCHANGED <<obj, mysqlRes, rows, fields, overwritten>>,
         \/ ret' = NoReturn
         \/ ret'.op = "seekRow" /\ ret'.value \in 0 .. ULongRange - 1
  PROVE  IInv'
<1>1. mysqlRes \in Result /\ mysqlRes \in Allocated
  BY DEF IInv, TypeOK, PointsToResult, Current
<1>2. Allocated' = Allocated /\ store'[mysqlRes] = Passed(r)
      /\ \A y \in Allocated \ {mysqlRes} : store'[y] = store[y]
  BY <1>1 DEF Allocated
<1>3. PointsToResult'
  BY <1>1, <1>2, FetchStep DEF IInv, PointsToResult, Current
<1>4. \A y \in Allocated' : store'[y] \in Stored
  BY <1>1, <1>2, FetchStep DEF IInv, TypeOK
<1>5. mysqlRow' = NULL \/ mysqlRow' \in Result \X (1 .. MaxRows)
  BY <1>1, FetchStep
<1>6. /\ ret'.op \in {"none", "querySQL", "seekRow", "fieldIndex"}
      /\ ret'.op = "seekRow" => ret'.value \in 0 .. ULongRange - 1
  BY DEF NoReturn
<1> QED
  BY <1>2, <1>3, <1>4, <1>5, <1>6 DEF IInv, TypeOK

LEMMA CorrectedType ==
  ASSUME IInv, NEW offset \in 0 .. MaxRows + 1
  PROVE  /\ Corrected(offset) \in 0 .. ULongRange - 1 /\ Corrected(offset) \in Nat
         /\ rows > 0 => Corrected(offset) < rows
         /\ rows > 0 /\ offset < rows => Corrected(offset) = offset
BY ResultSetAssumption DEF Corrected, Pred, IInv, TypeOK

-----------------------------------------------------------------------------
(* One step per action.                                                    *)

LEMMA QueryStoresStep ==
  ASSUME IInv, NEW n \in 0 .. MaxRows, NEW names \in Heading, QueryStores(n, names)
  PROVE  IInv'
<1> DEFINE r == [size |-> n, names |-> names, at |-> 1, field |-> 1]
<1>1. r \in Stored /\ r.at \in 1 .. r.size + 1
  BY ResultSetAssumption DEF Stored
<1>2. r.size = n /\ r.names = names
  OBVIOUS
<1> HIDE DEF r
<1>3. PICK x \in Result \ Allocated :
        /\ obj = "live" /\ obj' = obj
        /\ mysqlRes' = x /\ mysqlRow' = Fetched(x, r)
        /\ rows' = n /\ fields' = Len(names)
        /\ store' = [y \in Allocated \cup {x} |-> IF y = x THEN Passed(r) ELSE store[y]]
        /\ overwritten' = overwritten + (IF mysqlRes = NULL THEN 0 ELSE 1)
        /\ ret' = [op |-> "querySQL", arg |-> 0, value |-> n]
  BY <1>2, Zenon DEF QueryStores, r, FirstRow, FieldCount, Returned
<1>4. Allocated' = Allocated \cup {x} /\ store'[x] = Passed(r)
      /\ \A y \in Allocated : store'[y] = store[y]
  BY <1>3 DEF Allocated
<1>5. PointsToResult'
  BY <1>1, <1>2, <1>3, <1>4, FetchStep DEF PointsToResult, Current
<1>6. /\ Allocated' \subseteq Result /\ \A y \in Allocated' : store'[y] \in Stored
      /\ mysqlRow' = NULL \/ mysqlRow' \in Result \X (1 .. MaxRows)
  BY <1>1, <1>3, <1>4, FetchStep DEF IInv, TypeOK
<1>7. overwritten' \in Nat /\ fields' \in { Len(h) : h \in Heading } \cup {0}
  BY <1>3 DEF IInv, TypeOK
<1>8. ret'.op = "querySQL"
  BY <1>3
<1> QED
  BY <1>3, <1>5, <1>6, <1>7, <1>8 DEF IInv, TypeOK

LEMMA FreedType ==
  ASSUME IInv, NEW x, store' = Freed(x)
  PROVE  /\ Allocated' \subseteq Result
         /\ \A y \in Allocated' : store'[y] \in Stored
BY DEF Freed, Allocated, IInv, TypeOK

LEMMA LifecycleStep ==
  ASSUME IInv,
         \/ Construct \/ Destroy \/ FreeRes
         \/ Crash /\ ret'.op \in {"none", "getIntField"}
  PROVE  IInv'
<1>1. CASE Construct
  BY <1>1, ResultSetAssumption DEF Construct, Members, NoReturn, IInv, TypeOK,
     PointsToResult, Allocated
<1>2. CASE Destroy
  BY <1>2, FreedType, ResultSetAssumption DEF Destroy, Destroyed, Members, NoReturn,
     IInv, TypeOK, PointsToResult
<1>3. CASE FreeRes
  BY <1>3, FreedType DEF FreeRes, NoReturn, IInv, TypeOK, PointsToResult
<1>4. CASE Crash /\ ret'.op \in {"none", "getIntField"}
  <2>1. Allocated' = {}
    BY <1>4 DEF Crash, Allocated
  <2> QED
    BY <1>4, <2>1, ResultSetAssumption DEF Crash, Members, Getters, IInv, TypeOK,
       PointsToResult
<1> QED
  BY <1>1, <1>2, <1>3, <1>4

LEMMA QueryFailsStep ==
  ASSUME IInv, QueryFails
  PROVE  IInv'
BY DEF QueryFails, Returned, members, IInv, TypeOK, PointsToResult, Current, Allocated

\* The cursor of the current result is in range.
LEMMA CurrentResult ==
  ASSUME IInv, mysqlRes # NULL
  PROVE  /\ mysqlRes \in Allocated /\ mysqlRes \in Result
         /\ store[mysqlRes] \in Stored /\ rows = store[mysqlRes].size
         /\ store[mysqlRes].at \in 1 .. rows + 1
BY DEF IInv, TypeOK, PointsToResult, Current, Stored

LEMMA NextRowStep ==
  ASSUME IInv, NextRow
  PROVE  IInv'
<1>1. mysqlRes # NULL
  BY DEF NextRow
<1>2. store' = [store EXCEPT ![mysqlRes] = Passed(store[mysqlRes])]
  BY DEF NextRow
<1> QED
  BY <1>1, <1>2, CurrentResult, MovedStep DEF NextRow

LEMMA SeekRowStep ==
  ASSUME IInv, NEW offset \in 0 .. MaxRows + 1, SeekRow(offset)
  PROVE  IInv'
<1> DEFINE r == Sought(store[mysqlRes], Corrected(offset))
<1>1. mysqlRes # NULL
  BY DEF SeekRow
<1>2. /\ mysqlRow' = Fetched(mysqlRes, r)
      /\ store' = [store EXCEPT ![mysqlRes] = Passed(r)]
      /\ ret' = [op |-> "seekRow", arg |-> offset, value |-> Corrected(offset)]
      /\ UNCHANGED <<obj, mysqlRes, rows, fields, overwritten>>
  BY DEF SeekRow, Returned
<1>3. r \in Stored /\ r.at \in 1 .. r.size + 1
      /\ r.size = store[mysqlRes].size /\ r.names = store[mysqlRes].names
  BY <1>1, CurrentResult, CorrectedType, SeekStep
<1>4. ret'.op = "seekRow" /\ ret'.value \in 0 .. ULongRange - 1
  BY <1>2, CorrectedType
<1> HIDE DEF r
<1> QED
  BY <1>1, <1>2, <1>3, <1>4, MovedStep

\* A set of columns that is not empty has a first one.
LEMMA LeastColumn ==
  ASSUME NEW S, S \subseteq Nat, S # {}
  PROVE  Least(S) \in S /\ \A j \in S : Least(S) <= j
<1> DEFINE less == OpToRel(<, Nat)
<1>1. PICK i \in S : \A j \in S : <<j, i>> \notin less
  BY WFMin, NatLessThanWellFounded, Zenon
<1>2. \A j, k \in Nat : j < k => <<j, k>> \in less
  BY Z3 DEF OpToRel
<1>3. \A j \in S : ~(j < i)
  BY <1>1, <1>2, Zenon
<1> HIDE DEF less
<1>4. \A j \in S : i <= j
  BY <1>1, <1>3
<1> QED
  BY <1>1, <1>4, Zenon DEF Least

LEMMA FieldIndexReturns ==
  ASSUME NEW name, FieldIndex(name)
  PROVE  /\ ret'.op = "fieldIndex" /\ ret'.arg = name /\ ret'.value = Index(name)
         /\ mysqlRes # NULL /\ store' = Searched(name)
         /\ UNCHANGED <<obj, members, overwritten>>
<1>1. Returned("fieldIndex", name, Index(name))
  BY Zenon DEF FieldIndex
<1>2. mysqlRes # NULL /\ store' = Searched(name) /\ UNCHANGED <<obj, members, overwritten>>
  BY Zenon DEF FieldIndex
<1> QED
  BY <1>1, <1>2 DEF Returned

LEMMA GetByNameReturns ==
  ASSUME NEW name, GetByName(name)
  PROVE  /\ ret'.op \in Getters /\ ret'.arg = name
         /\ ret'.value = IF ret'.op = "getStringField" THEN StringOf(name, nullValue)
                         ELSE OrNullValue(StringOf(name, Blank))
         /\ mysqlRes # NULL /\ mysqlRow # NULL /\ store' = Searched(name)
         /\ UNCHANGED <<obj, members, overwritten>>
<1>1. PICK op \in Getters : Returned(op, name, IF op = "getStringField" THEN StringOf(name, nullValue)
                                               ELSE OrNullValue(StringOf(name, Blank)))
  <2>1. CASE Returned("getStringField", name, StringOf(name, nullValue))
    BY <2>1 DEF Getters
  <2>2. CASE \E op \in {"getIntField", "getFloatField"} :
               Returned(op, name, OrNullValue(StringOf(name, Blank)))
    BY <2>2 DEF Getters
  <2> QED
    BY <2>1, <2>2, Zenon DEF GetByName
<1>2. /\ mysqlRes # NULL /\ mysqlRow # NULL /\ store' = Searched(name)
      /\ UNCHANGED <<obj, members, overwritten>>
  BY Zenon DEF GetByName
<1> QED
  BY <1>1, <1>2 DEF Returned

LEMMA LookupReturns ==
  ASSUME NEW name, FieldIndex(name) \/ GetByName(name)
  PROVE  /\ mysqlRes # NULL /\ store' = Searched(name)
         /\ ret'.op \in {"fieldIndex"} \cup Getters
         /\ UNCHANGED <<obj, members, overwritten>>
BY FieldIndexReturns, GetByNameReturns

\* A lookup moves the library's field cursor only.
LEMMA LookupStep ==
  ASSUME IInv, NEW name \in Name, FieldIndex(name) \/ GetByName(name)
  PROVE  IInv'
<1> DEFINE s == store[mysqlRes]
           m == Matches(s, name)
<1>1. mysqlRes # NULL /\ store' = Searched(name)
  BY LookupReturns
<1>2. s \in Stored /\ Len(s.names) \in Nat /\ mysqlRes \in Allocated
  BY <1>1, CurrentResult, ResultSetAssumption DEF Stored
<1>3. m # {} => Least(m) \in Nat
  <2>1. m \subseteq Nat
    BY <1>2 DEF Matches, StartField
  <2> QED
    BY <2>1, LeastColumn
<1>4. PICK f \in Nat \ {0} : store' = [store EXCEPT ![mysqlRes].field = f]
  <2>1. m # {} => Least(m) + 1 \in Nat \ {0}
    BY <1>3
  <2>2. Len(s.names) + 1 \in Nat \ {0}
    BY <1>2
  <2> QED
    BY <1>1, <2>1, <2>2 DEF Searched
<1>5. /\ Allocated' = Allocated
      /\ store'[mysqlRes] = [s EXCEPT !.field = f]
      /\ \A y \in Allocated \ {mysqlRes} : store'[y] = store[y]
  BY <1>2, <1>4 DEF Allocated
<1>6. [s EXCEPT !.field = f] \in Stored
      /\ \A k \in {"size", "names", "at"} : [s EXCEPT !.field = f][k] = s[k]
  BY <1>2 DEF Stored
<1>7. /\ ret'.op \in {"fieldIndex"} \cup Getters
      /\ UNCHANGED <<obj, mysqlRes, mysqlRow, rows, fields, overwritten>>
  BY LookupReturns DEF members
<1>8. TypeOK'
  BY <1>5, <1>6, <1>7 DEF IInv, TypeOK, Getters
<1>9. PointsToResult'
  BY <1>1, <1>5, <1>6, <1>7 DEF IInv, PointsToResult, Current
<1> QED
  BY <1>8, <1>9 DEF IInv

\* A getter without a lookup changes nothing but what it returns.
LEMMA GetReturns ==
  ASSUME NEW arg, GetByNumber(arg) \/ GetWithoutRow(arg)
  PROVE  ret'.op \in Getters /\ UNCHANGED <<obj, members, store, overwritten>>
<1>1. PICK value : \E op \in Getters : Returned(op, arg, value)
  BY Zenon DEF GetByNumber, GetWithoutRow, Getters
<1>2. UNCHANGED <<obj, members, store, overwritten>>
  BY Zenon DEF GetByNumber, GetWithoutRow
<1> QED
  BY <1>1, <1>2 DEF Returned

LEMMA GetStep ==
  ASSUME IInv, NEW arg, GetByNumber(arg) \/ GetWithoutRow(arg)
  PROVE  IInv'
<1>1. ret'.op \in Getters /\ UNCHANGED <<obj, members, store, overwritten>>
  BY GetReturns
<1> QED
  BY <1>1 DEF members, IInv, TypeOK, PointsToResult, Current, Allocated, Getters

LEMMA SeekRowReturns ==
  ASSUME NEW offset, SeekRow(offset)
  PROVE  ret'.op = "seekRow"
BY DEF SeekRow, Returned

LEMMA CrashReturns ==
  ASSUME NEW col, GetIntOfNull(col)
  PROVE  ret'.op = "getIntField" /\ obj' = "crashed" /\ Crash
<1>1. Returned("getIntField", col, NULL) /\ Crash
  BY Zenon DEF GetIntOfNull
<1> QED
  BY <1>1 DEF Returned, Crash

\* The methods that return no offset, no column number and no cell.
LEMMA OtherReturns ==
  ASSUME \/ \E n \in 0 .. MaxRows, names \in Heading : QueryStores(n, names)
         \/ QueryFails \/ QueryWithoutResult \/ UseWithoutResult
         \/ Construct \/ Destroy \/ FreeRes \/ NextRow
  PROVE  ret'.op \in {"none", "querySQL"}
<1>1. CASE \E n \in 0 .. MaxRows, names \in Heading : QueryStores(n, names)
  <2>1. PICK n \in 0 .. MaxRows : Returned("querySQL", 0, n)
    BY <1>1, Zenon DEF QueryStores
  <2> QED
    BY <2>1 DEF Returned
<1>2. CASE QueryFails
  BY <1>2 DEF QueryFails, Returned
<1>3. CASE QueryWithoutResult \/ UseWithoutResult \/ Construct \/ Destroy \/ FreeRes \/ NextRow
  <2>1. ret' = NoReturn
    BY <1>3, Zenon DEF QueryWithoutResult, UseWithoutResult, Construct, Destroy, FreeRes, NextRow
  <2> QED
    BY <2>1 DEF NoReturn
<1> QED
  BY <1>1, <1>2, <1>3

LEMMA NextIInv == IInv /\ [Next]_vars => IInv'
<1> SUFFICES ASSUME IInv, [Next]_vars PROVE IInv'
  OBVIOUS
<1>1. CASE \E n \in 0 .. MaxRows, names \in Heading : QueryStores(n, names)
  BY <1>1, QueryStoresStep
<1>2. CASE QueryFails
  BY <1>2, QueryFailsStep
<1>3. CASE QueryWithoutResult \/ UseWithoutResult
  BY <1>3, LifecycleStep DEF QueryWithoutResult, UseWithoutResult, NoReturn
<1>4. CASE Construct \/ Destroy \/ FreeRes
  BY <1>4, LifecycleStep
<1>5. CASE NextRow
  BY <1>5, NextRowStep
<1>6. CASE \E offset \in 0 .. MaxRows + 1 : SeekRow(offset)
  BY <1>6, SeekRowStep
<1>7. CASE \E name \in Name : FieldIndex(name) \/ GetByName(name)
  BY <1>7, LookupStep
<1>8. CASE \/ \E name \in Name : GetWithoutRow(name)
           \/ \E h \in Heading : \E col \in 0 .. Len(h) : GetByNumber(col)
  BY <1>8, GetStep
<1>9. CASE \E h \in Heading : \E col \in 0 .. Len(h) : GetIntOfNull(col)
  BY <1>9, CrashReturns, LifecycleStep
<1>10. CASE UNCHANGED vars
  BY <1>10 DEF vars, members, IInv, TypeOK, PointsToResult, Current, Allocated
<1> QED
  BY <1>1, <1>2, <1>3, <1>4, <1>5, <1>6, <1>7, <1>8, <1>9, <1>10 DEF Next

LEMMA Inductive == Spec => []IInv
BY InitIInv, NextIInv, PTL DEF Spec

-----------------------------------------------------------------------------
(* The theorems.                                                           *)

\* The members and the library's objects keep the values their types allow,
\* whatever methods are called in whatever order.
THEOREM TypeCorrect == Spec => []TypeOK
<1>1. IInv => TypeOK
  BY DEF IInv
<1> QED
  BY <1>1, Inductive, PTL

\* A getter never reads a cell of a row that querySQL(), freeRes() or seekRow()
\* has made stale.
THEOREM GettersReadLiveCells == Spec => []ReadsLiveCell
<1>1. IInv => ReadsLiveCell
  <2> SUFFICES ASSUME IInv, mysqlRes # NULL, mysqlRow # NULL,
                      NEW col \in 0 .. fields, col + 1 <= fields
               PROVE  /\ mysqlRow[1] = mysqlRes /\ mysqlRes \in Allocated
                      /\ mysqlRow[2] <= store[mysqlRes].size
                      /\ col + 1 <= Len(store[mysqlRes].names)
    BY DEF ReadsLiveCell, ReadsCell
  <2> DEFINE r == store[mysqlRes]
  <2>1. Current(mysqlRes, r)
    BY DEF IInv, PointsToResult
  <2>2. /\ mysqlRes \in Allocated /\ rows = r.size /\ fields = Len(r.names)
        /\ r.at \in 2 .. rows + 1 /\ mysqlRow = Row(mysqlRes, r.at - 1)
    BY <2>1 DEF Current
  <2>3. mysqlRow[1] = mysqlRes /\ mysqlRow[2] = r.at - 1
    BY <2>2 DEF Row
  <2>4. rows \in 0 .. MaxRows
    BY DEF IInv, TypeOK
  <2> HIDE DEF r
  <2>5. r.at - 1 <= r.size
    BY <2>2, <2>4, ResultSetAssumption
  <2> QED
    BY <2>2, <2>3, <2>5 DEF r
<1> QED
  BY <1>1, Inductive, PTL

\* seekRow() goes where it says it went, and there is where it was asked to go
\* whenever the result has such a row.
THEOREM SeekIsExact == Spec => SeekReturnsPosition
<1> DEFINE Exact ==
      ret'.op = "seekRow" /\ ret' # ret /\ rows > 0 =>
        /\ mysqlRow' = Row(mysqlRes, ret'.value + 1)
        /\ ret'.arg < rows => ret'.value = ret'.arg
<1>1. ASSUME IInv, NEW offset \in 0 .. MaxRows + 1, SeekRow(offset), rows > 0
      PROVE  Exact
  <2> DEFINE r == Sought(store[mysqlRes], Corrected(offset))
  <2>1. mysqlRes # NULL /\ mysqlRow' = Fetched(mysqlRes, r)
        /\ ret' = [op |-> "seekRow", arg |-> offset, value |-> Corrected(offset)]
    BY <1>1 DEF SeekRow, Returned
  <2>2. /\ Corrected(offset) \in Nat /\ Corrected(offset) < rows /\ rows \in Nat
        /\ store[mysqlRes] \in Stored /\ store[mysqlRes].size = rows
    BY <1>1, <2>1, CurrentResult, CorrectedType DEF IInv, TypeOK
  <2>3. /\ r \in Stored /\ r.at \in 1 .. r.size + 1
        /\ r.size = rows /\ r.at = Corrected(offset) + 1
    BY <2>2, SeekStep
  <2>4. mysqlRes \in Result
    BY <1>1, <2>1, CurrentResult
  <2> HIDE DEF r
  <2>5. mysqlRow' = Row(mysqlRes, Corrected(offset) + 1)
    BY <2>1, <2>2, <2>3, <2>4, FetchStep
  <2> QED
    BY <1>1, <2>1, <2>5, CorrectedType
<1>2. IInv /\ [Next]_vars => Exact
  <2> SUFFICES ASSUME IInv, [Next]_vars, ret'.op = "seekRow", ret' # ret, rows > 0
               PROVE  Exact
    OBVIOUS
  <2>1. PICK offset \in 0 .. MaxRows + 1 : SeekRow(offset)
    BY LookupReturns, GetReturns, OtherReturns, CrashReturns DEF Next, vars, Getters
  <2> QED
    BY <2>1, <1>1
<1> QED
  BY <1>2, Inductive, PTL DEF Spec, SeekReturnsPosition

\* A lookup finds the first column of the name, and stays within the columns.
LEMMA IndexIsFirst ==
  ASSUME IInv, mysqlRes # NULL, NEW name,
         NEW found, found = { i \in DOMAIN store[mysqlRes].names : store[mysqlRes].names[i] = name }
  PROVE  /\ Index(name) = IF found = {} THEN -1 ELSE Least(found) - 1
         /\ found # {} => Least(found) \in 1 .. fields
         /\ fields \in Nat /\ DOMAIN store[mysqlRes].names = 1 .. fields
<1>1. /\ fields = Len(store[mysqlRes].names) /\ fields \in Nat
      /\ DOMAIN store[mysqlRes].names = 1 .. fields
  BY CurrentResult, ResultSetAssumption DEF IInv, PointsToResult, Current, Stored
<1>2. Matches(store[mysqlRes], name) = found
  BY <1>1 DEF Matches, StartField
<1>3. found \subseteq 1 .. fields
  BY <1>1
<1>4. found # {} => Least(found) \in found
  <2>1. found \subseteq Nat
    BY <1>1, <1>3
  <2> QED
    BY <2>1, LeastColumn
<1> QED
  BY <1>1, <1>2, <1>3, <1>4 DEF Index

\* fieldIndex() looks at every column of the current result and at no other,
\* and finds the first one of the name.
THEOREM LookupIsExact == Spec => LookupFinds
<1> DEFINE names == store[mysqlRes].names
           found(n) == { i \in DOMAIN names : names[i] = n }
           Found(n) == IF found(n) = {} THEN -1 ELSE Least(found(n)) - 1
<1>1. ASSUME IInv, NEW name \in Name, FieldIndex(name)
      PROVE  ret'.value = Found(name) /\ ret'.arg = name
  BY <1>1, FieldIndexReturns, IndexIsFirst
<1>2. IInv /\ [Next]_vars => (ret'.op = "fieldIndex" /\ ret' # ret => ret'.value = Found(ret'.arg))
  <2> SUFFICES ASSUME IInv, [Next]_vars, ret'.op = "fieldIndex", ret' # ret
               PROVE  ret'.value = Found(ret'.arg)
    OBVIOUS
  <2>1. PICK name \in Name : FieldIndex(name)
    BY SeekRowReturns, GetByNameReturns, GetReturns, OtherReturns, CrashReturns
       DEF Next, vars, Getters
  <2>2. ret'.value = Found(name) /\ ret'.arg = name
    BY <2>1, <1>1
  <2> QED
    BY <2>2
<1> QED
  BY <1>2, Inductive, PTL DEF Spec, LookupFinds

\* What atoi() and atol() make of a text is less than one off what it denotes.
LEMMA AtoiIsNear ==
  ASSUME NEW text \in Text
  PROVE  Atoi(text) \in Int /\ Tenths[text] - 10 * Atoi(text) \in -9 .. 9
<1>1. \A n \in Nat : n \div 10 \in Nat /\ n - 10 * (n \div 10) \in 0 .. 9
  OBVIOUS
<1>2. Tenths[text] \in Int
  BY ContentAssumption
<1> QED
  BY <1>1, <1>2 DEF Atoi

\* The cell that is asked for exists: a text or an SQL NULL.
LEMMA CellType ==
  ASSUME IInv, NEW arg, Asked(arg) # {}
  PROVE  CellAsked(arg) \in Text \cup {NULL}
<1> DEFINE names == store[mysqlRes].names
           i == mysqlRow[2]
           j == Least(Asked(arg))
<1>1. mysqlRes # NULL /\ mysqlRow # NULL /\ Asked(arg) \subseteq DOMAIN names
  BY DEF Asked
<1>2. names \in Heading /\ names \in Seq(Name) /\ i \in 1 .. MaxRows
  BY <1>1, CurrentResult, ResultSetAssumption DEF Stored, IInv, TypeOK
<1>3. DOMAIN names = 1 .. Len(names) /\ Len(names) \in Nat
  BY <1>2
<1>4. j \in 1 .. Len(names)
  <2>1. Asked(arg) \subseteq Nat
    BY <1>1, <1>3
  <2> QED
    BY <1>1, <1>3, <2>1, LeastColumn
<1>5. Content[i] \in Seq(Text \cup {NULL}) /\ Len(names) <= Len(Content[i])
  BY <1>2, ContentAssumption
<1> HIDE DEF names, i, j
<1>6. Content[i][j] \in Text \cup {NULL}
  BY <1>3, <1>4, <1>5
<1> QED
  BY <1>6 DEF CellAsked, i, j

\* The texts that the getters by name start from are the cell that is asked for.
LEMMA StringOfFinds ==
  ASSUME IInv, mysqlRes # NULL, mysqlRow # NULL, NEW name \in Name, NEW d
  PROVE  StringOf(name, d) = IF Asked(name) = {} THEN d ELSE CellAsked(name)
<1>1. Asked(name) = { i \in DOMAIN store[mysqlRes].names : store[mysqlRes].names[i] = name }
  BY DEF Asked
<1>2. /\ Index(name) = IF Asked(name) = {} THEN -1 ELSE Least(Asked(name)) - 1
      /\ Asked(name) # {} => Least(Asked(name)) \in 1 .. fields
      /\ fields \in Nat
  BY <1>1, IndexIsFirst
<1>3. CASE Asked(name) = {}
  BY <1>2, <1>3 DEF StringOf
<1>4. CASE Asked(name) # {}
  <2>1. Index(name) # -1 /\ Index(name) + 1 = Least(Asked(name)) /\ Index(name) + 1 <= fields
    BY <1>2, <1>4
  <2> QED
    BY <1>4, <2>1 DEF StringOf, StringAt, ReadsCell, Cell, CellAsked
<1> QED
  BY <1>3, <1>4

\* So are those that the getters by number start from.
LEMMA StringAtFinds ==
  ASSUME IInv, NEW col \in Nat, NEW d
  PROVE  /\ StringAt(col, d) = IF Asked(col) = {} THEN d ELSE CellAsked(col)
         /\ ReadsCell(col) <=> Asked(col) # {}
<1>1. CASE mysqlRes = NULL \/ mysqlRow = NULL
  BY <1>1 DEF Asked, StringAt, ReadsCell
<1>2. CASE mysqlRes # NULL /\ mysqlRow # NULL
  <2>1. DOMAIN store[mysqlRes].names = 1 .. fields /\ fields \in Nat
    BY <1>2, IndexIsFirst
  <2>2. Asked(col) = { i \in 1 .. fields : i = col + 1 }
    BY <1>2, <2>1, ContentAssumption DEF Asked
  <2>3. CASE col + 1 <= fields
    <3>1. Asked(col) = {col + 1}
      BY <2>1, <2>2, <2>3
    <3>2. Least(Asked(col)) = col + 1
      BY <3>1, LeastColumn
    <3> QED
      BY <1>2, <2>3, <3>1, <3>2 DEF StringAt, ReadsCell, Cell, CellAsked
  <2>4. CASE ~(col + 1 <= fields)
    <3>1. Asked(col) = {}
      BY <2>1, <2>2, <2>4
    <3> QED
      BY <2>4, <3>1 DEF StringAt, ReadsCell
  <2> QED
    BY <2>3, <2>4
<1> QED
  BY <1>1, <1>2

\* What GettersTellTheCell says of a getter that has been asked for arg.
Tells(op, arg, value) ==
  IF Asked(arg) = {}
  THEN op = "getStringField" \/ (op = "getIntField" /\ (arg \in Name => mysqlRow = NULL))
         => value = nullValue
  ELSE IF op = "getStringField" THEN value = CellAsked(arg)
  ELSE IF CellAsked(arg) = NULL THEN value = nullValue
  ELSE value \in Int /\ Tenths[CellAsked(arg)] - 10 * value \in -9 .. 9

\* A getter tells the cell if it returns it, or turns it into a number.
LEMMA TellsCell ==
  ASSUME IInv, NEW arg, NEW op \in Getters, NEW value, Asked(arg) # {},
         value = IF op = "getStringField" THEN CellAsked(arg) ELSE OrNullValue(CellAsked(arg))
  PROVE  Tells(op, arg, value)
<1>1. CASE op = "getStringField" \/ CellAsked(arg) = NULL
  BY <1>1 DEF Tells, OrNullValue
<1>2. CASE op # "getStringField" /\ CellAsked(arg) # NULL
  <2>1. CellAsked(arg) \in Text /\ value = Atoi(CellAsked(arg))
    BY <1>2, CellType DEF OrNullValue
  <2>2. value \in Int /\ Tenths[CellAsked(arg)] - 10 * value \in -9 .. 9
    BY <2>1, AtoiIsNear
  <2> QED
    BY <1>2, <2>2, Zenon DEF Tells
<1> QED
  BY <1>1, <1>2

\* No sequence of fills, fetches, seeks and lookups makes a getter give anything
\* but the cell of the current row in the first column of the name, as it stands
\* or as a number that is less than one off the one the cell denotes; nor anything
\* but nullValue for an SQL NULL, and for the missing cells GettersTellTheCell
\* names.
THEOREM GettersAreExact == Spec => GettersTellTheCell
<1>1. ASSUME IInv, NEW name \in Name, GetByName(name)
      PROVE  Tells(ret'.op, ret'.arg, ret'.value)
  <2>1. /\ ret'.op \in Getters /\ ret'.arg = name /\ mysqlRes # NULL /\ mysqlRow # NULL
        /\ ret'.value = IF ret'.op = "getStringField" THEN StringOf(name, nullValue)
                        ELSE OrNullValue(StringOf(name, Blank))
    BY <1>1, GetByNameReturns
  <2>2. \A d : StringOf(name, d) = IF Asked(name) = {} THEN d ELSE CellAsked(name)
    BY <1>1, <2>1, StringOfFinds
  <2>3. CASE Asked(name) = {}
    BY <2>1, <2>2, <2>3 DEF Tells
  <2>4. CASE Asked(name) # {}
    BY <1>1, <2>1, <2>2, <2>4, TellsCell
  <2> QED
    BY <2>3, <2>4
<1>2. ASSUME IInv, NEW col \in Nat, GetByNumber(col)
      PROVE  Tells(ret'.op, ret'.arg, ret'.value)
  <2>1. PICK op \in Getters :
          \E d : /\ op # "getFloatField" => d = IF op = "getStringField" THEN nullValue ELSE NULL
                /\ Returned(op, col, IF op = "getStringField" THEN StringAt(col, d)
                                                              ELSE OrNullValue(StringAt(col, d)))
    BY <1>2, Zenon DEF GetByNumber, Getters
  <2>2. PICK d : /\ op # "getFloatField" => d = IF op = "getStringField" THEN nullValue ELSE NULL
                 /\ Returned(op, col, IF op = "getStringField" THEN StringAt(col, d)
                                                               ELSE OrNullValue(StringAt(col, d)))
    BY <2>1
  <2>3. /\ ret'.op = op /\ ret'.arg = col
        /\ ret'.value = IF op = "getStringField" THEN StringAt(col, d)
                        ELSE OrNullValue(StringAt(col, d))
    BY <2>2 DEF Returned
  <2>4. StringAt(col, d) = IF Asked(col) = {} THEN d ELSE CellAsked(col)
    BY <1>2, StringAtFinds
  <2>5. CASE Asked(col) = {}
    BY <2>2, <2>3, <2>4, <2>5 DEF Tells, OrNullValue
  <2>6. CASE Asked(col) # {}
    BY <1>2, <2>3, <2>4, <2>6, TellsCell
  <2> QED
    BY <2>5, <2>6
<1>3. ASSUME NEW name \in Name, GetWithoutRow(name)
      PROVE  Tells(ret'.op, ret'.arg, ret'.value)
  <2>1. Asked(name) = {}
    BY <1>3 DEF GetWithoutRow, Asked
  <2>2. PICK value : \E op \in Getters : /\ Returned(op, name, value)
                                         /\ op # "getFloatField" => value = nullValue
    BY <1>3, Zenon DEF GetWithoutRow, Getters
  <2>3. PICK op \in Getters : /\ Returned(op, name, value)
                              /\ op # "getFloatField" => value = nullValue
    BY <2>2
  <2>4. ret'.op = op /\ ret'.arg = name /\ ret'.value = value
    BY <2>3 DEF Returned
  <2> QED
    BY <2>1, <2>3, <2>4 DEF Tells
<1>4. IInv /\ [Next]_vars =>
        (obj' = "live" /\ ret' # ret /\ ret'.op \in Getters
           => Tells(ret'.op, ret'.arg, ret'.value))
  <2> SUFFICES ASSUME IInv, [Next]_vars, obj' = "live", ret' # ret, ret'.op \in Getters
               PROVE  Tells(ret'.op, ret'.arg, ret'.value)
    OBVIOUS
  <2>1. \/ \E name \in Name : GetByName(name) \/ GetWithoutRow(name)
        \/ \E col \in Nat : GetByNumber(col)
    <3>1. \A h \in Heading : Len(h) \in Nat
      BY ResultSetAssumption
    <3> QED
      BY <3>1, SeekRowReturns, FieldIndexReturns, OtherReturns, CrashReturns
         DEF Next, vars, Getters
  <2> QED
    BY <2>1, <1>1, <1>2, <1>3
<1> QED
  BY <1>4, Inductive, PTL DEF Spec, GettersTellTheCell, Tells

-----------------------------------------------------------------------------
(* Results that leak.                                                      *)

\* Every result that is allocated is the object's own or was overwritten.
LeaksCounted == IsFiniteSet(Allocated) /\ LeaksAreOverwritten

\* Steps that move the library's cursors and allocate and free nothing.
LEMMA LeaksStay ==
  ASSUME LeaksCounted, Allocated' = Allocated, UNCHANGED <<mysqlRes, overwritten>>
  PROVE  LeaksCounted'
BY DEF LeaksCounted, LeaksAreOverwritten

LEMMA FreedLeaks ==
  ASSUME IInv, LeaksCounted, store' = Freed(mysqlRes), mysqlRes' = NULL,
         overwritten' = overwritten
  PROVE  LeaksCounted'
<1>1. Allocated' = Allocated \ {mysqlRes}
  BY DEF Freed, Allocated
<1>2. /\ IsFiniteSet(Allocated \ {mysqlRes})
      /\ Cardinality(Allocated \ {mysqlRes}) = IF mysqlRes \in Allocated
                                               THEN Cardinality(Allocated) - 1
                                               ELSE Cardinality(Allocated)
  BY FS_RemoveElement DEF LeaksCounted
<1>3. IsFiniteSet(Allocated') /\ Cardinality(Allocated') = Cardinality(Allocated \ {mysqlRes})
  BY <1>1, <1>2, Zenon
<1>4. mysqlRes \in Allocated <=> mysqlRes # NULL
  BY CurrentResult, ResultSetAssumption DEF IInv, TypeOK
<1>5. overwritten \in Nat
  BY DEF IInv, TypeOK
<1> QED
  BY <1>2, <1>3, <1>4, <1>5 DEF LeaksCounted, LeaksAreOverwritten

LEMMA QueryLeaks ==
  ASSUME IInv, LeaksCounted,
         NEW n \in 0 .. MaxRows, NEW names \in Heading, QueryStores(n, names)
  PROVE  LeaksCounted'
<1>1. PICK x \in Result \ Allocated :
        /\ mysqlRes' = x
        /\ Allocated' = Allocated \cup {x}
        /\ overwritten' = overwritten + (IF mysqlRes = NULL THEN 0 ELSE 1)
  BY DEF QueryStores, Allocated
<1>2. /\ IsFiniteSet(Allocated \cup {x})
      /\ Cardinality(Allocated \cup {x}) = Cardinality(Allocated) + 1
  BY <1>1, FS_AddElement DEF LeaksCounted
<1>3. IsFiniteSet(Allocated') /\ Cardinality(Allocated') = Cardinality(Allocated \cup {x})
  BY <1>1, <1>2, Zenon
<1>4. x # NULL /\ x \in Allocated' /\ overwritten \in Nat
  BY <1>1, ResultSetAssumption DEF IInv, TypeOK
<1> QED
  BY <1>1, <1>2, <1>3, <1>4 DEF LeaksCounted, LeaksAreOverwritten

LEMMA CrashLeaks ==
  ASSUME Crash
  PROVE  LeaksCounted'
<1>1. Allocated' = {} /\ mysqlRes' = NULL /\ overwritten' = 0
  BY DEF Crash, Members, Allocated
<1> QED
  BY <1>1, FS_EmptySet DEF LeaksCounted, LeaksAreOverwritten

LEMMA LeaksNext == IInv /\ LeaksCounted /\ [Next]_vars => LeaksCounted'
<1> SUFFICES ASSUME IInv, LeaksCounted, [Next]_vars PROVE LeaksCounted'
  OBVIOUS
<1>1. CASE \E n \in 0 .. MaxRows, names \in Heading : QueryStores(n, names)
  BY <1>1, QueryLeaks
<1>2. CASE QueryFails \/ UNCHANGED vars
  BY <1>2, LeaksStay DEF QueryFails, vars, members, Allocated
<1>3. CASE \/ QueryWithoutResult \/ UseWithoutResult
           \/ \E h \in Heading : \E col \in 0 .. Len(h) : GetIntOfNull(col)
  BY <1>3, CrashLeaks DEF QueryWithoutResult, UseWithoutResult, GetIntOfNull
<1>4. CASE Construct
  <2>1. mysqlRes = NULL => mysqlRes' = mysqlRes
    BY <1>4 DEF Construct, Members
  <2>2. mysqlRes = NULL
    BY <1>4 DEF Construct, IInv, PointsToResult, Current
  <2> QED
    BY <1>4, <2>1, <2>2, LeaksStay DEF Construct, Allocated
<1>5. CASE Destroy \/ FreeRes
  BY <1>5, FreedLeaks DEF Destroy, Destroyed, FreeRes, Members
<1>6. CASE NextRow
  BY <1>6, LeaksStay DEF NextRow, Allocated
<1>7. CASE \E offset \in 0 .. MaxRows + 1 : SeekRow(offset)
  BY <1>7, LeaksStay DEF SeekRow, Allocated
<1>8. ASSUME NEW name \in Name, FieldIndex(name) \/ GetByName(name) PROVE LeaksCounted'
  <2>1. store' = Searched(name) /\ UNCHANGED <<mysqlRes, overwritten>>
    BY <1>8, LookupReturns DEF members
  <2> QED
    BY <2>1, LeaksStay DEF Searched, Allocated
<1>9. ASSUME NEW arg, GetByNumber(arg) \/ GetWithoutRow(arg) PROVE LeaksCounted'
  BY <1>9, GetReturns, LeaksStay DEF members, Allocated
<1> QED
  BY <1>1, <1>2, <1>3, <1>4, <1>5, <1>6, <1>7, <1>8, <1>9 DEF Next

\* However a program fills, reads, frees and destroys its result set, the results
\* the library still holds for it are the one it points to and those that a second
\* querySQL() overwrote, and what freeRes() and the destructor free is allocated.
THEOREM OnlyOverwrittenLeak == Spec => []LeaksAreOverwritten
<1>1. Init => LeaksCounted
  BY FS_EmptySet DEF Init, LeaksCounted, LeaksAreOverwritten, Allocated
<1>2. LeaksCounted => LeaksAreOverwritten
  BY DEF LeaksCounted
<1> QED
  BY <1>1, <1>2, LeaksNext, Inductive, PTL DEF Spec

-----------------------------------------------------------------------------
(* The refinement of RowCursor.                                            *)

Size == IF mysqlRes = NULL THEN 0 ELSE rows
Pos  == IF mysqlRes = NULL THEN 0 ELSE IF Eof THEN rows + 1 ELSE mysqlRow[2]

\* A fetch of the current result puts the reader on the row that was fetched,
\* or at the end.
LEMMA FetchedPos ==
  ASSUME NEW x \in Result, NEW r \in Stored, r.at \in 1 .. r.size + 1,
         mysqlRes' = x, rows' = r.size, mysqlRow' = Fetched(x, r)
  PROVE  Pos' = r.at /\ Size' = r.size
<1>1. x # NULL /\ \A i \in Nat : Row(x, i) # NULL /\ Row(x, i)[2] = i
  BY ResultSetAssumption DEF Row
<1> QED
  BY <1>1, FetchStep DEF Pos, Size, Eof, Stored

\* Where the library's cursor stands when the reader is on a row.
LEMMA PosOfCursor ==
  ASSUME IInv, mysqlRes # NULL
  PROVE  /\ Size = rows /\ rows \in Nat
         /\ Pos \in 1 .. rows + 1
         /\ Pos = rows + 1 => store[mysqlRes].at = rows + 1
         /\ Pos # rows + 1 => store[mysqlRes].at = Pos + 1
<1>1. \A i \in Nat : Row(mysqlRes, i) # NULL /\ Row(mysqlRes, i)[2] = i
  BY CurrentResult, ResultSetAssumption DEF Row
<1>2. rows \in Nat
  BY DEF IInv, TypeOK
<1> QED
  BY <1>1, <1>2 DEF IInv, PointsToResult, Current, Pos, Size, Eof

\* Every step is one of RowCursor's, or moves no cursor.
LEMMA StepRefines ==
  ASSUME IInv, IInv', [Next]_vars
  PROVE  [Cursor!Fill \/ Cursor!Advance \/ Cursor!Jump \/ Cursor!Clear]_<<Size, Pos>>
<1>1. ASSUME NEW n \in 0 .. MaxRows, NEW names \in Heading, QueryStores(n, names)
      PROVE  Cursor!Fill
  <2> DEFINE r == [size |-> n, names |-> names, at |-> 1, field |-> 1]
  <2>1. r \in Stored /\ r.at \in 1 .. r.size + 1 /\ r.size = n /\ r.at = 1
    BY ResultSetAssumption DEF Stored
  <2>2. PICK x \in Result : mysqlRes' = x /\ mysqlRow' = Fetched(x, r) /\ rows' = n
    BY <1>1, Zenon DEF QueryStores, FirstRow
  <2> HIDE DEF r
  <2>3. Pos' = 1 /\ Size' = n
    BY <2>1, <2>2, FetchedPos
  <2> QED
    BY <2>3 DEF Cursor!Fill, Pos, Size
<1>2. CASE \/ QueryWithoutResult \/ UseWithoutResult \/ Construct \/ Destroy \/ FreeRes
           \/ \E h \in Heading : \E col \in 0 .. Len(h) : GetIntOfNull(col)
  <2>1. mysqlRes' = NULL
    BY <1>2, Zenon DEF QueryWithoutResult, UseWithoutResult, GetIntOfNull, Crash, Construct,
       Destroy, FreeRes, Members
  <2> QED
    BY <2>1 DEF Cursor!Clear
<1>3. CASE NextRow
  <2> DEFINE r == store[mysqlRes]
  <2>1. /\ mysqlRes # NULL /\ mysqlRes' = mysqlRes /\ rows' = rows
        /\ mysqlRow' = Fetched(mysqlRes, r)
    BY <1>3 DEF NextRow
  <2>2. Pos' = r.at /\ Size' = rows
    BY <2>1, CurrentResult, FetchedPos
  <2>3. Pos = rows + 1 \/ (Pos \in 1 .. rows /\ r.at = Pos + 1)
    BY <2>1, PosOfCursor
  <2>4. CASE Pos = rows + 1
    BY <2>1, <2>2, <2>4, PosOfCursor
  <2>5. CASE Pos \in 1 .. rows /\ r.at = Pos + 1
    <3>1. Pos \in 1 .. Size /\ Pos' = Pos + 1 /\ Size' = Size
      BY <2>1, <2>2, <2>5, PosOfCursor
    <3> QED
      BY <3>1 DEF Cursor!Advance, Pos, Size
  <2> QED
    BY <2>3, <2>4, <2>5
<1>4. ASSUME NEW offset \in 0 .. MaxRows + 1, SeekRow(offset)
      PROVE  Cursor!Jump
  <2> DEFINE r == Sought(store[mysqlRes], Corrected(offset))
  <2>1. /\ mysqlRes # NULL /\ mysqlRes' = mysqlRes /\ rows' = rows
        /\ mysqlRow' = Fetched(mysqlRes, r)
    BY <1>4 DEF SeekRow
  <2>2. Corrected(offset) \in Nat /\ (rows > 0 => Corrected(offset) < rows)
    BY CorrectedType
  <2>3. /\ store[mysqlRes] \in Stored /\ store[mysqlRes].size = rows
        /\ mysqlRes \in Result
    BY <2>1, CurrentResult
  <2>4. /\ r \in Stored /\ r.at \in 1 .. r.size + 1 /\ r.size = rows
        /\ r.at = IF Corrected(offset) < rows THEN Corrected(offset) + 1 ELSE rows + 1
    BY <2>2, <2>3, SeekStep
  <2> HIDE DEF r
  <2>5. Pos' = r.at /\ Size' = rows
    BY <2>1, <2>3, <2>4, FetchedPos
  <2>6. Pos # 0 /\ Size = rows /\ rows \in Nat
    BY <2>1, PosOfCursor
  <2>7. Pos # 0 /\ Pos' \in (IF Size = 0 THEN {1} ELSE 1 .. Size) /\ Size' = Size
    BY <2>2, <2>4, <2>5, <2>6
  <2> QED
    BY <2>7 DEF Cursor!Jump, Pos, Size
<1>5. ASSUME NEW name \in Name, FieldIndex(name) \/ GetByName(name)
      PROVE  UNCHANGED <<Size, Pos>>
  BY <1>5, LookupReturns DEF members, Size, Pos, Eof
<1>6. ASSUME NEW arg, GetByNumber(arg) \/ GetWithoutRow(arg)
      PROVE  UNCHANGED <<Size, Pos>>
  BY <1>6, GetReturns DEF members, Size, Pos, Eof
<1>7. CASE QueryFails \/ UNCHANGED vars
  BY <1>7 DEF QueryFails, vars, members, Size, Pos, Eof
<1> QED
  BY <1>1, <1>2, <1>3, <1>4, <1>5, <1>6, <1>7 DEF Next

\* The library's cursor, mysqlRow_, rows_ and what querySQL(), seekRow(),
\* nextRow() and freeRes() do with them are a cursor over the rows.
THEOREM ImplementsRowCursor == Spec => CursorSpec
<1>1. Init => Cursor!Empty
  BY DEF Init, Cursor!Empty
<1>2. IInv /\ IInv' /\ [Next]_vars =>
        [Cursor!Fill \/ Cursor!Advance \/ Cursor!Jump \/ Cursor!Clear]_<<Size, Pos>>
  BY StepRefines
<1> QED
  BY <1>1, <1>2, Inductive, PTL DEF Spec, CursorSpec, Cursor!Spec, Size, Pos
=============================================================================
