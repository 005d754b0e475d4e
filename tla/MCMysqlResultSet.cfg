SPECIFICATION Spec
CONSTANTS
  id = id
  name = name
  NULL = NULL
  seven = seven
  half = half
  Blank = Blank
  nullValue = nullValue
  Text <- MCText
  Tenths <- MCTenths
  Content <- MCContent
  Result = {r1, r2}
  Name <- MCName
  Heading <- MCHeading
  MaxRows = 3
  ULongRange = 8
INVARIANTS
  TypeOK
  ReadsLiveCell
  LeaksAreOverwritten
PROPERTIES
  SeekReturnsPosition
  LookupFinds
  CursorSpec
  
