SPECIFICATION Spec
CONSTANTS
  Decimal <- MCDecimal
  Width <- MCWidth
  Edited = "edited"
  Client = {"a", "b"}
  Uses <- MCUses
  Key = {"k", "l"}
  CallKey = {"k"}
  Field = {"f", "l"}
  Value = {"1", "v l v"}
  KeyLists <- MCKeyLists
  FieldLists <- MCFieldLists
  Words <- MCWords
  Integers <- MCIntegers
  IntRange = 8
  Databases <- MCDatabases
  MaxCalls = 2
  MaxDrops = 1
INVARIANTS
  TypeOK
  SuccessIsDone
  DenialChangesNothing
PROPERTIES
  ReadIsSnapshot
  ChangesAsAsked
  FailureKeepsOutputs
CHECK_DEADLOCK FALSE
