SPECIFICATION Spec
CONSTANTS
  NULL = NULL
  Statement = {s1, s2}
  Charset = {gbk}
  NoCharset = NoCharset
  MaxHandles = 2
  MaxDrops = 1
SYMMETRY Symmetry
INVARIANTS
  TypeOK
  AllOrNothing
  TransactionVerdict
  AutocommitIsDurable
  RefusalIsFinal
  LeaksAreReplaced
  VerdictMatchesCode
