SPECIFICATION Spec
CONSTANTS
  NULL = NULL
  Statement = {s1}
  Charset = {gbk}
  NoCharset = NoCharset
  MaxHandles = 2
  MaxDrops = 0
SYMMETRY Symmetry
INVARIANTS
  CharsetIsUsed
