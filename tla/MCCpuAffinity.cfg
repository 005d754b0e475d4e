SPECIFICATION Spec
CONSTANTS
  Thread = {main, w1, w2}
  Main = main
  Cpu = {0, 1, 2}
  CpuId = {0, 1, 2, 3}
INVARIANT TypeOK
PROPERTY GetterNamesPin
SYMMETRY Symmetry
