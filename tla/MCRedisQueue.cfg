SPECIFICATION Spec
CONSTANTS
  Producer = {p1}
  Consumer = {c1, c2}
  Value = {v1, v2, v3}
  Key = {q, w}
  Queue = q
  Processing = w
  Joined = q_w
  PushMethod = {"lpush", "lpushx"}
  PopMethod = {"rpop", "brpop"}
  KeySets = {{q}}
  Timeout = {1, 4}
  IntRange = 8
  Retries = FALSE
  MaxAccepted = 3
  MaxDrops = 2
SYMMETRY Symmetry
INVARIANTS
  TypeOK
  AtMostOnce
  OrderKept
  ConfirmedIsStored
  LossIsReported
