SPECIFICATION Spec
CONSTANTS
  Producer = {p1}
  Consumer = {c1, c2}
  Value = {v1, v2}
  Key = {q, w}
  Queue = q
  Processing = w
  Joined = q_w
  PushMethod = {"lpush", "lpushx"}
  PopMethod = {"brpoplpush"}
  KeySets = {{q}}
  Timeout = {1}
  IntRange = 8
  Retries = TRUE
  MaxAccepted = 3
  MaxDrops = 2
SYMMETRY Symmetry
INVARIANTS
  NothingLost
  DuplicatesAreReported
