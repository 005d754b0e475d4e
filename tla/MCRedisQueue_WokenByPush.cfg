SPECIFICATION FairSpec
CONSTANTS
  Producer = {p1}
  Consumer = {c1}
  Value = {v1, v2}
  Key = {q, w}
  Queue = q
  Processing = w
  Joined = q_w
  PushMethod = {"lpush", "lpushx"}
  PopMethod = {"brpop"}
  KeySets = {{q, w}}
  Timeout = {0}
  IntRange = 8
  Retries = FALSE
  MaxAccepted = 2
  MaxDrops = 0
CHECK_DEADLOCK FALSE
PROPERTIES
  WokenByPush
