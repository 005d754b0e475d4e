SPECIFICATION FairSpec
CONSTANTS
  Producer = {p1}
  Consumer = {c1, c2}
  Value = {v1, v2}
  Key = {q, w}
  Queue = q
  Processing = w
  Joined = q_w
  PushMethod = {"rpush"}
  PopMethod = {"blpop"}
  KeySets = {{q}}
  Timeout = {1, 4}
  IntRange = 8
  Retries = FALSE
  MaxAccepted = 2
  MaxDrops = 1
PROPERTIES
  DeliverySpec
  WokenByPush
  BlockingEnds
