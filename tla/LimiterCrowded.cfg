SPECIFICATION Spec
CONSTANTS
  Ips = {a, b, c}
  Workers = {w1, w2}
  Max = 2
  Threshold = 2
  Window = 2
  BlockFor = 2
  SweepAfter = 4
  NoIp = NoIp
  MaxNow = 8
  MaxAttempts = 6
SYMMETRY Interchangeable
INVARIANTS BlockedAtThreshold
CHECK_DEADLOCK FALSE
