\* Copies of signed messages under the same nonce and under others, early, late
\* and across a restart; the capacity of the nonce store is reached but for the
\* circuit breaker.
SPECIFICATION Spec
CONSTANTS
  m1 = m1
  m2 = m2
  n1 = n1
  n2 = n2
  n3 = n3
  ip = ip
  Nil = Nil
  Message = {m1, m2}
  Nonce = {n1, n2, n3}
  Valid = {m1}
  Ip = {ip}
  SourceIp <- AllFromOne
  PerIpLimit = 4
  Burst = 0
  GlobalLimit = 1
  Window = 1
  EvictionWindow = 1
  Fresh = 1
  Ttl = 3
  Capacity = 3
  Skew = 1
  MaxPause = 1
  MaxLife = 2
  MaxTime = 4
SYMMETRY AnyNonce
INVARIANTS
  TypeOK
  SavedOncePerLife
  AckedIsSaved
  
CHECK_DEADLOCK FALSE
