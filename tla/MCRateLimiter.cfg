\* Three addresses, a limit of 1 + 1 per address and 3 in all.
SPECIFICATION Spec
CONSTANTS
  a = a
  b = b
  c = c
  Ip = {a, b, c}
  PerIpLimit = 1
  Burst = 1
  GlobalLimit = 3
  Window = 2
  EvictionWindow = 3
  MaxLag = 2
  MaxTime = 5
SYMMETRY Addresses
INVARIANTS
  TypeOK
  PerIpLimited
  GlobalLimited
  RefusalJustified
  TrackedIpsActive
CHECK_DEADLOCK FALSE
