SPECIFICATION Spec
CONSTANTS
  Models = {m1, m2, m3}
  Addrs = {a1, a2, a3}
  None = None
INVARIANTS FreedOnce
