CONSTANTS
  Requests = {r1, r2, r3}
  Keys = {k1, k2, k3}
  MaxKeys = 2
  Burst = 3
  GlobalBurst = 4
  Tiers = {"ip", "device"}
SYMMETRY Symmetry
SPECIFICATION Spec
INVARIANT NoExtraBurst
PROPERTY RefusalJustified
