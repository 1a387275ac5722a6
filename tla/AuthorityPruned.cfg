SPECIFICATION Spec
CONSTANTS
  c1 = c1
  c2 = c2
  d1 = d1
  d2 = d2
  NoDigest = NoDigest
  NoFile = NoFile
  Clients = {c1}
  Docs = {d1}
  Publishable = {d1}
  MaxGeneration = 2
  MaxEpoch = 2
  Damageable = {2}
CHECK_DEADLOCK FALSE
INVARIANT ServedStaysOnDisk
