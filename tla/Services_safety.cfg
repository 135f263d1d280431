CONSTANTS
  Worker = {w1, w2}
  Secret = {s1}
  Text = {t1, t2}
  Lookalike = {t2}
  EnvKey = {k1, k2}
  FileKey = {g1, g2}
  None = None
  RotateEarly = FALSE
  MaxRotations = 2
  MaxSaves = 2
  MaxRestarts = 1
  MaxFaults = 1
  Client = {c1, c2}
  Attempt = {a1, a2}
  BackoffAfter = 1
  BackoffMax = 4
  GlobalLimit = 2
  GlobalWindow = 3
  EntryTtl = 2
  MaxTracked = 1
  Patience = 1
  MaxSecond = 4
  MaxTries = 4
  Proc = {p1, p2}
  Thread = {h1, h2}
  CacheTtl = 1
  MaxTick = 1
  MaxWrites = 2
  MaxOutages = 1
  Server = {p1}
  Browser = {b1}
  Flow = {f1, f2}
  NoFlow = NoFlow
  KeysTtl = 1
  FlowTtl = 1
  MaxMoment = 2
  MaxKeys = 2
  MaxSwitches = 1
  Migrator = {m1, m2}
  Importer = {i1, i2}
  Recorder = {n1, n2}
  Nothing = Nothing
  Revisions = 3
  OldRows = 2
  MaxId = 2
  MaxCrashes = 1
SPECIFICATION ServicesSpec
SYMMETRY ServicesSymmetry
INVARIANTS Typed KeysOnRecord EncryptedOnce LastEntryKept MarkerMeansSealed RotationReachesAll
  GuessesBounded RefreshComesBack MigratedOnce ImportedWhole IdentityPast
PROPERTIES ReadsNeverRegress WithdrawnKeyDies RotationNoticed
CHECK_DEADLOCK FALSE
