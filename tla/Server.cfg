CONSTANTS
  u1 = u1
  u2 = u2
  p1 = p1
  Uploads = {u1, u2}
  Processes = {p1}
  Host <- MCHost
  RoleOf <- MCRoleOf
  Capacity = 2
  PutWithinDelay = TRUE
  MaxAttempts = 2
  MaxFaults = 1
  g1 = g1
  g2 = g2
  q1 = q1
  q2 = q2
  q3 = q3
  Lookups = {q1, q2, q3}
  Gtin <- MCGtin
  MaxEntries = 1
  Concurrencies = {1, 2}
  Absent = Absent
  ItemIds = {i1, i2}
  AllowedLabels = {l1}
  Foreign = Foreign
  ImageLimit = 1
  BodyLimit = 1
  ItemLimit = 2
  old = old
  new = new
  odd = odd
  f1 = f1
  f2 = f2
  Servers = {old, new, odd}
  Files <- MCFiles
  MaxStarts = 1
  NoServer = NoServer
SPECIFICATION ServerSpec
CHECK_DEADLOCK FALSE
INVARIANTS
  LookupsAreHonest
  AnswerIsBooked
  MigrationsAreSerial
  PoolOutlivesItsUsers
PROPERTIES
  ErasureReachesTheDisk
  JournalDrains
