CONSTANTS
  g1 = g1
  g2 = g2
  m1 = m1
  m2 = m2
  Gtins = {g1}
  Scanned = {g1}
  Accounts = {a1, a2, a3}
  Identities = {i1, i2}
  Batches = {b1}
  Manifests = {m2}
  RowsOf <- MCRowsOf
  Licensed = {m2}
  MaxRows = 2
  None = None
  Items = {v1}
  Inci = {t1, t2}
  Lookers = {l1}
  MaxFormulas = 2
  MaxClaims = 1
  Codes <- MCCodes
  Records = {r1, r2}
  MaxManifest = 1
  Ids = {1, 2, 3}
  Keys = {1, 2}
  MaxEntries = 2
  MaxAliases = 2
SPECIFICATION CatalogSpec
CHECK_DEADLOCK FALSE
INVARIANT ArchivedFamilyIsEmpty
