CONSTANTS
  u1 = u1
  u2 = u2
  p1 = p1
  p2 = p2
  Uploads <- MCUploads
  Processes <- MCProcesses
  Host <- MCHost
  RoleOf <- MCRoleOf
  Capacity = 2
  PutWithinDelay = TRUE
  MaxAttempts = 2
  MaxFaults = 2
SPECIFICATION Spec
CHECK_DEADLOCK FALSE
INVARIANTS
  LiveAssetHasFile
  BlobIsJournalled
PROPERTIES
  CompletedIsFinal
