CONSTANTS
  u1 = u1
  u2 = u2
  p1 = p1
  p2 = p2
  Uploads <- MCUploads
  Processes <- MCOneProcess
  Host <- MCOneHost
  RoleOf <- MCRoleOf
  Capacity = 2
  PutWithinDelay = FALSE
  MaxAttempts = 2
  MaxFaults = 1
SPECIFICATION Spec
CHECK_DEADLOCK FALSE
INVARIANTS
  FailedUnlinkIsCovered
