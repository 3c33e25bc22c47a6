CONSTANTS
  c1 = c1
  c2 = c2
  c3 = c3
  c4 = c4
  k1 = k1
  k2 = k2
  Calls <- MCCalls
  Keys <- MCKeys
  KeyOf <- MCKeyOf
  Signalled <- MCSignalled
  L1MaxEntries = 1
SPECIFICATION FairSpec
CHECK_DEADLOCK FALSE
PROPERTIES
  ExecutionsAreShared
  EveryCallAnswered
