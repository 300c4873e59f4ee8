SPECIFICATION FairSpec
CONSTANTS
  Process = {p, q}
  Bundle = {x, y, z, broken}
  Unloadable = {broken}
  Histories <- LoadedBefore
  x = x
  y = y
  z = z
  broken = broken
  Nothing = Nothing
  Keep = 2
  MaxChanges = 1
  MaxFaults = 1
  MaxCrashes = 1
INVARIANTS
  TypeOK
  OneActive
  ServesWholeVersions
PROPERTIES
  ActiveUntilReplaced
  EventuallyCurrent
