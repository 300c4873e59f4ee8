SPECIFICATION FairSpec
CONSTANTS
  Process = {p, q}
  Release <- Releases
  None = None
  Gone = Gone
INVARIANTS
  SchemaInOrder
  ReadyMeansMigrated
  RefusalIsDue
PROPERTIES
  StartEnds
