SPECIFICATION FairSpec
CONSTANTS
  c1 = c1
  c2 = c2
  Connections = {c1, c2}
INVARIANTS
  LifecycleInv
  NothingLeaked
  ReleaseInv
  ExitCodeHonest
PROPERTIES
  YoungestReleasedFirst
  CleanStopIsQuiet
  Stops
