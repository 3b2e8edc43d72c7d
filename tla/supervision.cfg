SPECIFICATION FairSpec
CONSTANTS
  Names = {"a"}
  Delays <- MCDelays
  MaxSpawns = 2
  MaxStops = 2
  MaxFailures = 2
  MaxMigrations = 1
  MaxMail = 1
INVARIANT SupervisionSafe
PROPERTY SupervisionLive
CHECK_DEADLOCK FALSE
