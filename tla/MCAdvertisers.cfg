\* Both back ends, three services; one rename, two names taken, two outages.
CONSTANTS
  ServiceTypes <- MCTypes
  Keyed <- MCKeyed
  Prefixed <- MCPrefixed
  MaxRenames = 1
  MaxTaken = 2
  MaxOutages = 2
SPECIFICATION SystemLiveSpec
INVARIANTS PublishedIsCurrent
PROPERTIES StaysVisible StopCompletes
CHECK_DEADLOCK FALSE
