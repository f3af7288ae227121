\* The requests may run out.
CHECK_DEADLOCK FALSE
SPECIFICATION WebSpec
CONSTANTS
  Keys = {1, 2, 3, 4, 5, 6}
  Capacity = 3
  Connections = {c1, c2}
  Torrents <- MCTorrents
  Targets <- MCTargets
  Listings = TRUE
  MaxRequests = 3
INVARIANTS CacheSound ServesNamed ExactUntilEviction
PROPERTIES Answered
