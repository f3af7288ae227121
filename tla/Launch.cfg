\* Templates of three services, in either front end.
CHECK_DEADLOCK FALSE
SPECIFICATION FairSpec
CONSTANTS
  Services = {1, 2, 3}
  Packages = {"p1", "p2", "p3"}
  Templates <- MCTemplates
  Registries <- MCRegistries
  Containers = {"p3"}
  MapLen = 12
  Inherited = {4}
  MaxFd = 24
INVARIANTS
  ServesItsService
  EndsMatch
  
PROPERTIES
  Terminates
  PeersSeeTheEnd
