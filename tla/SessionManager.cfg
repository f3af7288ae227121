SPECIFICATION Spec
CONSTANTS
  Ksuid = {s1, s2}
  Linger = 2
  MaxStall = 1
  CtrMod = 4
  BehindHaproxy = TRUE
INVARIANT TaskHasSession
PROPERTIES
  ImplementsListing
  DestroyedSessionEnds
  EndedSessionForgotten
