SPECIFICATION FairSpec
CONSTANTS
  alice = alice
  anonymous = anonymous
  s1 = s1
  s2 = s2
  s3 = s3
  a1 = a1
  a2 = a2
  User = {alice, anonymous}
  Anonymous = anonymous
  Socket = {s1, s2, a1}
  Owner <- OwnerOf
  Push = {p1, p2}
  MaxConcurrentSends = 1
  MaxFailures = 1
  MaxExpiries = 1
CHECK_DEADLOCK FALSE
INVARIANTS
  TypeOK
  RemovedOnce
  ConnectedHasLock
  OvercountedOnlyIfOutrun
  OnlineUnlessWiped
PROPERTIES
  EventuallyQuiet
