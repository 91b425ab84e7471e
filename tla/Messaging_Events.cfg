SPECIFICATION MessagingSpec
CONSTANTS
  alice = alice
  bob = bob
  anonymous = anonymous
  s1 = s1
  s2 = s2
  t1 = t1
  User = {alice, bob}
  Anonymous = anonymous
  NoUser = NoUser
  Socket = {s1, s2, t1}
  Early = {s1, t1}
  Owner <- OwnerOf
  Event <- Events
  Push <- Pushes
  MaxConcurrentSends = 1
  MaxFailures = 0
  MaxExpiries = 0
CHECK_DEADLOCK FALSE
INVARIANTS
  AudienceTriedOnce
  EchoAfterDelivery
