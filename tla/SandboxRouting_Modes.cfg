SPECIFICATION RoutingSpec
CONSTANTS
  alice = alice
  bob = bob
  b1 = b1
  b2 = b2
  b3 = b3
  User = {alice, bob}
  Block = {b1, b2, b3}
  NoUser = NoUser
  NoBlock = NoBlock
  Message <- RoutingMessages
  InitialSubscriptions <- RoutingSubscriptions
  InitialSandbox <- B1IsOpen
  BlockPortion = 500
  ChangelogMaxLen = 0
  SyncV2Enabled = FALSE
  SandboxExpires = TRUE
  MaxFailures = 1
  MaxCrashes = 0
  BackendConfigured = TRUE
INVARIANTS
  CacheFollowsBackend
PROPERTIES
  PrivateStaysInside
