SPECIFICATION Spec
CONSTANTS
  alice = alice
  bob = bob
  b1 = b1
  b2 = b2
  b3 = b3
  User = {alice, bob}
  Block = {b1, b2, b3}
  NoUser = NoUser
  NoBlock = NoBlock
  Message <- DenyMessages
  InitialSubscriptions <- NoSubscriptions
  InitialSandbox <- NothingCached
  BlockPortion = 1
  ChangelogMaxLen = 0
  SyncV2Enabled = FALSE
  SandboxExpires = FALSE
  MaxFailures = 0
  MaxCrashes = 0
INVARIANTS
  DenyHolds
