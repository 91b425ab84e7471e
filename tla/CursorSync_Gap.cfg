SPECIFICATION SyncSpec
CONSTANTS
  alice = alice
  bob = bob
  b1 = b1
  b2 = b2
  b3 = b3
  User = {alice}
  Block = {b1, b2, b3}
  NoUser = NoUser
  NoBlock = NoBlock
  Client = {alice}
  PageLimit = 2
  Message <- GapMessages
  InitialSubscriptions <- AliceHasBoth
  InitialSandbox <- NothingCached
  BlockPortion = 1
  ChangelogMaxLen = 0
  SyncV2Enabled = TRUE
  SandboxExpires = FALSE
  MaxFailures = 0
  MaxCrashes = 0
INVARIANTS
  NoMissedUpdate
