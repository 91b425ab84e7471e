SPECIFICATION NoticesSpec
CONSTANTS
  alice = alice
  bob = bob
  b1 = b1
  b2 = b2
  b3 = b3
  User = {alice, bob}
  Block = {b1, b2}
  NoUser = NoUser
  NoBlock = NoBlock
  Message <- DeletionMessages
  InitialSubscriptions <- DeletionSubscriptions
  InitialSandbox <- NothingCached
  BlockPortion = 1
  ChangelogMaxLen = 1
  SyncV2Enabled = TRUE
  SandboxExpires = FALSE
  MaxFailures = 0
  MaxCrashes = 0
INVARIANTS
  NoticedBeforeRemoved
