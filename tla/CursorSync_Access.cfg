SPECIFICATION SyncSpec
CONSTANTS
  alice = alice
  bob = bob
  b1 = b1
  b2 = b2
  b3 = b3
  User = {alice}
  Block = {b1, b2}
  NoUser = NoUser
  NoBlock = NoBlock
  Client = {alice}
  PageLimit = 2
  Message <- AclMessages
  InitialSubscriptions <- AliceHasB1
  InitialSandbox <- NothingCached
  BlockPortion = 2
  ChangelogMaxLen = 0
  SyncV2Enabled = TRUE
  SandboxExpires = FALSE
  MaxFailures = 1
  MaxCrashes = 1
INVARIANTS
  UnawareOnlyIfUnbumped
PROPERTIES
  CursorMonotone
