SPECIFICATION FairSyncSpec
CONSTANTS
  alice = alice
  bob = bob
  b1 = b1
  b2 = b2
  b3 = b3
  User = {alice}
  Block = {b1, b2, b3}
  NoUser = NoUser
  NoBlock = NoBlock
  Client = {alice}
  PageLimit = 2
  Message <- UpdateMessages
  InitialSubscriptions <- AliceHasBoth
  InitialSandbox <- NothingCached
  BlockPortion = 2
  ChangelogMaxLen = 2
  SyncV2Enabled = TRUE
  SandboxExpires = FALSE
  MaxFailures = 1
  MaxCrashes = 0
INVARIANTS
  TypeOK
  SyncTypeOK
  SeqsUnique
  AllocationsDisjoint
  ChangelogIsNewest
  MissesOnlyLost
PROPERTIES
  CursorMonotone
  CatchesUp
