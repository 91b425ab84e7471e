SPECIFICATION FairNoticesSpec
CONSTANTS
  alice = alice
  bob = bob
  b1 = b1
  b2 = b2
  b3 = b3
  User = {alice, bob}
  Block = {b1, b2}
  NoUser = NoUser
  NoBlock = NoBlock
  Message <- AccessMessages
  InitialSubscriptions <- AccessSubscriptions
  InitialSandbox <- NothingCached
  BlockPortion = 1
  ChangelogMaxLen = 1
  SyncV2Enabled = FALSE
  SandboxExpires = FALSE
  MaxFailures = 0
  MaxCrashes = 1
INVARIANTS
  PushTargetsCanPull
  LosersNoticed
PROPERTIES
  ImplementsRegistry
  EventuallySettled
  LosersTold
