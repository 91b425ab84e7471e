SPECIFICATION FairTimeSpec
CONSTANTS
  alice = alice
  bob = bob
  b1 = b1
  b2 = b2
  b3 = b3
  p1 = p1
  User = {alice}
  Block = {b1, b2}
  NoUser = NoUser
  NoBlock = NoBlock
  Client = {alice}
  UpdatedAt <- Times
  Payload = {p1}
  Tick = {2, 3, 5}
  TicksPerSecond = 2
  Message <- TimeMessages
  InitialSubscriptions <- AliceHasAll
  InitialSandbox <- NothingCached
  BlockPortion = 2
  ChangelogMaxLen = 0
  SyncV2Enabled = FALSE
  SandboxExpires = FALSE
  MaxFailures = 1
  MaxCrashes = 0
INVARIANTS
  AnswersOnlySubscribed
  ResentForMargin
PROPERTIES
  EventuallyAgrees
