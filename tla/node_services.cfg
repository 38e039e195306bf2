SPECIFICATION ServicesSpec
CONSTANTS
  u = u
  v = v
  Upload = {u, v}
  Parts <- ChunksOf
  PartSize <- SizesOf
  MaxUploadBytes = 2
  Tag = {"a", "b"}
  NoTag = NoTag
  TagOf <- TagsOf
  NoContent = NoContent
  QueueLength = 1
  MaxAttempts = 2
  MaxUploadFaults = 2
  MaxExtras = 1
  Shard = {"c1", "c2", "c3"}
  NoShard = NoShard
  Sizes = {1, 2}
  Thread = {1, 2}
  CacheLimit = 2
  ByteLimit = 3
  Node = {"old", "new"}
  NoEvent = NoEvent
  MaxSupply = 3
  Amounts = {1}
  Buffer = 1
  Plausible = 1
  MaxTroubles = 1
  s = s
  t = t
  A = A
  B = B
  Session = {s, t}
  Media = {A, B}
  NoMedia = NoMedia
  Garbled = Garbled
  NoSession = NoSession
  Carries <- Sent
  ChunkCount <- Count
  Symbols <- Size
  Seeds <- Sending
  MaxSessions = 1
  MaxDroplets = 3
  MaxChunks = 2
  MaxEvents = 8
  Wanted = A
  WantedSession = s
INVARIANTS AcceptedIsKept StoreAgrees CacheWithinLimits EvictionOrderIsUse HeardIsReal
PROPERTIES WholeAtFirst AcceptedEventuallyStored RefusalIsTemporary TransferKeepsProgress
CHECK_DEADLOCK FALSE
