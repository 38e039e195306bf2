SPECIFICATION Spec
CONSTANTS
  s = s
  t = t
  u = u
  A = A
  B = B
  D = D
  Session = {s, t, u}
  Media = {A, B, D}
  NoMedia = NoMedia
  Garbled = Garbled
  NoSession = NoSession
  Carries <- Sent
  ChunkCount <- Count
  Symbols <- Size
  Seeds <- Sending
  MaxSessions = 2
  MaxDroplets = 3
  MaxChunks = 2
  MaxEvents = 6
SYMMETRY Symmetry
INVARIANTS TypeOK ChunksMatchManifest WithinLimits LatestIsRegistered RestartWouldResume
PROPERTIES SessionIsolation ImplementsCollector
CHECK_DEADLOCK FALSE
