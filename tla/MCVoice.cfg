SPECIFICATION MCSpec
CONSTANTS
  Capacity = 3
  MaxUnits = 6
  MaxChunk = 2
  Texts = {x, y}
  Cancellers = {c1, c2}
  None = None
  Workers = {w1, w2}
  Senders = {s1}
  QueueCapacity = 1
  Capabilities = {k1}
  MaxGeneration = 2
  one = one
  two = two
  cue1 = cue1
  cue2 = cue2
  reply1 = reply1
  reply2 = reply2
  Callers = {one, two}
  Cues = {cue1, cue2}
  Replies = {reply1, reply2}
  Long = {cue2, reply2}
  MaxEntries = 3
  MaxBytes = 4
  MaxEntry = 2
  Longest = 3
CHECK_DEADLOCK FALSE
INVARIANTS HeardOnce CheckpointFirst FallbackIsReplayable
PROPERTIES ReleaseKept CallsReturn RefinesTurnVoice CloseEnds CacheHolds
