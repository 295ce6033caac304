SPECIFICATION AuditSpec
CONSTANTS
  Replies = {"r", "s"}
  Horizon = 6
  Sequence = 2
  Precision = 1
  Critic = 2
  Research = 1
  Reserve = 2
CHECK_DEADLOCK FALSE
INVARIANTS SpeaksOnlyAudited
