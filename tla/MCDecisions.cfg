CONSTANTS
  Scale = 100
  Comma = "sep"
  Fillers = {"er"}
  Facts = {"ten"}
  Doubts <- MCDoubts
  Replies = {"r", "s"}
  Horizon = 6
  Sequence = 2
  Precision = 1
  Critic = 2
  Research = 1
  Reserve = 2
SPECIFICATION Spec
INVARIANTS AnswerIsPersons BoundsHold CutIsSound SpokenIsAudited ReserveKept
CHECK_DEADLOCK FALSE
