SPECIFICATION Spec
CONSTANTS
  Words = {a}
  Replies = {r1, r2}
  Silence = Silence
  Prompt = Prompt
  MaxFragments = 1
  TransportDeadline = TRUE
  MaxFrames = 2
  MaxPcm = 2
  None = None
CHECK_DEADLOCK FALSE
INVARIANTS OneVoice HeardIsDecided SpeechIsReleased
PROPERTIES TurnReturns RefinesLiveWire HandlerEnds
