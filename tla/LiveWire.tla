------------------------------- MODULE LiveWire -------------------------------
(***************************************************************************)
(* What the browser may see on one live WebSocket turn, as the frames of   *)
(* voiceLiveOutboundFrame and the binary PCM frames: each frame with the   *)
(* ones that may follow it.  Readiness opens the turn, a respondent        *)
(* checkpoint precedes all speech, and nothing follows a terminal frame.   *)
(***************************************************************************)
VARIABLE last   \* the last frame sent

Frames == {"none", "ready", "endpoint", "committed", "coach", "pcm", "final", "error"}

Terminal == {"final", "error"}

Follows(f) ==
  CASE f = "none"                  -> {"ready", "error"}
    [] f \in {"ready", "endpoint"} -> {"endpoint", "committed", "coach", "pcm", "final", "error"}
    [] f = "committed"             -> {"coach", "pcm", "final", "error"}
    [] f \in {"coach", "pcm"}      -> {"pcm", "final", "error"}
    [] f \in Terminal              -> {}

Init == last = "none"

Send == \E f \in Follows(last) : last' = f

Spec == Init /\ [][Send]_last
=============================================================================
