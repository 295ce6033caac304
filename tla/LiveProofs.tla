------------------------------ MODULE LiveProofs ------------------------------
(***************************************************************************)
(* The live WebSocket: the handler that serves a connection (VoiceLive),   *)
(* the turn of its pipeline (LiveTurn), which MCLive puts side by side,    *)
(* and the one writer of its socket (OutboundWriter), for any number of    *)
(* frames, any transcripts and replies, and any capacities.                *)
(***************************************************************************)
EXTENDS MCLive, Integers, FiniteSetTheorems, TLAPS

-----------------------------------------------------------------------------
(* The handler of a live turn (VoiceLive).                                 *)
Modes == [native : BOOLEAN, control : BOOLEAN, strict : BOOLEAN, proof : BOOLEAN]
GateStates == [attempted : BOOLEAN, accepted : BOOLEAN, rejected : BOOLEAN]
Capturing == {"start", "awaitReady", "capture", "feed", "ack"}
Succeeded == {"ok", "respondent"}

HandlerTyped ==
  /\ vl_mode \in Modes /\ ~(vl_mode.strict /\ vl_mode.native)
  /\ vl_mode.control => vl_mode.native
  /\ vl_h \in Capturing \union {"commit", "finishInput", "ackWrite", "processing",
                                "strictRelease", "final", "ending", "join", "ended"}
  /\ vl_gate \in GateStates
  /\ vl_pipe \in {"none", "setup", "running", "returned"}
  /\ vl_audio \in {"idle", "write"} /\ vl_coach \in {"idle", "begun", "checked", "write"}
  /\ vl_outcome \in {"none", "fail"} \union Succeeded
  /\ vl_pcm \in Nat /\ vl_held \in Nat
  /\ vl_last \in {"none", "ready", "endpoint", "committed", "coach", "pcm", "final", "error"}

(* Who holds the mutex of the control gate.                                *)
GateHeld ==
  /\ vl_gateMu = "handler" <=> vl_h \in {"finishInput", "ackWrite"}
  /\ vl_gateMu = "audio" <=> vl_audio = "write"
  /\ vl_gateMu = "coach" <=> vl_coach = "write"

(* Where the handler is, and what the browser has seen by then.            *)
Phases ==
  /\ vl_h = "start" => vl_pipe = "none"
  /\ vl_h \in {"start", "awaitReady"} => vl_last = "none"
  /\ vl_h \in Capturing => ~vl_commitSignal /\ ~vl_inputClosed
  /\ vl_h \in Capturing \union {"commit"} => ~vl_committed
  /\ vl_h = "commit" => vl_commitSignal
  /\ vl_h \in {"commit", "finishInput"} => ~vl_inputClosed
  /\ vl_h \in {"commit", "finishInput", "ackWrite"} => vl_coach = "idle"
  /\ vl_h \in {"capture", "feed", "ack", "commit", "finishInput", "ackWrite"} =>
       vl_last \in {"ready", "endpoint"}
  /\ vl_h \in {"processing", "strictRelease", "final"} => vl_last \notin {"none", "final", "error"}
  /\ vl_h \in {"strictRelease", "final"} => vl_outcome \in Succeeded
  /\ vl_h = "strictRelease" => vl_mode.strict
  /\ vl_committed => vl_commitSignal
  /\ vl_commitSignal /\ vl_pipe # "returned" => vl_last \notin {"none", "final", "error"}

(* The callbacks of the pipeline, which ends only when they have.          *)
Callbacks ==
  /\ vl_outcome # "none" <=> vl_pipe = "returned"
  /\ vl_audio = "write" => vl_pipe \in {"setup", "running"} /\ vl_committed
  /\ vl_coach # "idle" =>
       /\ vl_pipe = "running" /\ vl_mode.control /\ vl_commitSignal /\ vl_inputClosed
       /\ vl_gate.attempted /\ ~vl_gate.accepted /\ vl_audio = "idle" /\ "coach" \notin vl_sent
  /\ vl_coach \in {"checked", "write"} => vl_pcm = 0
  /\ vl_coach = "write" => "pcm" \notin vl_sent

(* What was sent, and what the control gate and the outcome say of it.     *)
Told ==
  /\ vl_last \in {"pcm", "coach"} => vl_last \in vl_sent
  /\ vl_held > 0 => vl_committed
  /\ "pcm" \in vl_sent => /\ vl_committed /\ (vl_pcm > 0 \/ vl_ctxOver)
                          /\ vl_mode.strict => vl_outcome \in Succeeded
  /\ vl_gate.accepted => "coach" \in vl_sent
  /\ "coach" \in vl_sent => vl_gate.attempted /\ (vl_gate.accepted \/ vl_gate.rejected)
  /\ vl_mode.control /\ vl_outcome \in Succeeded =>
       /\ vl_gate.accepted <=> vl_outcome = "respondent"
       /\ "coach" \in vl_sent <=> vl_gate.accepted
  /\ "final" \in vl_sent => vl_outcome \in Succeeded

LiveInv == HandlerTyped /\ GateHeld /\ Phases /\ Callbacks /\ Told

(* Whatever field of the gate is set, it is a gate.                        *)
LEMMA GateSet ==
  /\ [attempted |-> FALSE, accepted |-> FALSE, rejected |-> FALSE] \in GateStates
  /\ \A g \in GateStates :
       /\ [g EXCEPT !.rejected = TRUE] \in GateStates
       /\ [g EXCEPT !.attempted = TRUE] \in GateStates
       /\ [g EXCEPT !.accepted = TRUE] \in GateStates
BY DEF GateStates

(* The frames that may follow a frame.                                     *)
InOrder ==
  \/ vl_last' = vl_last
  \/ vl_last = "none" /\ vl_last' \in {"ready", "error"}
  \/ /\ vl_last \in {"ready", "endpoint"}
     /\ vl_last' \in {"endpoint", "committed", "coach", "pcm", "final", "error"}
  \/ vl_last = "committed" /\ vl_last' \in {"coach", "pcm", "final", "error"}
  \/ vl_last \in {"coach", "pcm"} /\ vl_last' \in {"pcm", "final", "error"}

(* The opening of the turn.                                                *)
LEMMA HandlerOpens ==
  ASSUME Handler!LiveAssumption, LiveInv,
         \/ Handler!StartPlain \/ Handler!StartNative \/ Handler!NativeReady
         \/ Handler!ReadyTimeout
  PROVE  LiveInv' /\ InOrder
<1> USE DEF Handler!wireVars, Handler!gateVars, Handler!bufferVars, Handler!readerVars,
            Handler!inputVars, Handler!pipeVars, Handler!ctxVars, Capturing, Succeeded
<1>1. CASE Handler!StartPlain
  <2>1. HandlerTyped'
    BY <1>1 DEF LiveInv, HandlerTyped, Handler!StartPlain, Handler!Emit, Handler!TryEmit,
                Handler!CancelLive
  <2>2. GateHeld' /\ Phases' /\ Callbacks' /\ Told' /\ InOrder
    BY <1>1 DEF LiveInv, HandlerTyped, GateHeld, Phases, Callbacks, Told, InOrder,
                GateStates, Handler!StartPlain, Handler!Emit, Handler!TryEmit,
                Handler!CancelLive, Handler!LiveAssumption
  <2> QED  BY <2>1, <2>2 DEF LiveInv
<1>2. CASE Handler!StartNative
  <2>1. HandlerTyped'
    BY <1>2 DEF LiveInv, HandlerTyped, Handler!StartNative
  <2>2. GateHeld' /\ Phases' /\ Callbacks' /\ Told' /\ InOrder
    BY <1>2 DEF LiveInv, HandlerTyped, GateHeld, Phases, Callbacks, Told, InOrder,
                GateStates, Handler!StartNative, Handler!LiveAssumption
  <2> QED  BY <2>1, <2>2 DEF LiveInv
<1>3. CASE Handler!NativeReady
  <2>1. HandlerTyped'
    BY <1>3 DEF LiveInv, HandlerTyped, Handler!NativeReady, Handler!Emit, Handler!TryEmit,
                Handler!CancelLive
  <2>2. GateHeld' /\ Phases' /\ Callbacks' /\ Told' /\ InOrder
    BY <1>3 DEF LiveInv, HandlerTyped, GateHeld, Phases, Callbacks, Told, InOrder,
                GateStates, Handler!NativeReady, Handler!Emit, Handler!TryEmit,
                Handler!CancelLive, Handler!LiveAssumption
  <2> QED  BY <2>1, <2>2 DEF LiveInv
<1>4. CASE Handler!ReadyTimeout
  <2>1. HandlerTyped'
    BY <1>4 DEF LiveInv, HandlerTyped, Handler!ReadyTimeout, Handler!Emit, Handler!TryEmit,
                Handler!CancelLive
  <2>2. GateHeld' /\ Phases' /\ Callbacks' /\ Told' /\ InOrder
    BY <1>4 DEF LiveInv, HandlerTyped, GateHeld, Phases, Callbacks, Told, InOrder,
                GateStates, Handler!ReadyTimeout, Handler!Emit, Handler!TryEmit,
                Handler!CancelLive, Handler!LiveAssumption
  <2> QED  BY <2>1, <2>2 DEF LiveInv
<1> QED  BY <1>1, <1>2, <1>3, <1>4

(* The capture.                                                            *)
LEMMA HandlerCaptures ==
  ASSUME Handler!LiveAssumption, LiveInv,
         \/ Handler!EarlyOutcome \/ Handler!SendEndpoint \/ Handler!TakeFrame
         \/ Handler!FeedAccepted \/ Handler!FeedEnds \/ Handler!Acknowledge
         \/ Handler!TakeUnusable \/ Handler!CaptureEnds \/ Handler!TakeCommit
         \/ Handler!ReaderStops
  PROVE  LiveInv' /\ InOrder
<1> USE DEF Handler!wireVars, Handler!gateVars, Handler!bufferVars, Handler!readerVars,
            Handler!inputVars, Handler!pipeVars, Handler!ctxVars, Capturing, Succeeded
<1>1. CASE Handler!EarlyOutcome
  <2>1. HandlerTyped'
    BY <1>1 DEF LiveInv, HandlerTyped, Handler!EarlyOutcome, Handler!Emit, Handler!TryEmit,
                Handler!CancelLive
  <2>2. GateHeld' /\ Phases' /\ Callbacks' /\ Told' /\ InOrder
    BY <1>1 DEF LiveInv, HandlerTyped, GateHeld, Phases, Callbacks, Told, InOrder,
                GateStates, Handler!EarlyOutcome, Handler!Emit, Handler!TryEmit,
                Handler!CancelLive, Handler!LiveAssumption
  <2> QED  BY <2>1, <2>2 DEF LiveInv
<1>2. CASE Handler!SendEndpoint
  <2>1. HandlerTyped'
    BY <1>2 DEF LiveInv, HandlerTyped, Handler!SendEndpoint, Handler!Emit, Handler!TryEmit,
                Handler!CancelLive
  <2>2. GateHeld' /\ Phases' /\ Callbacks' /\ Told' /\ InOrder
    BY <1>2 DEF LiveInv, HandlerTyped, GateHeld, Phases, Callbacks, Told, InOrder,
                GateStates, Handler!SendEndpoint, Handler!Emit, Handler!TryEmit,
                Handler!CancelLive, Handler!LiveAssumption
  <2> QED  BY <2>1, <2>2 DEF LiveInv
<1>3. CASE Handler!TakeFrame
  <2>1. HandlerTyped'
    BY <1>3 DEF LiveInv, HandlerTyped, Handler!TakeFrame, Handler!Emit, Handler!TryEmit,
                Handler!CancelLive
  <2>2. GateHeld' /\ Phases' /\ Callbacks' /\ Told' /\ InOrder
    BY <1>3 DEF LiveInv, HandlerTyped, GateHeld, Phases, Callbacks, Told, InOrder,
                GateStates, Handler!TakeFrame, Handler!Emit, Handler!TryEmit,
                Handler!CancelLive, Handler!LiveAssumption
  <2> QED  BY <2>1, <2>2 DEF LiveInv
<1>4. CASE Handler!FeedAccepted
  <2>1. HandlerTyped'
    BY <1>4 DEF LiveInv, HandlerTyped, Handler!FeedAccepted
  <2>2. GateHeld' /\ Phases' /\ Callbacks' /\ Told' /\ InOrder
    BY <1>4 DEF LiveInv, HandlerTyped, GateHeld, Phases, Callbacks, Told, InOrder,
                GateStates, Handler!FeedAccepted, Handler!LiveAssumption
  <2> QED  BY <2>1, <2>2 DEF LiveInv
<1>5. CASE Handler!FeedEnds
  <2>1. HandlerTyped'
    BY <1>5 DEF LiveInv, HandlerTyped, Handler!FeedEnds
  <2>2. GateHeld' /\ Phases' /\ Callbacks' /\ Told' /\ InOrder
    BY <1>5 DEF LiveInv, HandlerTyped, GateHeld, Phases, Callbacks, Told, InOrder,
                GateStates, Handler!FeedEnds, Handler!LiveAssumption
  <2> QED  BY <2>1, <2>2 DEF LiveInv
<1>6. CASE Handler!Acknowledge
  <2>1. HandlerTyped'
    BY <1>6 DEF LiveInv, HandlerTyped, Handler!Acknowledge, Handler!CancelLive
  <2>2. GateHeld' /\ Phases' /\ Callbacks' /\ Told' /\ InOrder
    BY <1>6 DEF LiveInv, HandlerTyped, GateHeld, Phases, Callbacks, Told, InOrder,
                GateStates, Handler!Acknowledge, Handler!CancelLive, Handler!LiveAssumption
  <2> QED  BY <2>1, <2>2 DEF LiveInv
<1>7. CASE Handler!TakeUnusable
  <2>1. HandlerTyped'
    BY <1>7 DEF LiveInv, HandlerTyped, Handler!TakeUnusable, Handler!Emit, Handler!TryEmit,
                Handler!CancelLive
  <2>2. GateHeld' /\ Phases' /\ Callbacks' /\ Told' /\ InOrder
    BY <1>7 DEF LiveInv, HandlerTyped, GateHeld, Phases, Callbacks, Told, InOrder,
                GateStates, Handler!TakeUnusable, Handler!Emit, Handler!TryEmit,
                Handler!CancelLive, Handler!LiveAssumption
  <2> QED  BY <2>1, <2>2 DEF LiveInv
<1>8. CASE Handler!CaptureEnds
  <2>1. HandlerTyped'
    BY <1>8 DEF LiveInv, HandlerTyped, Handler!CaptureEnds, Handler!Emit, Handler!TryEmit,
                Handler!CancelLive
  <2>2. GateHeld' /\ Phases' /\ Callbacks' /\ Told' /\ InOrder
    BY <1>8 DEF LiveInv, HandlerTyped, GateHeld, Phases, Callbacks, Told, InOrder,
                GateStates, Handler!CaptureEnds, Handler!Emit, Handler!TryEmit,
                Handler!CancelLive, Handler!LiveAssumption
  <2> QED  BY <2>1, <2>2 DEF LiveInv
<1>9. CASE Handler!TakeCommit
  <2>1. HandlerTyped'
    BY <1>9 DEF LiveInv, HandlerTyped, Handler!TakeCommit, Handler!Emit, Handler!TryEmit,
                Handler!CancelLive
  <2>2. GateHeld' /\ Phases' /\ Callbacks' /\ Told' /\ InOrder
    BY <1>9 DEF LiveInv, HandlerTyped, GateHeld, Phases, Callbacks, Told, InOrder,
                GateStates, Handler!TakeCommit, Handler!Emit, Handler!TryEmit,
                Handler!CancelLive, Handler!LiveAssumption
  <2> QED  BY <2>1, <2>2 DEF LiveInv
<1>10. CASE Handler!ReaderStops
  <2>1. HandlerTyped'
    BY <1>10 DEF LiveInv, HandlerTyped, Handler!ReaderStops
  <2>2. GateHeld' /\ Phases' /\ Callbacks' /\ Told' /\ InOrder
    BY <1>10 DEF LiveInv, HandlerTyped, GateHeld, Phases, Callbacks, Told, InOrder,
                 GateStates, Handler!ReaderStops, Handler!LiveAssumption
  <2> QED  BY <2>1, <2>2 DEF LiveInv
<1> QED  BY <1>1, <1>2, <1>3, <1>4, <1>5, <1>6, <1>7, <1>8, <1>9, <1>10

(* The commit of the input, under the mutex of the control gate.           *)
LEMMA HandlerCommits ==
  ASSUME Handler!LiveAssumption, LiveInv,
         \/ Handler!CommitLock \/ Handler!FinishInput \/ Handler!WriteCommitted
  PROVE  LiveInv' /\ InOrder
<1> USE DEF Handler!wireVars, Handler!gateVars, Handler!bufferVars, Handler!readerVars,
            Handler!inputVars, Handler!pipeVars, Handler!ctxVars, Capturing, Succeeded
<1>1. CASE Handler!CommitLock
  <2>1. HandlerTyped'
    BY <1>1 DEF LiveInv, HandlerTyped, Handler!CommitLock
  <2>2. GateHeld' /\ Phases' /\ Callbacks' /\ Told' /\ InOrder
    BY <1>1 DEF LiveInv, HandlerTyped, GateHeld, Phases, Callbacks, Told, InOrder,
                GateStates, Handler!CommitLock, Handler!LiveAssumption
  <2> QED  BY <2>1, <2>2 DEF LiveInv
<1>2. CASE Handler!FinishInput
  <2>1. vl_gate' \in GateStates
    BY <1>2, GateSet DEF LiveInv, HandlerTyped, Handler!FinishInput, Handler!Revoke,
                         Handler!CancelLive
  <2>2. HandlerTyped'
    BY <1>2, <2>1 DEF LiveInv, HandlerTyped, Handler!FinishInput, Handler!Revoke,
                      Handler!CancelLive
  <2>3. GateHeld' /\ Phases' /\ Callbacks' /\ Told' /\ InOrder
    BY <1>2 DEF LiveInv, HandlerTyped, GateHeld, Phases, Callbacks, Told, InOrder,
                GateStates, Handler!FinishInput, Handler!Revoke, Handler!CancelLive,
                Handler!LiveAssumption
  <2> QED  BY <2>2, <2>3 DEF LiveInv
<1>3. CASE Handler!WriteCommitted
  <2>1. vl_gate' \in GateStates
    BY <1>3, GateSet DEF LiveInv, HandlerTyped, Handler!WriteCommitted, Handler!Emit,
                         Handler!Revoke, Handler!CancelLive
  <2>2. HandlerTyped'
    BY <1>3, <2>1 DEF LiveInv, HandlerTyped, Handler!WriteCommitted, Handler!Emit,
                      Handler!Revoke, Handler!CancelLive
  <2>3. GateHeld' /\ Phases' /\ Callbacks' /\ Told' /\ InOrder
    BY <1>3 DEF LiveInv, HandlerTyped, GateHeld, Phases, Callbacks, Told, InOrder,
                GateStates, Handler!WriteCommitted, Handler!Emit, Handler!Revoke,
                Handler!CancelLive, Handler!LiveAssumption
  <2> QED  BY <2>2, <2>3 DEF LiveInv
<1> QED  BY <1>1, <1>2, <1>3

(* The outcome, the end of the handler, and its timers.                    *)
LEMMA HandlerAnswers ==
  ASSUME Handler!LiveAssumption, LiveInv,
         \/ Handler!TakeFailure \/ Handler!TakeResult \/ Handler!Abandon
         \/ Handler!StrictRelease \/ Handler!SendFinal \/ Handler!Cleanup
         \/ Handler!FinishLease \/ Handler!LiveTimeout \/ Handler!CaptureTimeout
  PROVE  LiveInv' /\ InOrder
<1> USE DEF Handler!wireVars, Handler!gateVars, Handler!bufferVars, Handler!readerVars,
            Handler!inputVars, Handler!pipeVars, Handler!ctxVars, Capturing, Succeeded
<1>1. CASE Handler!TakeFailure
  <2>1. HandlerTyped'
    BY <1>1 DEF LiveInv, HandlerTyped, Handler!TakeFailure, Handler!Emit, Handler!TryEmit,
                Handler!CancelLive
  <2>2. GateHeld' /\ Phases' /\ Callbacks' /\ Told' /\ InOrder
    BY <1>1 DEF LiveInv, HandlerTyped, GateHeld, Phases, Callbacks, Told, InOrder,
                GateStates, Handler!TakeFailure, Handler!Emit, Handler!TryEmit,
                Handler!CancelLive, Handler!LiveAssumption
  <2> QED  BY <2>1, <2>2 DEF LiveInv
<1>2. CASE Handler!TakeResult
  <2>1. HandlerTyped'
    BY <1>2 DEF LiveInv, HandlerTyped, Handler!TakeResult, Handler!Emit, Handler!TryEmit,
                Handler!CancelLive
  <2>2. GateHeld' /\ Phases' /\ Callbacks' /\ Told' /\ InOrder
    BY <1>2 DEF LiveInv, HandlerTyped, GateHeld, Phases, Callbacks, Told, InOrder,
                GateStates, Handler!TakeResult, Handler!Emit, Handler!TryEmit,
                Handler!CancelLive, Handler!LiveAssumption
  <2> QED  BY <2>1, <2>2 DEF LiveInv
<1>3. CASE Handler!Abandon
  <2>1. HandlerTyped'
    BY <1>3 DEF LiveInv, HandlerTyped, Handler!Abandon, Handler!CancelLive
  <2>2. GateHeld' /\ Phases' /\ Callbacks' /\ Told' /\ InOrder
    BY <1>3 DEF LiveInv, HandlerTyped, GateHeld, Phases, Callbacks, Told, InOrder,
                GateStates, Handler!Abandon, Handler!CancelLive, Handler!LiveAssumption
  <2> QED  BY <2>1, <2>2 DEF LiveInv
<1>4. CASE Handler!StrictRelease
  <2>1. HandlerTyped'
    BY <1>4 DEF LiveInv, HandlerTyped, Handler!StrictRelease, Handler!Emit,
                Handler!CancelLive
  <2>2. GateHeld' /\ Phases' /\ Callbacks' /\ Told' /\ InOrder
    BY <1>4 DEF LiveInv, HandlerTyped, GateHeld, Phases, Callbacks, Told, InOrder,
                GateStates, Handler!StrictRelease, Handler!Emit, Handler!CancelLive,
                Handler!LiveAssumption
  <2> QED  BY <2>1, <2>2 DEF LiveInv
<1>5. CASE Handler!SendFinal
  <2>1. HandlerTyped'
    BY <1>5 DEF LiveInv, HandlerTyped, Handler!SendFinal, Handler!Emit, Handler!CancelLive
  <2>2. GateHeld' /\ Phases' /\ Callbacks' /\ Told' /\ InOrder
    BY <1>5 DEF LiveInv, HandlerTyped, GateHeld, Phases, Callbacks, Told, InOrder,
                GateStates, Handler!SendFinal, Handler!Emit, Handler!CancelLive,
                Handler!LiveAssumption
  <2> QED  BY <2>1, <2>2 DEF LiveInv
<1>6. CASE Handler!Cleanup
  <2>1. HandlerTyped'
    BY <1>6 DEF LiveInv, HandlerTyped, Handler!Cleanup, Handler!CancelLive
  <2>2. GateHeld' /\ Phases' /\ Callbacks' /\ Told' /\ InOrder
    BY <1>6 DEF LiveInv, HandlerTyped, GateHeld, Phases, Callbacks, Told, InOrder,
                GateStates, Handler!Cleanup, Handler!CancelLive, Handler!LiveAssumption
  <2> QED  BY <2>1, <2>2 DEF LiveInv
<1>7. CASE Handler!FinishLease
  <2>1. HandlerTyped'
    BY <1>7 DEF LiveInv, HandlerTyped, Handler!FinishLease
  <2>2. GateHeld' /\ Phases' /\ Callbacks' /\ Told' /\ InOrder
    BY <1>7 DEF LiveInv, HandlerTyped, GateHeld, Phases, Callbacks, Told, InOrder,
                GateStates, Handler!FinishLease, Handler!LiveAssumption
  <2> QED  BY <2>1, <2>2 DEF LiveInv
<1>8. CASE Handler!LiveTimeout
  <2>1. HandlerTyped'
    BY <1>8 DEF LiveInv, HandlerTyped, Handler!LiveTimeout, Handler!CancelLive
  <2>2. GateHeld' /\ Phases' /\ Callbacks' /\ Told' /\ InOrder
    BY <1>8 DEF LiveInv, HandlerTyped, GateHeld, Phases, Callbacks, Told, InOrder,
                GateStates, Handler!LiveTimeout, Handler!CancelLive, Handler!LiveAssumption
  <2> QED  BY <2>1, <2>2 DEF LiveInv
<1>9. CASE Handler!CaptureTimeout
  <2>1. HandlerTyped'
    BY <1>9 DEF LiveInv, HandlerTyped, Handler!CaptureTimeout
  <2>2. GateHeld' /\ Phases' /\ Callbacks' /\ Told' /\ InOrder
    BY <1>9 DEF LiveInv, HandlerTyped, GateHeld, Phases, Callbacks, Told, InOrder,
                GateStates, Handler!CaptureTimeout, Handler!LiveAssumption
  <2> QED  BY <2>1, <2>2 DEF LiveInv
<1> QED  BY <1>1, <1>2, <1>3, <1>4, <1>5, <1>6, <1>7, <1>8, <1>9

(* The pipeline and its callbacks.                                         *)
LEMMA PipelineMoves ==
  ASSUME Handler!LiveAssumption, LiveInv,
         \/ Handler!OnInputReady \/ Handler!OnEndpoint \/ Handler!AudioEnter
         \/ Handler!AudioWrite \/ Handler!CoachBegin \/ Handler!CoachInvalid
         \/ Handler!CoachValid \/ Handler!CoachLock \/ Handler!CoachWrite
  PROVE  LiveInv' /\ InOrder
<1> USE DEF Handler!wireVars, Handler!gateVars, Handler!bufferVars, Handler!readerVars,
            Handler!inputVars, Handler!pipeVars, Handler!ctxVars, Capturing, Succeeded
<1>1. CASE Handler!OnInputReady
  <2>1. HandlerTyped'
    BY <1>1 DEF LiveInv, HandlerTyped, Handler!OnInputReady
  <2>2. GateHeld' /\ Phases' /\ Callbacks' /\ Told' /\ InOrder
    BY <1>1 DEF LiveInv, HandlerTyped, GateHeld, Phases, Callbacks, Told, InOrder,
                GateStates, Handler!OnInputReady, Handler!LiveAssumption
  <2> QED  BY <2>1, <2>2 DEF LiveInv
<1>2. CASE Handler!OnEndpoint
  <2>1. HandlerTyped'
    BY <1>2 DEF LiveInv, HandlerTyped, Handler!OnEndpoint
  <2>2. GateHeld' /\ Phases' /\ Callbacks' /\ Told' /\ InOrder
    BY <1>2 DEF LiveInv, HandlerTyped, GateHeld, Phases, Callbacks, Told, InOrder,
                GateStates, Handler!OnEndpoint, Handler!LiveAssumption
  <2> QED  BY <2>1, <2>2 DEF LiveInv
<1>3. CASE Handler!AudioEnter
  <2>1. vl_gate' \in GateStates
    BY <1>3, GateSet DEF LiveInv, HandlerTyped, Handler!AudioEnter, Handler!MaySpeak,
                         Handler!Deliverable
  <2>2. HandlerTyped'
    BY <1>3, <2>1 DEF LiveInv, HandlerTyped, Handler!AudioEnter, Handler!MaySpeak,
                      Handler!Deliverable
  <2>3. GateHeld' /\ Phases' /\ Callbacks' /\ Told' /\ InOrder
    BY <1>3 DEF LiveInv, HandlerTyped, GateHeld, Phases, Callbacks, Told, InOrder,
                GateStates, Handler!AudioEnter, Handler!MaySpeak, Handler!Deliverable,
                Handler!LiveAssumption
  <2> QED  BY <2>2, <2>3 DEF LiveInv
<1>4. CASE Handler!AudioWrite
  <2>1. HandlerTyped'
    BY <1>4 DEF LiveInv, HandlerTyped, Handler!AudioWrite, Handler!Emit
  <2>2. GateHeld' /\ Phases' /\ Callbacks' /\ Told' /\ InOrder
    BY <1>4 DEF LiveInv, HandlerTyped, GateHeld, Phases, Callbacks, Told, InOrder,
                GateStates, Handler!AudioWrite, Handler!Emit, Handler!LiveAssumption
  <2> QED  BY <2>1, <2>2 DEF LiveInv
<1>5. CASE Handler!CoachBegin
  <2>1. vl_gate' \in GateStates
    BY <1>5, GateSet DEF LiveInv, HandlerTyped, Handler!CoachBegin
  <2>2. HandlerTyped'
    BY <1>5, <2>1 DEF LiveInv, HandlerTyped, Handler!CoachBegin
  <2>3. GateHeld' /\ Phases' /\ Callbacks' /\ Told' /\ InOrder
    BY <1>5 DEF LiveInv, HandlerTyped, GateHeld, Phases, Callbacks, Told, InOrder,
                GateStates, Handler!CoachBegin, Handler!LiveAssumption
  <2> QED  BY <2>2, <2>3 DEF LiveInv
<1>6. CASE Handler!CoachInvalid
  <2>1. vl_gate' \in GateStates
    BY <1>6, GateSet DEF LiveInv, HandlerTyped, Handler!CoachInvalid
  <2>2. HandlerTyped'
    BY <1>6, <2>1 DEF LiveInv, HandlerTyped, Handler!CoachInvalid
  <2>3. GateHeld' /\ Phases' /\ Callbacks' /\ Told' /\ InOrder
    BY <1>6 DEF LiveInv, HandlerTyped, GateHeld, Phases, Callbacks, Told, InOrder,
                GateStates, Handler!CoachInvalid, Handler!LiveAssumption
  <2> QED  BY <2>2, <2>3 DEF LiveInv
<1>7. CASE Handler!CoachValid
  <2>1. HandlerTyped'
    BY <1>7 DEF LiveInv, HandlerTyped, Handler!CoachValid
  <2>2. GateHeld' /\ Phases' /\ Callbacks' /\ Told' /\ InOrder
    BY <1>7 DEF LiveInv, HandlerTyped, GateHeld, Phases, Callbacks, Told, InOrder,
                GateStates, Handler!CoachValid, Handler!LiveAssumption
  <2> QED  BY <2>1, <2>2 DEF LiveInv
<1>8. CASE Handler!CoachLock
  <2>1. vl_gate' \in GateStates
    BY <1>8, GateSet DEF LiveInv, HandlerTyped, Handler!CoachLock
  <2>2. HandlerTyped'
    BY <1>8, <2>1 DEF LiveInv, HandlerTyped, Handler!CoachLock
  <2>3. GateHeld' /\ Phases' /\ Callbacks' /\ Told' /\ InOrder
    BY <1>8 DEF LiveInv, HandlerTyped, GateHeld, Phases, Callbacks, Told, InOrder,
                GateStates, Handler!CoachLock, Handler!LiveAssumption
  <2> QED  BY <2>2, <2>3 DEF LiveInv
<1>9. CASE Handler!CoachWrite
  <2>1. vl_gate' \in GateStates
    BY <1>9, GateSet DEF LiveInv, HandlerTyped, Handler!CoachWrite, Handler!Emit
  <2>2. HandlerTyped'
    BY <1>9, <2>1 DEF LiveInv, HandlerTyped, Handler!CoachWrite, Handler!Emit
  <2>3. GateHeld' /\ Phases' /\ Callbacks' /\ Told' /\ InOrder
    BY <1>9 DEF LiveInv, HandlerTyped, GateHeld, Phases, Callbacks, Told, InOrder,
                GateStates, Handler!CoachWrite, Handler!Emit, Handler!LiveAssumption
  <2> QED  BY <2>2, <2>3 DEF LiveInv
<1> QED  BY <1>1, <1>2, <1>3, <1>4, <1>5, <1>6, <1>7, <1>8, <1>9

(* What the reader takes from the socket changes no order of frames.       *)
LEMMA HandlerReads ==
  ASSUME LiveInv, NEW x \in Handler!Items, Handler!ReaderReads(x)
  PROVE  LiveInv' /\ InOrder
BY DEF LiveInv, HandlerTyped, GateHeld, Phases, Callbacks, Told, InOrder, Handler!ReaderReads,
       Handler!wireVars, Handler!gateVars, Handler!bufferVars, Handler!inputVars,
       Handler!pipeVars, Handler!ctxVars

(* The pipeline returns with its outcome.                                  *)
LEMMA PipelineReturns ==
  ASSUME LiveInv, NEW k \in {"fail", "ok", "respondent"}, Handler!PipelineReturns(k)
  PROVE  LiveInv' /\ InOrder
<1> USE DEF Handler!wireVars, Handler!gateVars, Handler!bufferVars, Handler!readerVars,
            Handler!inputVars, Handler!ctxVars, Capturing, Succeeded
<1>1. HandlerTyped'
  BY DEF LiveInv, HandlerTyped, Handler!PipelineReturns, Handler!Outcome
<1>2. GateHeld' /\ Phases' /\ Callbacks' /\ Told' /\ InOrder
  BY DEF LiveInv, HandlerTyped, GateHeld, Phases, Callbacks, Told, InOrder, GateStates,
         Handler!PipelineReturns, Handler!Outcome
<1> QED  BY <1>1, <1>2 DEF LiveInv

(* The invariant of the handler holds when the socket is open.             *)
LEMMA HandlerStarts ==
  ASSUME Handler!LiveAssumption, Handler!Init
  PROVE  LiveInv
<1>1. HandlerTyped
  BY GateSet DEF Handler!Init, Handler!Modes, Modes, HandlerTyped, Capturing
<1>2. GateHeld /\ Phases /\ Callbacks /\ Told
  BY DEF Handler!Init, Handler!LiveAssumption, GateHeld, Phases, Callbacks, Told, Capturing,
         Succeeded
<1> QED  BY <1>1, <1>2 DEF LiveInv

(* Every step of the reader, the handler and the pipeline keeps it, and    *)
(* sends in order.                                                         *)
LEMMA HandlerHolds ==
  ASSUME Handler!LiveAssumption, LiveInv, [Handler!Next]_(Handler!vars)
  PROVE  LiveInv' /\ InOrder
<1>1. CASE UNCHANGED Handler!vars
  BY <1>1 DEF Handler!vars, Handler!wireVars, Handler!gateVars, Handler!bufferVars,
              Handler!readerVars, Handler!inputVars, Handler!pipeVars, Handler!ctxVars,
              LiveInv, HandlerTyped, GateHeld, Phases, Callbacks, Told, InOrder
<1>2. CASE Handler!HandlerStep
  BY <1>2, HandlerOpens, HandlerCaptures, HandlerCommits, HandlerAnswers DEF Handler!HandlerStep
<1>3. CASE Handler!CallbackStep
  BY <1>3, PipelineMoves DEF Handler!CallbackStep
<1>4. CASE \/ Handler!FeedAccepted \/ Handler!ReaderStops
           \/ Handler!LiveTimeout \/ Handler!CaptureTimeout
  BY <1>4, HandlerCaptures, HandlerAnswers
<1>5. CASE Handler!OnInputReady \/ Handler!OnEndpoint \/ Handler!AudioEnter \/ Handler!CoachBegin
  BY <1>5, PipelineMoves
<1> QED
  BY <1>1, <1>2, <1>3, <1>4, <1>5, HandlerReads, PipelineReturns DEF Handler!Next

(* Speech reaches the browser only after its input was committed, and in   *)
(* strict mode after the pipeline succeeded; the final frame agrees with   *)
(* the checkpoint that was sent (Server.voiceLive, voice_live.go).         *)
THEOREM SpeechIsReleasedAlways ==
  ASSUME Handler!LiveAssumption
  PROVE  Handler!Spec => []SpeechIsReleased
<1>1. Handler!Init => LiveInv
  BY HandlerStarts
<1>2. LiveInv /\ [Handler!Next]_(Handler!vars) => LiveInv'
  BY HandlerHolds
<1>3. LiveInv => SpeechIsReleased
  BY DEF LiveInv, Told, Succeeded, SpeechIsReleased, Handler!SpeechIsReleased, Handler!SpokenAfterCommit,
         Handler!FinalMatchesCheckpoint
<1> QED  BY <1>1, <1>2, <1>3, PTL DEF Handler!Spec

(* The browser sees the protocol of LiveWire: readiness first, the         *)
(* checkpoint before all speech, nothing after a terminal frame, whatever  *)
(* the handler, the reader and the two callbacks race with.                *)
THEOREM LiveWireRefined ==
  ASSUME Handler!LiveAssumption
  PROVE  Handler!Spec => RefinesLiveWire
<1>1. Handler!Init => LiveInv
  BY HandlerStarts
<1>2. LiveInv /\ [Handler!Next]_(Handler!vars) => LiveInv'
  BY HandlerHolds
<1>3. Handler!Init => Handler!Wire!Init
  BY DEF Handler!Init, Handler!Wire!Init
<1>4. LiveInv /\ [Handler!Next]_(Handler!vars) => [Handler!Wire!Send]_vl_last
  <2>1. InOrder => [Handler!Wire!Send]_vl_last
    BY DEF InOrder, Handler!Wire!Send, Handler!Wire!Follows, Handler!Wire!Terminal
  <2> QED  BY <2>1, HandlerHolds
<1> QED
  BY <1>1, <1>2, <1>3, <1>4, PTL DEF Handler!Spec, RefinesLiveWire, Handler!RefinesLiveWire, Handler!Wire!Spec

-----------------------------------------------------------------------------
(* The turn of the pipeline (LiveTurn).                                    *)
Spoken == Replies \union {Silence, Prompt}
Transcripts == Seq(Words)
Speculations == [at : {"none", "thinking", "decided", "failed"}, text : Transcripts,
                 reply : Spoken, dropped : BOOLEAN]
Renderings == [gate : {"absent", "sealed", "open", "dead"}, reply : Spoken]
SynthIds == {"spec", "first", "second", "direct"}
Syntheses == [SynthIds -> Renderings]
Over == {"done", "failed"}

TurnTyped ==
  /\ lt_finals \in Transcripts /\ lt_spec \in Speculations /\ lt_synth \in Syntheses
  /\ lt_pc \in {"listen", "decide", "outcome", "infer", "release", "speak", "play"} \union Over
  /\ lt_voice \in SynthIds /\ lt_reply \in Spoken /\ lt_heard \subseteq SynthIds

(* Which synthesis the turn has in hand at each of its points.             *)
InHand ==
  /\ lt_pc \in {"listen", "decide", "outcome"} => lt_voice = "spec"
  /\ lt_pc = "infer" => lt_voice \in {"first", "second"}

(* Only the synthesis in hand is open, and only it is heard.               *)
OneInHand ==
  /\ \A i \in SynthIds : lt_synth[i].gate = "open" => lt_pc = "play" /\ i = lt_voice
  /\ \A i \in lt_heard : lt_pc \in {"play"} \union Over /\ i = lt_voice

(* What is said is what was decided: a speculation's synthesis says its    *)
(* reply, and the synthesis in hand the reply of the turn.                 *)
SaidAsDecided ==
  /\ lt_spec.at = "decided" /\ lt_spec.reply # Silence =>
       lt_synth["spec"].reply = lt_spec.reply
  /\ lt_pc \in {"release", "play"} \/ lt_heard # {} =>
       /\ lt_synth[lt_voice].reply = lt_reply
       /\ lt_voice = "spec" => lt_spec.at = "decided"
  /\ lt_spec.dropped => lt_synth["spec"].gate \in {"absent", "dead"}

TurnInv == TurnTyped /\ InHand /\ OneInHand /\ SaidAsDecided

-----------------------------------------------------------------------------
(* What a step may do to the syntheses and to the speculation.             *)

(* Nothing is sealed or opened: a synthesis stays, or is killed.           *)
Quiet ==
  /\ lt_synth' \in Syntheses
  /\ \A i \in SynthIds : /\ lt_synth'[i].reply = lt_synth[i].reply
                         /\ lt_synth'[i].gate \in {lt_synth[i].gate, "dead"}

Silenced(i) == lt_synth'[i].gate \in {"absent", "dead"}

(* The speculation goes on, or is dropped and silenced.                    *)
SpecStays ==
  /\ lt_spec' \in Speculations /\ lt_spec'.at = lt_spec.at /\ lt_spec'.reply = lt_spec.reply
  /\ lt_spec'.dropped => lt_spec.dropped \/ Silenced("spec")

(* A synthesis that is killed cannot be heard any more, the others rest.   *)
LEMMA KillQuiet ==
  ASSUME lt_synth \in Syntheses, NEW ids, lt_synth' = Turn!Kill(lt_synth, ids)
  PROVE  Quiet /\ \A i \in SynthIds : i \in ids => Silenced(i)
BY DEF Turn!Kill, Turn!Ids, Syntheses, Renderings, SynthIds, Quiet, Silenced

(* Nothing becomes audible when no synthesis changes.                      *)
LEMMA SameQuiet ==
  ASSUME lt_synth \in Syntheses, UNCHANGED lt_synth
  PROVE  Quiet
BY DEF Quiet

(* A speculation that is dropped has no voice.                             *)
LEMMA DropStays ==
  ASSUME lt_spec \in Speculations, lt_spec' = [lt_spec EXCEPT !.dropped = TRUE], Silenced("spec")
  PROVE  SpecStays
BY DEF Speculations, SpecStays

(* A speculation that rests is the one it was.                             *)
LEMMA SameStays ==
  ASSUME lt_spec \in Speculations, UNCHANGED lt_spec
  PROVE  SpecStays
BY DEF SpecStays

(* dropSpec silences the synthesis of the speculation.                     *)
LEMMA SpecDrops ==
  ASSUME TurnInv, Turn!DropSpec
  PROVE  Quiet /\ SpecStays
<1>1. Quiet /\ Silenced("spec")
  BY KillQuiet DEF TurnInv, TurnTyped, Turn!DropSpec, SynthIds
<1> QED  BY <1>1, DropStays DEF TurnInv, TurnTyped, Turn!DropSpec

(* A step that leaves the turn where it is.                                *)
LEMMA TurnRests ==
  ASSUME TurnInv, Quiet, UNCHANGED Turn!turnVars, lt_finals' \in Transcripts,
         lt_spec' \in Speculations, lt_spec'.dropped => lt_spec.dropped \/ Silenced("spec"),
         lt_spec'.at = "decided" => lt_spec.at = "decided" /\ lt_spec'.reply = lt_spec.reply,
         lt_spec.at = "decided" /\ lt_pc # "listen" => lt_spec'.at = "decided"
  PROVE  TurnInv'
<1> USE DEF Turn!turnVars
<1>1. TurnTyped' /\ InHand'
  BY DEF TurnInv, TurnTyped, InHand, Quiet
<1>2. OneInHand'
  BY DEF TurnInv, TurnTyped, OneInHand, Quiet
<1>3. SaidAsDecided'
  BY DEF TurnInv, TurnTyped, InHand, OneInHand, SaidAsDecided, Quiet, Silenced, SynthIds, Over
<1> QED  BY <1>1, <1>2, <1>3 DEF TurnInv

(* A step of the turn before anything is released, that releases nothing.  *)
LEMMA TurnProceeds ==
  ASSUME TurnInv, Quiet, SpecStays, lt_pc \notin {"play"} \union Over, UNCHANGED lt_finals,
         UNCHANGED lt_heard,
         lt_pc' \in {"listen", "decide", "outcome", "infer", "speak"} \union Over,
         lt_voice' \in SynthIds, lt_reply' \in Spoken,
         lt_pc' \in {"listen", "decide", "outcome"} => lt_voice' = "spec",
         lt_pc' = "infer" => lt_voice' \in {"first", "second"}
  PROVE  TurnInv'
<1>1. TurnTyped' /\ InHand'
  BY DEF TurnInv, TurnTyped, InHand, Quiet, SpecStays
<1>2. lt_heard = {} /\ \A i \in SynthIds : lt_synth[i].gate # "open"
  BY DEF TurnInv, TurnTyped, OneInHand
<1>3. OneInHand'
  BY <1>2 DEF OneInHand, Quiet
<1>4. SaidAsDecided'
  BY <1>2 DEF TurnInv, TurnTyped, SaidAsDecided, Quiet, SpecStays, Silenced, SynthIds, Over
<1> QED  BY <1>1, <1>3, <1>4 DEF TurnInv

(* When the turn returns, no synthesis can be heard any more.              *)
LEMMA ReturnEffect ==
  ASSUME TurnInv, NEW r, Turn!Return(r)
  PROVE  Quiet /\ SpecStays /\ \A i \in SynthIds : Silenced(i)
<1>1. Quiet /\ \A i \in SynthIds : Silenced(i)
  BY KillQuiet DEF TurnInv, TurnTyped, Turn!Return, SynthIds, Turn!Ids
<1> QED  BY <1>1, DropStays DEF TurnInv, TurnTyped, Turn!Return, SynthIds

(* A turn that returns before it plays has been heard by nobody.           *)
LEMMA TurnReturnsEarly ==
  ASSUME TurnInv, NEW r \in Over, Turn!Return(r), lt_pc \notin {"play"} \union Over,
         UNCHANGED <<lt_finals, lt_heard, lt_voice>>, lt_reply' \in Spoken
  PROVE  TurnInv'
BY ReturnEffect, TurnProceeds DEF Turn!Return, TurnInv, TurnTyped, Over

(* A turn that returns from playing leaves what was heard.                 *)
LEMMA TurnReturnsPlayed ==
  ASSUME TurnInv, NEW r \in Over, Turn!Return(r), lt_pc = "play",
         UNCHANGED <<lt_finals, lt_heard, lt_voice, lt_reply>>
  PROVE  TurnInv'
<1>1. Quiet /\ SpecStays /\ (\A i \in SynthIds : Silenced(i)) /\ lt_pc' = r
  BY ReturnEffect DEF Turn!Return
<1>2. TurnTyped' /\ InHand'
  BY <1>1 DEF TurnInv, TurnTyped, InHand, Quiet, SpecStays, Over
<1>3. OneInHand'
  BY <1>1 DEF TurnInv, TurnTyped, OneInHand, Silenced
<1>4. SaidAsDecided'
  BY <1>1 DEF TurnInv, TurnTyped, SaidAsDecided, Quiet, SpecStays, Silenced, SynthIds, Over
<1> QED  BY <1>2, <1>3, <1>4 DEF TurnInv

-----------------------------------------------------------------------------
(* Recognition and input.                                                  *)

(* The transcripts are closed under what the recogniser appends.           *)
LEMMA TranscriptSet ==
  /\ << >> \in Transcripts
  /\ \A x \in Words : <<x>> \in Transcripts
  /\ \A t, u \in Transcripts : t \o u \in Transcripts
  /\ \A t \in Transcripts, x \in Words : Append(t, x) \in Transcripts
BY DEF Transcripts

(* A speculation begins with its transcript and undropped.                 *)
LEMMA FreshSpec ==
  ASSUME NEW text \in Transcripts
  PROVE  LET s == [Turn!NoSpec EXCEPT !.at = "thinking", !.text = text]
         IN  s \in Speculations /\ s.at = "thinking" /\ s.dropped = FALSE
BY DEF Turn!NoSpec, Speculations, Spoken

(* A speculation starts only while the turn listens.                       *)
LEMMA TurnStarts ==
  ASSUME TurnInv, NEW text \in Transcripts, lt_pc = "listen", UNCHANGED Turn!turnVars,
         lt_finals' \in Transcripts, UNCHANGED lt_synth,
         UNCHANGED lt_spec \/ Turn!Start(text)
  PROVE  TurnInv'
<1>1. Quiet  BY SameQuiet DEF TurnInv, TurnTyped
<1>2. CASE UNCHANGED lt_spec
  BY <1>1, <1>2, TurnRests DEF TurnInv, TurnTyped
<1>3. CASE lt_spec' = [Turn!NoSpec EXCEPT !.at = "thinking", !.text = text]
  <2>1. lt_spec' \in Speculations /\ lt_spec'.at = "thinking" /\ lt_spec'.dropped = FALSE
    BY <1>3, FreshSpec
  <2> QED  BY <1>1, <2>1, TurnRests
<1> QED  BY <1>2, <1>3 DEF Turn!Start

(* A revised transcript ends the speculation on the earlier one.           *)
LEMMA TurnRevises ==
  ASSUME TurnInv, NEW text, UNCHANGED Turn!turnVars, lt_finals' \in Transcripts,
         Turn!Revise(text)
  PROVE  TurnInv'
<1>1. CASE UNCHANGED <<lt_spec, lt_synth>>
  BY <1>1, SameQuiet, TurnRests DEF TurnInv, TurnTyped
<1>2. CASE Turn!DropSpec
  BY <1>2, SpecDrops, TurnRests DEF SpecStays
<1> QED  BY <1>1, <1>2 DEF Turn!Revise

(* An interim result of the recogniser.                                    *)
LEMMA Recognises ==
  ASSUME TurnInv, NEW w, w \in {<< >>} \union {<<x>> : x \in Words}, Turn!Interim(w)
  PROVE  TurnInv'
<1>1. lt_finals \in Transcripts /\ w \in Transcripts /\ lt_finals \o w \in Transcripts
  BY TranscriptSet DEF TurnInv, TurnTyped
<1>2. lt_pc = "listen" /\ UNCHANGED lt_finals /\ UNCHANGED Turn!turnVars
  BY DEF Turn!Interim, Turn!Listening
<1>3. CASE Turn!Revise(lt_finals \o w)
  BY <1>1, <1>2, <1>3, TurnRevises
<1>4. CASE Turn!Track(lt_finals \o w) /\ UNCHANGED lt_synth
  BY <1>1, <1>2, <1>4, TurnStarts DEF Turn!Track
<1> QED  BY <1>3, <1>4 DEF Turn!Interim

(* A final fragment of the recogniser.                                     *)
LEMMA Finishes ==
  ASSUME TurnInv, NEW w \in Words, Turn!Final(w)
  PROVE  TurnInv'
<1>1. lt_finals' \in Transcripts
  BY TranscriptSet DEF TurnInv, TurnTyped, Turn!Final
<1>2. lt_pc = "listen" /\ UNCHANGED Turn!turnVars
  BY DEF Turn!Final, Turn!Listening
<1>3. CASE Turn!Revise(lt_finals')
  BY <1>1, <1>2, <1>3, TurnRevises
<1>4. CASE (Turn!TrackFinal(lt_finals') \/ Turn!Track(lt_finals')) /\ UNCHANGED lt_synth
  BY <1>1, <1>2, <1>4, TurnStarts DEF Turn!Track, Turn!TrackFinal
<1> QED  BY <1>3, <1>4 DEF Turn!Final

(* The end of the speech.                                                  *)
LEMMA SpeechEnds ==
  ASSUME TurnInv, Turn!SpeechEnd
  PROVE  TurnInv'
<1>1. lt_finals \in Transcripts  BY DEF TurnInv, TurnTyped
<1>2. /\ lt_pc = "listen" /\ UNCHANGED lt_finals /\ UNCHANGED Turn!turnVars
      /\ UNCHANGED lt_synth /\ (UNCHANGED lt_spec \/ Turn!TrackFinal(lt_finals))
  BY DEF Turn!SpeechEnd, Turn!Listening
<1> QED  BY <1>1, <1>2, TurnStarts DEF Turn!TrackFinal

(* Steps that touch neither the transcript, nor a synthesis, nor the turn. *)
LEMMA TurnWaits ==
  ASSUME TurnInv, UNCHANGED <<lt_finals, lt_spec, lt_synth>>, UNCHANGED Turn!turnVars
  PROVE  TurnInv'
BY SameQuiet, TurnRests DEF TurnInv, TurnTyped

(* The socket, the sender and the clocks are such steps.                   *)
LEMMA InputMoves ==
  ASSUME TurnInv,
         \/ Turn!EmptyFinal \/ Turn!EndOfStream \/ Turn!ReceiveFails \/ Turn!SendPCM
         \/ Turn!ClientCommits \/ Turn!Sender \/ Turn!DeadlineArrives \/ Turn!ReserveFires
         \/ Turn!DeadlinePasses \/ Turn!EndContext
  PROVE  TurnInv'
<1>1. UNCHANGED <<lt_finals, lt_spec, lt_synth>> /\ UNCHANGED Turn!turnVars
  BY DEF Turn!EmptyFinal, Turn!EndOfStream, Turn!ReceiveFails, Turn!SendPCM, Turn!ClientCommits,
         Turn!Sender, Turn!SenderCommits, Turn!SenderFails, Turn!DeadlineArrives,
         Turn!ReserveFires, Turn!DeadlinePasses, Turn!EndContext, Turn!eventVars
<1> QED  BY <1>1, TurnWaits

-----------------------------------------------------------------------------
(* The agent and the syntheses behind their gates.                         *)

(* A synthesis is sealed, with a reply of its own.                         *)
SealedAs(i, r) ==
  /\ lt_synth' \in Syntheses /\ lt_synth'[i].gate = "sealed" /\ lt_synth'[i].reply = r
  /\ \A j \in SynthIds \ {i} : lt_synth'[j] = lt_synth[j]

(* A new synthesis is sealed with its reply.                               *)
LEMMA Seals ==
  ASSUME lt_synth \in Syntheses, NEW i \in SynthIds, NEW r \in Spoken,
         lt_synth' = [lt_synth EXCEPT ![i] = Turn!Sealed(r)]
  PROVE  SealedAs(i, r)
BY DEF Turn!Sealed, SealedAs, Syntheses, Renderings

(* The speculation starts its synthesis.                                   *)
LEMMA Speculates ==
  ASSUME TurnInv, NEW r \in Replies, Turn!StageSpec(r)
  PROVE  TurnInv'
<1>1. SealedAs("spec", r)
  BY Seals DEF Turn!StageSpec, TurnInv, TurnTyped, Spoken, SynthIds
<1>2. /\ lt_spec.at = "thinking" /\ ~lt_spec.dropped
      /\ UNCHANGED <<lt_finals, lt_spec>> /\ UNCHANGED Turn!turnVars
  BY DEF Turn!StageSpec, Turn!MayStage, Turn!eventVars
<1>3. TurnTyped' /\ InHand'
  BY <1>1, <1>2 DEF TurnInv, TurnTyped, InHand, SealedAs, Turn!turnVars
<1>4. OneInHand'
  BY <1>1, <1>2 DEF TurnInv, OneInHand, SealedAs, Turn!turnVars
<1>5. SaidAsDecided'
  BY <1>1, <1>2 DEF TurnInv, TurnTyped, OneInHand, SaidAsDecided, SealedAs, Turn!turnVars
<1> QED  BY <1>3, <1>4, <1>5 DEF TurnInv

(* The candidate starts its synthesis.                                     *)
LEMMA Stages ==
  ASSUME TurnInv, NEW r \in Replies, Turn!StageCandidate(r)
  PROVE  TurnInv'
<1>1. lt_voice \in {"first", "second"} /\ lt_pc = "infer"
  BY DEF Turn!StageCandidate, TurnInv, InHand
<1>2. SealedAs(lt_voice, r)
  BY <1>1, Seals DEF Turn!StageCandidate, TurnInv, TurnTyped, Spoken
<1>3. UNCHANGED <<lt_finals, lt_spec>> /\ UNCHANGED Turn!turnVars
  BY DEF Turn!StageCandidate, Turn!eventVars
<1>4. TurnTyped' /\ InHand'
  BY <1>1, <1>2, <1>3 DEF TurnInv, TurnTyped, InHand, SealedAs, Turn!turnVars
<1>5. OneInHand'
  BY <1>1, <1>2, <1>3 DEF TurnInv, OneInHand, SealedAs, Turn!turnVars
<1>6. SaidAsDecided'
  BY <1>1, <1>2, <1>3
     DEF TurnInv, TurnTyped, OneInHand, SaidAsDecided, SealedAs, Turn!turnVars, SynthIds, Over
<1> QED  BY <1>4, <1>5, <1>6 DEF TurnInv

(* The speculation has its reply.                                          *)
LEMMA SpecDecides ==
  ASSUME TurnInv, NEW r \in Turn!Decisions, Turn!DecideSpec(r)
  PROVE  TurnInv'
<1>1. lt_spec.at = "thinking" /\ UNCHANGED lt_finals /\ UNCHANGED Turn!turnVars /\ r \in Spoken
  BY DEF Turn!DecideSpec, Turn!Decisions, Turn!eventVars, Spoken
<1>2. lt_voice = "spec" => lt_pc \notin {"release", "play"} /\ lt_heard = {}
  BY <1>1 DEF TurnInv, SaidAsDecided
<1>3. CASE lt_synth' = Turn!Kill(lt_synth, {"spec"})
           /\ (\/ r = Silence /\ lt_spec' = [lt_spec EXCEPT !.at = "decided", !.reply = r]
               \/ lt_spec' = [lt_spec EXCEPT !.at = "failed"])
  <2>1. Quiet /\ Silenced("spec")
    BY <1>3, KillQuiet DEF TurnInv, TurnTyped, SynthIds
  <2>2. /\ lt_spec' \in Speculations /\ lt_spec'.dropped = lt_spec.dropped
        /\ lt_spec'.at = "decided" => lt_spec'.reply = Silence
    BY <1>1, <1>3 DEF TurnInv, TurnTyped, Speculations
  <2>3. TurnTyped' /\ InHand'
    BY <1>1, <2>1, <2>2 DEF TurnInv, TurnTyped, InHand, Quiet, Turn!turnVars
  <2>4. OneInHand'
    BY <1>1, <2>1 DEF TurnInv, TurnTyped, OneInHand, Quiet, Turn!turnVars
  <2>5. SaidAsDecided'
    BY <1>1, <1>2, <2>1, <2>2
       DEF TurnInv, TurnTyped, SaidAsDecided, Quiet, Silenced, Turn!turnVars
  <2> QED  BY <2>3, <2>4, <2>5 DEF TurnInv
<1>4. CASE /\ Turn!MayStage /\ lt_synth' = [lt_synth EXCEPT !["spec"] = Turn!AfterDecision(r)]
           /\ lt_spec' = [lt_spec EXCEPT !.at = "decided", !.reply = r]
  <2>1. /\ lt_spec' \in Speculations /\ ~lt_spec'.dropped
        /\ lt_spec'.at = "decided" /\ lt_spec'.reply = r
    BY <1>1, <1>4 DEF TurnInv, TurnTyped, Speculations, Turn!MayStage
  <2>2. /\ lt_synth' \in Syntheses /\ lt_synth'["spec"].reply = r
        /\ lt_synth'["spec"].gate \in {lt_synth["spec"].gate, "sealed"}
        /\ \A j \in SynthIds \ {"spec"} : lt_synth'[j] = lt_synth[j]
    BY <1>1, <1>4
       DEF TurnInv, TurnTyped, Turn!AfterDecision, Turn!Sealed, Syntheses, Renderings, SynthIds
  <2>3. TurnTyped' /\ InHand'
    BY <1>1, <2>1, <2>2 DEF TurnInv, TurnTyped, InHand, Turn!turnVars
  <2>4. OneInHand'
    BY <1>1, <2>2 DEF TurnInv, TurnTyped, OneInHand, Turn!turnVars
  <2>5. SaidAsDecided'
    BY <1>1, <1>2, <2>1, <2>2 DEF TurnInv, TurnTyped, SaidAsDecided, Turn!turnVars
  <2> QED  BY <2>3, <2>4, <2>5 DEF TurnInv
<1> QED  BY <1>3, <1>4 DEF Turn!DecideSpec

(* A synthesis fails.                                                      *)
LEMMA Dies ==
  ASSUME TurnInv, NEW i \in SynthIds, Turn!SynthesisDies(i)
  PROVE  TurnInv'
<1>1. Quiet  BY KillQuiet DEF TurnInv, TurnTyped, Turn!SynthesisDies
<1>2. UNCHANGED <<lt_finals, lt_spec>> /\ UNCHANGED Turn!turnVars
  BY DEF Turn!SynthesisDies, Turn!eventVars
<1> QED  BY <1>1, <1>2, TurnRests DEF TurnInv, TurnTyped

(* A synthesis that is open delivers a chunk.                              *)
LEMMA Delivers ==
  ASSUME TurnInv, NEW i \in SynthIds, Turn!Deliver(i)
  PROVE  TurnInv'
<1>1. /\ lt_heard' = lt_heard \union {i} /\ lt_pc = "play" /\ i = lt_voice
      /\ UNCHANGED <<lt_finals, lt_spec, lt_synth, lt_pc, lt_voice, lt_reply>>
  BY DEF Turn!Deliver, TurnInv, OneInHand, Turn!eventVars
<1> QED
  BY <1>1 DEF TurnInv, TurnTyped, InHand, OneInHand, SaidAsDecided

-----------------------------------------------------------------------------
(* The turn itself.                                                        *)

(* The turn joins the recogniser.                                          *)
LEMMA Joins ==
  ASSUME TurnInv, Turn!Join
  PROVE  TurnInv'
<1>1. lt_pc = "listen" /\ UNCHANGED <<lt_finals, lt_voice, lt_reply, lt_heard>>
  BY DEF Turn!Join, Turn!eventVars
<1>2. CASE Turn!Return("failed")
  BY <1>1, <1>2, TurnReturnsEarly DEF TurnInv, TurnTyped, Over
<1>3. CASE lt_pc' = "decide" /\ UNCHANGED <<lt_spec, lt_synth>>
  BY <1>1, <1>3, SameQuiet, SameStays, TurnProceeds DEF TurnInv, TurnTyped, InHand, Over
<1> QED  BY <1>2, <1>3 DEF Turn!Join

(* The turn decides on what was recognised.                                *)
LEMMA Recognised ==
  ASSUME TurnInv, Turn!DecideRecognition
  PROVE  TurnInv'
<1>1. lt_pc = "decide" /\ lt_voice = "spec"  BY DEF Turn!DecideRecognition, TurnInv, InHand
<1>2. UNCHANGED <<lt_finals, lt_heard>>  BY DEF Turn!DecideRecognition, Turn!eventVars
<1>3. lt_reply' \in Spoken  BY DEF Turn!DecideRecognition, TurnInv, TurnTyped, Spoken
<1>4. \/ lt_pc' \in {"done", "speak"} /\ lt_voice' = lt_voice
      \/ lt_pc' = "outcome" /\ lt_voice' = lt_voice
      \/ lt_pc' = "infer" /\ lt_voice' = "first"
  BY DEF Turn!DecideRecognition
<1>5. Quiet /\ SpecStays
  BY SameQuiet, SameStays, SpecDrops DEF Turn!DecideRecognition, TurnInv, TurnTyped
<1> QED  BY <1>1, <1>2, <1>3, <1>4, <1>5, TurnProceeds DEF Over, SynthIds

(* The outcome of the speculation is rejected.                             *)
LEMMA Rejects ==
  ASSUME TurnInv, Turn!RejectOutcome
  PROVE  TurnInv'
<1>1. /\ lt_pc = "outcome" /\ lt_pc' = "infer" /\ lt_voice' = "first"
      /\ UNCHANGED <<lt_finals, lt_heard, lt_reply>>
  BY DEF Turn!RejectOutcome, Turn!eventVars
<1>2. Quiet /\ SpecStays  BY SpecDrops DEF Turn!RejectOutcome
<1> QED  BY <1>1, <1>2, TurnProceeds DEF TurnInv, TurnTyped, Over, SynthIds

(* An expired speculation is asked again.                                  *)
LEMMA Retries ==
  ASSUME TurnInv, Turn!RetryExpired
  PROVE  TurnInv'
<1>1. /\ lt_pc = "infer" /\ lt_pc' = "infer" /\ lt_voice' = "second"
      /\ UNCHANGED <<lt_finals, lt_heard, lt_reply, lt_spec>>
  BY DEF Turn!RetryExpired, Turn!eventVars
<1>2. Quiet  BY KillQuiet DEF Turn!RetryExpired, TurnInv, TurnTyped
<1>3. SpecStays  BY <1>1, SameStays DEF TurnInv, TurnTyped
<1> QED  BY <1>1, <1>2, <1>3, TurnProceeds DEF TurnInv, TurnTyped, Over, SynthIds

(* Towards a release: the synthesis in hand says the reply just decided.   *)
LEMMA TurnReleases ==
  ASSUME TurnInv, UNCHANGED <<lt_finals, lt_spec, lt_synth, lt_voice, lt_heard>>,
         lt_pc \in {"outcome", "infer"}, lt_pc' = "release", lt_reply' \in Spoken,
         lt_synth[lt_voice].reply = lt_reply',
         lt_voice = "spec" => lt_spec.at = "decided"
  PROVE  TurnInv'
<1>1. TurnTyped' /\ InHand'  BY DEF TurnInv, TurnTyped, InHand, Over
<1>2. OneInHand'  BY DEF TurnInv, TurnTyped, OneInHand, Over
<1>3. SaidAsDecided'  BY DEF TurnInv, TurnTyped, OneInHand, SaidAsDecided
<1> QED  BY <1>1, <1>2, <1>3 DEF TurnInv

(* The outcome of the speculation becomes the turn's reply.                *)
LEMMA Adopts ==
  ASSUME TurnInv, Turn!AdoptOutcome
  PROVE  TurnInv'
<1>1. /\ lt_pc = "outcome" /\ lt_voice = "spec" /\ lt_spec.at = "decided"
      /\ UNCHANGED <<lt_finals, lt_heard, lt_voice>> /\ lt_reply' = lt_spec.reply
      /\ lt_reply' \in Spoken
  BY DEF Turn!AdoptOutcome, Turn!eventVars, TurnInv, TurnTyped, InHand, Speculations
<1>2. CASE Turn!Return("done")
  BY <1>1, <1>2, TurnReturnsEarly DEF Over
<1>3. CASE lt_spec.reply # Silence /\ lt_pc' = "release" /\ UNCHANGED <<lt_spec, lt_synth>>
  <2>1. lt_synth["spec"].reply = lt_spec.reply
    BY <1>1, <1>3 DEF TurnInv, SaidAsDecided
  <2> QED  BY <1>1, <1>3, <2>1, TurnReleases
<1> QED  BY <1>2, <1>3 DEF Turn!AdoptOutcome

(* The turn has its own reply.                                             *)
LEMMA Infers ==
  ASSUME TurnInv, NEW r \in Turn!Decisions, Turn!InferDecides(r)
  PROVE  TurnInv'
<1>1. /\ lt_pc = "infer" /\ UNCHANGED <<lt_finals, lt_heard, lt_voice>> /\ lt_reply' = r
      /\ r \in Spoken /\ lt_voice \in {"first", "second"}
  BY DEF Turn!InferDecides, Turn!Decisions, Turn!eventVars, TurnInv, InHand, Spoken
<1>2. CASE Turn!Return("done")
  BY <1>1, <1>2, TurnReturnsEarly DEF Over
<1>3. CASE lt_synth[lt_voice].reply = r /\ lt_pc' = "release" /\ UNCHANGED <<lt_spec, lt_synth>>
  BY <1>1, <1>3, TurnReleases
<1>4. CASE lt_pc' = "speak" /\ lt_synth' = Turn!Kill(lt_synth, {lt_voice}) /\ UNCHANGED lt_spec
  <2>1. Quiet /\ SpecStays  BY <1>4, KillQuiet, SameStays DEF TurnInv, TurnTyped
  <2> QED  BY <1>1, <1>4, <2>1, TurnProceeds DEF Over, SynthIds
<1> QED  BY <1>2, <1>3, <1>4 DEF Turn!InferDecides

(* The turn has no reply of its own.                                       *)
LEMMA InferenceFails ==
  ASSUME TurnInv, Turn!InferFails
  PROVE  TurnInv'
BY TurnReturnsEarly DEF Turn!InferFails, Turn!eventVars, TurnInv, TurnTyped, Over

(* The release of a synthesis is refused.                                  *)
LEMMA Refuses ==
  ASSUME TurnInv, Turn!ReleaseRefused
  PROVE  TurnInv'
<1>1. /\ lt_pc = "release" /\ UNCHANGED <<lt_finals, lt_heard, lt_reply>>
      /\ \/ lt_pc' = "speak" /\ UNCHANGED <<lt_voice, lt_spec>>
         \/ /\ lt_voice = "spec" /\ lt_pc' = "infer" /\ lt_voice' = "first"
            /\ lt_spec' = [lt_spec EXCEPT !.dropped = TRUE]
  BY DEF Turn!ReleaseRefused, Turn!eventVars
<1>2. Quiet /\ Silenced(lt_voice)
  BY KillQuiet DEF Turn!ReleaseRefused, TurnInv, TurnTyped
<1>3. SpecStays
  BY <1>1, <1>2, SameStays, DropStays DEF TurnInv, TurnTyped
<1> QED  BY <1>1, <1>2, <1>3, TurnProceeds DEF TurnInv, TurnTyped, Over, SynthIds

(* A gate is opened: the other syntheses rest.                             *)
LEMMA Opens ==
  ASSUME lt_synth \in Syntheses, NEW i \in SynthIds, lt_synth' = [lt_synth EXCEPT ![i].gate = "open"]
  PROVE  /\ lt_synth' \in Syntheses /\ lt_synth'[i].reply = lt_synth[i].reply
         /\ lt_synth'[i].gate = "open"
         /\ \A j \in SynthIds \ {i} : lt_synth'[j] = lt_synth[j]
BY DEF Syntheses, Renderings

(* The voice of the turn is released: it is the only one that can be       *)
(* heard.                                                                  *)
LEMMA Releases ==
  ASSUME TurnInv, Turn!Release
  PROVE  TurnInv'
<1>1. lt_pc = "release" /\ UNCHANGED <<lt_finals, lt_heard, lt_reply, lt_voice>>
  BY DEF Turn!Release, Turn!eventVars
<1>2. CASE Turn!Return("failed")
  BY <1>1, <1>2, TurnReturnsEarly DEF TurnInv, TurnTyped, Over
<1>3. CASE /\ lt_synth[lt_voice].gate = "sealed" /\ lt_pc' = "play" /\ UNCHANGED lt_spec
           /\ lt_synth' = [lt_synth EXCEPT ![lt_voice].gate = "open"]
  <2>1. /\ lt_synth' \in Syntheses /\ lt_synth'[lt_voice].reply = lt_synth[lt_voice].reply
        /\ lt_synth'[lt_voice].gate = "open"
        /\ \A j \in SynthIds \ {lt_voice} : lt_synth'[j] = lt_synth[j]
    BY <1>3, Opens DEF TurnInv, TurnTyped
  <2>2. TurnTyped' /\ InHand'
    BY <1>1, <1>3, <2>1 DEF TurnInv, TurnTyped, InHand
  <2>3. OneInHand'
    BY <1>1, <1>3, <2>1 DEF TurnInv, TurnTyped, OneInHand, Over
  <2>4. lt_spec.dropped => lt_voice # "spec"
    BY <1>3 DEF TurnInv, SaidAsDecided
  <2>5. SaidAsDecided'
    BY <1>1, <1>3, <2>1, <2>4 DEF TurnInv, TurnTyped, SaidAsDecided, SynthIds
  <2> QED  BY <2>2, <2>3, <2>5 DEF TurnInv
<1> QED  BY <1>2, <1>3 DEF Turn!Release

(* The turn speaks its reply directly.                                     *)
LEMMA Speaks ==
  ASSUME TurnInv, Turn!Speak
  PROVE  TurnInv'
<1>1. lt_pc = "speak" /\ UNCHANGED <<lt_finals, lt_heard, lt_reply>>
  BY DEF Turn!Speak, Turn!eventVars
<1>2. CASE Turn!Return("failed") /\ UNCHANGED lt_voice
  BY <1>1, <1>2, TurnReturnsEarly DEF TurnInv, TurnTyped, Over
<1>3. CASE /\ lt_voice' = "direct" /\ lt_pc' = "play" /\ UNCHANGED lt_spec
           /\ lt_synth' = [lt_synth EXCEPT !["direct"] = [gate |-> "open", reply |-> lt_reply]]
  <2>1. /\ lt_synth' \in Syntheses /\ lt_synth'["direct"].reply = lt_reply
        /\ lt_synth'["direct"].gate = "open"
        /\ \A j \in SynthIds \ {"direct"} : lt_synth'[j] = lt_synth[j]
    BY <1>3 DEF TurnInv, TurnTyped, Syntheses, Renderings, SynthIds
  <2>2. TurnTyped' /\ InHand'
    BY <1>1, <1>3, <2>1 DEF TurnInv, TurnTyped, InHand, SynthIds
  <2>3. OneInHand'
    BY <1>1, <1>3, <2>1 DEF TurnInv, TurnTyped, OneInHand, Over
  <2>4. SaidAsDecided'
    BY <1>1, <1>3, <2>1 DEF TurnInv, TurnTyped, SaidAsDecided, SynthIds
  <2> QED  BY <2>2, <2>3, <2>4 DEF TurnInv
<1> QED  BY <1>2, <1>3 DEF Turn!Speak

(* The turn has played its reply.                                          *)
LEMMA Plays ==
  ASSUME TurnInv, Turn!PlayEnds
  PROVE  TurnInv'
BY TurnReturnsPlayed DEF Turn!PlayEnds, Turn!Finals, Turn!eventVars, Over

(* The invariant of the turn holds in the beginning.                       *)
LEMMA TurnBegins == Turn!Init => TurnInv
<1> SUFFICES ASSUME Turn!Init  PROVE TurnInv  OBVIOUS
<1>1. lt_finals \in Transcripts  BY TranscriptSet DEF Turn!Init
<1>2. lt_spec \in Speculations /\ lt_spec.at = "none" /\ lt_spec.dropped = FALSE
  BY TranscriptSet DEF Turn!Init, Turn!NoSpec, Speculations, Spoken
<1>3. lt_synth \in Syntheses /\ \A i \in SynthIds : lt_synth[i].gate = "absent"
  BY DEF Turn!Init, Turn!Absent, Turn!Ids, Syntheses, Renderings, Spoken, SynthIds
<1>4. lt_pc = "listen" /\ lt_voice = "spec" /\ lt_reply \in Spoken /\ lt_heard = {}
  BY DEF Turn!Init, Spoken
<1> QED
  BY <1>1, <1>2, <1>3, <1>4
     DEF TurnInv, TurnTyped, InHand, OneInHand, SaidAsDecided, SynthIds

(* Every step of the recogniser, the syntheses and the turn keeps it.      *)
LEMMA TurnHolds ==
  ASSUME TurnInv, [Turn!Next]_(Turn!vars)
  PROVE  TurnInv'
<1>1. CASE UNCHANGED Turn!vars
  BY <1>1, TurnWaits DEF Turn!vars, Turn!eventVars
<1>2. CASE \E i \in Turn!Ids : Turn!SynthesisDies(i) \/ Turn!Deliver(i)
  BY <1>2, Dies, Delivers DEF Turn!Ids, SynthIds
<1>3. CASE Turn!TurnStep
  BY <1>3, Joins, Recognised, Adopts, Rejects, Speaks DEF Turn!TurnStep
<1>4. CASE Turn!ProviderReturns
  BY <1>4, InferenceFails, Refuses, Releases, Plays DEF Turn!ProviderReturns
<1>5. CASE \/ Turn!EmptyFinal \/ Turn!EndOfStream \/ Turn!ReceiveFails \/ Turn!SendPCM
           \/ Turn!ClientCommits \/ Turn!Sender \/ Turn!DeadlineArrives \/ Turn!ReserveFires
           \/ Turn!DeadlinePasses \/ Turn!EndContext
  BY <1>5, InputMoves
<1> QED
  BY <1>1, <1>2, <1>3, <1>4, <1>5, Recognises, Finishes, SpeechEnds, Speculates, Stages,
     SpecDecides, Infers, Retries
     DEF Turn!Next

-----------------------------------------------------------------------------
(* The person hears one synthesis of a turn, and one at a time can be      *)
(* heard, whatever was speculated, sealed or retried (Pipeline.processLive, *)
(* voiceflow.go).                                                          *)
THEOREM OneVoiceAlways == Turn!Spec => []OneVoice
<1>1. Turn!Init => TurnInv
  BY TurnBegins
<1>2. TurnInv /\ [Turn!Next]_(Turn!vars) => TurnInv'
  BY TurnHolds
<1>3. TurnInv => OneVoice
  <2> SUFFICES ASSUME TurnInv  PROVE OneVoice  OBVIOUS
  <2>1. \A S : Turn!Cardinality(S) = Cardinality(S)
    BY DEF Turn!Cardinality, Cardinality
  <2>2. ASSUME NEW S, S \subseteq {lt_voice}  PROVE Cardinality(S) <= 1
    <3>1. S = {} \/ S = {lt_voice}  BY <2>2
    <3>2. Cardinality({}) = 0 /\ Cardinality({lt_voice}) = 1
      BY FS_EmptySet, FS_Singleton
    <3> QED  BY <3>1, <3>2
  <2>3. lt_heard \subseteq {lt_voice}
    BY DEF TurnInv, OneInHand
  <2>4. {i \in Turn!Ids : lt_synth[i].gate = "open"} \subseteq {lt_voice}
    BY DEF TurnInv, OneInHand, Turn!Ids, SynthIds
  <2> QED  BY <2>1, <2>2, <2>3, <2>4 DEF OneVoice, Turn!OneVoice
<1> QED  BY <1>1, <1>2, <1>3, PTL DEF Turn!Spec

(* What is heard is the reply that was decided, and a revoked speculation  *)
(* is silent, although its goroutine goes on (voiceflow.go).               *)
THEOREM HeardIsDecidedAlways == Turn!Spec => []HeardIsDecided
<1>1. Turn!Init => TurnInv
  BY TurnBegins
<1>2. TurnInv /\ [Turn!Next]_(Turn!vars) => TurnInv'
  BY TurnHolds
<1>3. TurnInv => HeardIsDecided
  BY DEF TurnInv, OneInHand, SaidAsDecided, HeardIsDecided, Turn!HeardIsDecided, Turn!DecidedIsHeard,
         Turn!RevokedIsSilent
<1> QED  BY <1>1, <1>2, <1>3, PTL DEF Turn!Spec
-----------------------------------------------------------------------------
(* The one writer of a socket: the bytes of a request exist exactly while  *)
(* a caller is being admitted with them or the writer holds its frame, in  *)
(* a lane, set aside or in hand, and a frame is in one of these places     *)
(* only.  For any number of frames and any capacities.                     *)
CONSTANTS Audio, Control, AudioCapacity, ControlCapacity

VARIABLES ow_caller, ow_cancelled, ow_copy, ow_answer, ow_queued, ow_ticket, ow_tickets,
          ow_ctxDone, ow_run, ow_hand, ow_pending, ow_written

Writer == INSTANCE OutboundWriter WITH
    caller <- ow_caller, cancelled <- ow_cancelled, copy <- ow_copy, answer <- ow_answer,
    queued <- ow_queued, ticket <- ow_ticket, tickets <- ow_tickets, ctxDone <- ow_ctxDone,
    run <- ow_run, hand <- ow_hand, pending <- ow_pending, written <- ow_written

Carried(f) == f \in ow_queued \/ ow_pending = f \/ ow_hand = f

Given(f) == ow_caller[f] \notin {"idle", "admitted"}

(* A frame is in one place, and what is written is out of the lanes.       *)
InOnePlace ==
  /\ ow_hand \notin ow_queued /\ ow_pending \notin ow_queued 
  /\ (ow_hand = ow_pending => ow_hand = None)
  /\ ow_written \intersect ow_queued = {} /\ ow_pending \notin ow_written
  /\ ow_hand \in ow_written => ow_run = "writing"

(* The bytes are owned by an entering caller or by the writer.             *)
Bytes ==
  \A f \in Writer!Frames : /\ ow_copy[f] = "intact" <=> Carried(f) \/ ow_caller[f] = "admitted"
                           /\ Carried(f) \/ f \in ow_written => Given(f)

(* What the goroutine holds at each of its points.                         *)
Phase ==
  /\ ow_run \in {"recheck", "taken", "writing"} <=> ow_hand # None
  /\ ow_hand \in Control \/ ow_run = "select" => ow_pending = None
  /\ ow_run = "recheck" => ow_hand \in Control
  /\ ow_run = "over" => \A f \in Writer!Frames : ~Carried(f) /\ ow_caller[f] # "admitted"

(* f entered its lane before g.                                            *)
Before(f, g) == ow_ticket[f] < ow_ticket[g]

(* Tickets follow the order written, in hand, set aside, in the lane.      *)
InTurn ==
  /\ \A f \in Writer!Frames : ow_ticket[f] <= ow_tickets
  /\ \A f \in Writer!Frames, g \in Writer!Frames :
       (f # g /\ Writer!LaneOf(f) = Writer!LaneOf(g)) =>
         /\ f \in ow_written /\ Carried(g) => Before(f, g)
         /\ ow_hand = f /\ Carried(g) => Before(f, g)
         /\ ow_pending = f /\ g \in ow_queued => Before(f, g)

WriterInv == Writer!TypeOK /\ InOnePlace /\ Bytes /\ Phase /\ InTurn
-----------------------------------------------------------------------------
(* Nothing is held in the beginning.                                       *)
LEMMA WriterStarts == Writer!Lanes /\ Writer!Init => WriterInv
<1> SUFFICES ASSUME Writer!Lanes, Writer!Init PROVE WriterInv  OBVIOUS
<1> USE DEF Writer!Init
<1>1. None \notin Writer!Frames  BY DEF Writer!Lanes, Writer!Frames
<1>2. Writer!TypeOK  BY DEF Writer!TypeOK
<1>3. InOnePlace /\ Phase  BY <1>1 DEF InOnePlace, Phase, Carried, Writer!Lanes, Writer!Frames
<1>4. Bytes /\ InTurn  BY <1>1 DEF Bytes, InTurn, Carried, Given, Before
<1> QED  BY <1>2, <1>3, <1>4 DEF WriterInv

(* A step keeps every variable within its type.                            *)
LEMMA WriterTyped == Writer!Lanes /\ WriterInv /\ [Writer!Next]_(Writer!vars) => Writer!TypeOK'
<1> SUFFICES ASSUME Writer!Lanes, WriterInv, [Writer!Next]_(Writer!vars) PROVE Writer!TypeOK'  OBVIOUS
<1> USE DEF WriterInv, Writer!TypeOK, Writer!callerVars, Writer!laneVars, Writer!runVars,
   Writer!vars
<1>1. CASE UNCHANGED Writer!vars  BY <1>1
<1>2. CASE Writer!CancelWriter  BY <1>2 DEF Writer!CancelWriter
<1>3. ASSUME NEW f \in Writer!Frames, Writer!CallerStep(f) PROVE Writer!TypeOK'
  <2>1. CASE Writer!Enter(f)  BY <2>1 DEF Writer!Enter, Writer!Returns
  <2>2. CASE Writer!Enqueue(f)  BY <2>2 DEF Writer!Enqueue, Writer!Returns
  <2>3. CASE Writer!NotAdmitted(f)  BY <2>3 DEF Writer!NotAdmitted, Writer!Returns
  <2>4. CASE Writer!Await(f)
    <3>1. ow_answer[f] # "none" => ow_answer[f] \in {"ok", "failed"}  OBVIOUS
    <3> QED  BY <2>4, <3>1 DEF Writer!Await, Writer!Returns
  <2>5. CASE Writer!CancelRequest(f)  BY <2>5 DEF Writer!CancelRequest
  <2> QED  BY <1>3, <2>1, <2>2, <2>3, <2>4, <2>5 DEF Writer!CallerStep
<1>4. CASE Writer!Top  BY <1>4 DEF Writer!Top, Writer!TakeAudio, Writer!Take, Writer!Frames
<1>5. CASE Writer!Select  BY <1>5 DEF Writer!Select, Writer!TakeAudio, Writer!Take, Writer!Frames
<1>6. CASE Writer!Recheck
  <2>1. ow_hand \in Control  BY <1>6 DEF Writer!Recheck, Phase
  <2> QED  BY <1>6, <2>1 DEF Writer!Recheck, Writer!TakeAudio, Writer!Take, Writer!Frames
<1>7. CASE Writer!Drop  BY <1>7 DEF Writer!Drop, Writer!Finish
<1>8. CASE Writer!StartWrite  BY <1>8 DEF Writer!StartWrite, Phase
<1>9. CASE Writer!EndWrite  BY <1>9 DEF Writer!EndWrite, Writer!Finish
<1>10. CASE Writer!Close  BY <1>10 DEF Writer!Close
<1>11. CASE Writer!Drain  BY <1>11 DEF Writer!Drain
<1> QED  BY <1>1, <1>2, <1>3, <1>4, <1>5, <1>6, <1>7, <1>8, <1>9, <1>10, <1>11
         DEF Writer!Next, Writer!RunStep

(* What the goroutine takes from a lane is in hand, and was the lane's     *)
(* first; everything else is where it was, or set aside.                   *)
LEMMA Taken ==
  ASSUME Writer!Lanes, WriterInv, Writer!TypeOK', NEW f \in Writer!Frames, Writer!Take(f),
         ow_run \in {"top", "select", "recheck"}, ow_run' \in {"recheck", "taken"},
         \/ ow_hand = None /\ ow_pending' = ow_pending
         \/ ow_hand \in Control /\ f \in Audio /\ ow_pending' = ow_hand,
         f \in Control => ow_pending = None /\ ow_hand = None,
         ow_run' = "recheck" => f \in Control,
         UNCHANGED <<Writer!callerVars, ow_copy, ow_answer, ow_ticket, ow_tickets, ow_ctxDone,
            ow_written>>
  PROVE  (InOnePlace /\ Bytes /\ Phase /\ InTurn)'
<1> USE DEF WriterInv, Writer!callerVars
<1>1. f \in ow_queued /\ ow_queued' = ow_queued \ {f} /\ ow_hand' = f /\ f # None /\ f \notin ow_written
  BY DEF Writer!Take, Writer!IsHead, InOnePlace, Writer!Lanes, Writer!Frames
<1>2. \A g \in Writer!Frames : Carried(g)' <=> Carried(g)
  BY <1>1 DEF Carried, Phase, Writer!Lanes, Writer!Frames
<1>3. InOnePlace'
  BY <1>1 DEF InOnePlace, Phase, Writer!TypeOK, Writer!Lanes, Writer!Frames
<1>4. Bytes'
  BY <1>2 DEF Bytes, Given
<1>5. Phase'
  BY <1>1 DEF Phase, Writer!Lanes, Writer!Frames
<1>6. InTurn'
  <2>1. \A g \in ow_queued \intersect Writer!LaneOf(f) : g # f => ow_ticket[f] < ow_ticket[g]
    BY DEF Writer!Take, Writer!IsHead
  <2>2. ASSUME NEW g \in Writer!Frames, NEW h \in Writer!Frames, g # h,
             Writer!LaneOf(g) = Writer!LaneOf(h)
        PROVE  /\ g \in ow_written' /\ Carried(h)' => Before(g, h)'
               /\ ow_hand' = g /\ Carried(h)' => Before(g, h)'
               /\ ow_pending' = g /\ h \in ow_queued' => Before(g, h)'
    <3>1. g \in ow_written' /\ Carried(h)' => Before(g, h)'
      BY <1>2, <2>2 DEF InTurn, Before
    <3>2. ASSUME ow_hand' = g, Carried(h)' PROVE Before(g, h)'
      <4>1. g = f /\ (h \in ow_queued \/ h = ow_pending')  BY <1>1, <2>2, <3>2 DEF Carried
      <4>2. h \in Writer!LaneOf(f)  BY <2>2, <4>1 DEF Writer!LaneOf, Writer!Frames, Writer!Lanes
      <4>3. CASE h \in ow_queued  BY <2>1, <2>2, <4>1, <4>2, <4>3 DEF Before
      <4>4. CASE h = ow_pending'
        BY <2>2, <4>1, <4>2, <4>4 DEF Writer!LaneOf, Writer!Frames, Writer!Lanes, Writer!TypeOK
      <4> QED  BY <4>1, <4>3, <4>4
    <3>3. ASSUME ow_pending' = g, h \in ow_queued' PROVE Before(g, h)'
      <4>1. h \in ow_queued /\ Carried(h) /\ g # None
        BY <1>1, <3>3 DEF Carried, Writer!Lanes, Writer!Frames
      <4>2. ow_pending = g \/ ow_hand = g  BY <3>3
      <4> QED  BY <2>2, <4>1, <4>2 DEF InTurn, Before
    <3> QED  BY <3>1, <3>2, <3>3
  <2> QED  BY <2>2 DEF InTurn
<1> QED  BY <1>3, <1>4, <1>5, <1>6

(* The request in hand is given up or written: it leaves no trace.         *)
LEMMA Finished ==
  ASSUME Writer!Lanes, WriterInv, Writer!TypeOK', NEW result, Writer!Finish(result),
         ow_run \in {"taken", "writing"},
         ow_run' \in {"top", "closing"},
         UNCHANGED <<Writer!callerVars, Writer!laneVars, ow_ctxDone, ow_pending, ow_written>>
  PROVE  (InOnePlace /\ Bytes /\ Phase /\ InTurn)'
<1> USE DEF WriterInv, Writer!callerVars, Writer!laneVars
<1>1. ow_hand \in Writer!Frames /\ ow_hand # None /\ ow_hand' = None /\ None \notin Writer!Frames
  BY DEF Writer!Finish, Phase, Writer!TypeOK, Writer!Lanes, Writer!Frames
<1>2. \A g \in Writer!Frames : Carried(g)' <=> Carried(g) /\ g # ow_hand
  BY <1>1 DEF Carried, InOnePlace
<1>3. ow_copy' = [ow_copy EXCEPT ![ow_hand] = "cleared"]  BY DEF Writer!Finish
<1>4. InOnePlace'  BY <1>1 DEF InOnePlace, Writer!TypeOK
<1>5. Bytes'
  <2>1. ow_caller[ow_hand] # "admitted" /\ ow_copy'[ow_hand] = "cleared"
    BY <1>1, <1>3 DEF Bytes, Carried, Given, Writer!TypeOK
  <2> QED  BY <1>1, <1>2, <1>3, <2>1 DEF Bytes, Given, Writer!TypeOK
<1>6. Phase'  BY <1>1 DEF Phase, Writer!Lanes, Writer!Frames
<1>7. InTurn'  BY <1>1, <1>2 DEF InTurn, Before
<1> QED  BY <1>4, <1>5, <1>6, <1>7

(* The callers' side: a frame enters, is queued, turned away or left.      *)
LEMMA CallerHolds ==
  ASSUME Writer!Lanes, WriterInv, Writer!TypeOK', NEW f \in Writer!Frames, Writer!CallerStep(f)
  PROVE  (InOnePlace /\ Bytes /\ Phase /\ InTurn)'
<1> USE DEF WriterInv, Writer!callerVars, Writer!laneVars, Writer!runVars
<1>0. None \notin Writer!Frames  BY DEF Writer!Lanes, Writer!Frames
<1>1. ASSUME UNCHANGED <<Writer!laneVars, Writer!runVars>>
      PROVE  InOnePlace' /\ InTurn' /\ \A g : Carried(g)' <=> Carried(g)
  BY <1>1 DEF InOnePlace, InTurn, Before, Carried
<1>2. CASE Writer!Enter(f)
  <2>1. ~Carried(f)  BY <1>2 DEF Writer!Enter, Bytes, Given
  <2>2. Bytes'  BY <1>1, <1>2, <2>1 DEF Writer!Enter, Writer!Returns, Bytes, Given, Writer!TypeOK
  <2>3. Phase'
    BY <1>1, <1>2 DEF Writer!Enter, Writer!Returns, Phase, Writer!Closed, Writer!TypeOK
  <2> QED  BY <1>1, <1>2, <2>2, <2>3 DEF Writer!Enter
<1>3. CASE Writer!Enqueue(f)
  <2>1. ~Carried(f) /\ f \notin ow_written  BY <1>3 DEF Writer!Enqueue, Bytes, Given
  <2>2. \A g \in Writer!Frames : Carried(g)' <=> Carried(g) \/ g = f
    BY <1>3 DEF Writer!Enqueue, Carried
  <2>3. InOnePlace'  BY <1>0, <1>3, <2>1 DEF Writer!Enqueue, InOnePlace, Carried
  <2>4. Bytes'  BY <1>3, <2>2 DEF Writer!Enqueue, Writer!Returns, Bytes, Given, Writer!TypeOK
  <2>5. Phase'  BY <1>3, <2>2 DEF Writer!Enqueue, Writer!Returns, Phase, Writer!TypeOK
  <2>6. InTurn'
    <3>1. ow_ticket'[f] = ow_tickets + 1 /\ ow_tickets' = ow_tickets + 1
          /\ \A g \in Writer!Frames : g # f => ow_ticket'[g] = ow_ticket[g]
      BY <1>3 DEF Writer!Enqueue, Writer!TypeOK
    <3>2. \A g \in Writer!Frames : ow_ticket[g] <= ow_tickets /\ ow_ticket[g] \in Nat /\ ow_tickets \in Nat
      BY DEF InTurn, Writer!TypeOK
    <3>3. \A g \in Writer!Frames : ow_ticket'[g] <= ow_tickets'  BY <3>1, <3>2
    <3>4. ASSUME NEW g \in Writer!Frames, NEW h \in Writer!Frames, g # h,
             Writer!LaneOf(g) = Writer!LaneOf(h)
          PROVE  /\ g \in ow_written' /\ Carried(h)' => Before(g, h)'
                 /\ ow_hand' = g /\ Carried(h)' => Before(g, h)'
                 /\ ow_pending' = g /\ h \in ow_queued' => Before(g, h)'
      <4>1. g \in ow_written' \/ ow_hand' = g \/ ow_pending' = g => g # f
        BY <1>3, <2>1 DEF Writer!Enqueue, Carried
      <4>2. CASE h = f  BY <3>1, <3>2, <3>4, <4>1, <4>2 DEF Before
      <4>3. CASE h # f
        <5>1. g # f => (Before(g, h)' <=> Before(g, h))  BY <3>1, <4>3 DEF Before
        <5> QED  BY <1>3, <2>2, <3>4, <4>1, <4>3, <5>1 DEF InTurn, Writer!Enqueue
      <4> QED  BY <4>2, <4>3
    <3> QED  BY <3>3, <3>4 DEF InTurn
  <2> QED  BY <2>3, <2>4, <2>5, <2>6
<1>4. CASE Writer!NotAdmitted(f)
  <2>1. ~Carried(f)  BY <1>4 DEF Writer!NotAdmitted, Bytes, Given
  <2>2. Bytes'
    BY <1>1, <1>4, <2>1 DEF Writer!NotAdmitted, Writer!Returns, Bytes, Given, Writer!TypeOK
  <2>3. Phase'  BY <1>1, <1>4 DEF Writer!NotAdmitted, Writer!Returns, Phase, Writer!TypeOK
  <2> QED  BY <1>1, <1>4, <2>2, <2>3 DEF Writer!NotAdmitted
<1>5. CASE Writer!Await(f)
  <2>1. /\ ow_caller'[f] \notin {"idle", "admitted"} /\ ow_caller[f] \notin {"idle", "admitted"}
        /\ \A g \in Writer!Frames : g # f => ow_caller'[g] = ow_caller[g]
    BY <1>5 DEF Writer!Await, Writer!Returns, Writer!TypeOK
  <2>2. Bytes'  BY <1>1, <1>5, <2>1 DEF Writer!Await, Bytes, Given
  <2>3. Phase'  BY <1>1, <1>5, <2>1 DEF Writer!Await, Phase
  <2> QED  BY <1>1, <1>5, <2>2, <2>3 DEF Writer!Await
<1>6. CASE Writer!CancelRequest(f)
  BY <1>1, <1>6 DEF Writer!CancelRequest, Bytes, Given, Phase
<1> QED  BY <1>2, <1>3, <1>4, <1>5, <1>6 DEF Writer!CallerStep

(* The goroutine's side, one step each.                                    *)
LEMMA RunHolds ==
  ASSUME Writer!Lanes, WriterInv, Writer!TypeOK', Writer!RunStep
  PROVE  (InOnePlace /\ Bytes /\ Phase /\ InTurn)'
<1> USE DEF WriterInv
<1>0. None \notin Writer!Frames /\ Audio \intersect Control = {}
  BY DEF Writer!Lanes, Writer!Frames
<1>1. ASSUME UNCHANGED <<Writer!callerVars, ow_copy, Writer!laneVars, ow_hand, ow_pending, ow_written>>,
             ow_run' # "over", ow_run' = "recheck" <=> ow_run = "recheck",
             ow_run' = "select" => ow_pending = None,
             ow_run' \in {"taken", "writing"} <=> ow_run \in {"taken", "writing"},
             ow_run' = "taken" => ow_run = "taken"
      PROVE  (InOnePlace /\ Bytes /\ Phase /\ InTurn)'
  <2>1. \A g : Carried(g)' <=> Carried(g)  BY <1>1 DEF Carried, Writer!laneVars
  <2>2. InOnePlace'  BY <1>1 DEF InOnePlace, Writer!laneVars
  <2>3. Bytes'  BY <1>1, <2>1 DEF Bytes, Given, Writer!callerVars
  <2>4. Phase'  BY <1>1, <2>1 DEF Phase
  <2>5. InTurn'  BY <1>1, <2>1 DEF InTurn, Before, Writer!laneVars
  <2> QED  BY <2>2, <2>3, <2>4, <2>5
<1>2. CASE Writer!Top
  <2>1. ow_hand = None  BY <1>2 DEF Writer!Top, Phase
  <2>2. CASE Writer!TakeAudio /\ UNCHANGED ow_pending
    <3>1. PICK f \in Audio : Writer!Take(f)  BY <2>2 DEF Writer!TakeAudio
    <3>2. f \in Writer!Frames /\ f \notin Control  BY <1>0, <3>1 DEF Writer!Frames
    <3>3. ow_run = "top" /\ ow_run' = "taken" 
          /\ UNCHANGED <<Writer!callerVars, ow_copy, ow_answer, ow_ticket, ow_tickets, ow_ctxDone, ow_written>>
      BY <1>2, <2>2 DEF Writer!Top, Writer!TakeAudio
    <3> QED  BY <2>1, <2>2, <3>1, <3>2, <3>3, Taken
  <2>3. CASE ow_run' \in {"closing", "select"} /\ UNCHANGED <<ow_queued, ow_hand, ow_pending>>
    BY <1>1, <1>2, <2>3 DEF Writer!Top, Writer!TakeAudio, Writer!callerVars, Writer!laneVars
  <2>4. CASE /\ ow_pending # None /\ ow_hand' = ow_pending /\ ow_pending' = None
            /\ ow_run' = "taken" /\ UNCHANGED ow_queued
    <3>1. ow_pending \in Control /\ ow_pending \in Writer!Frames
      BY <2>4 DEF Writer!TypeOK, Writer!Frames
    <3>2. \A g \in Writer!Frames : Carried(g)' <=> Carried(g)  BY <1>0, <2>1, <2>4 DEF Carried
    <3>3. InOnePlace'  BY <1>0, <1>2, <2>4, <3>1 DEF InOnePlace, Writer!Top, Writer!TypeOK
    <3>4. Bytes'  BY <1>2, <3>2 DEF Writer!Top, Bytes, Given, Writer!callerVars
    <3>5. Phase'  BY <1>0, <1>2, <2>4, <3>1 DEF Phase, Writer!Top
    <3>6. InTurn'
      BY <1>0, <1>2, <2>1, <2>4, <3>1, <3>2 DEF Writer!Top, InTurn, Before, Carried
    <3> QED  BY <3>3, <3>4, <3>5, <3>6
  <2> QED  BY <1>2, <2>2, <2>3, <2>4 DEF Writer!Top
<1>3. CASE Writer!Select
  <2>1. ow_hand = None /\ ow_pending = None /\ ow_pending' = ow_pending
    BY <1>3 DEF Writer!Select, Phase
  <2>2. CASE Writer!TakeAudio
    <3>1. PICK f \in Audio : Writer!Take(f)  BY <2>2 DEF Writer!TakeAudio
    <3>2. f \in Writer!Frames /\ f \notin Control  BY <1>0, <3>1 DEF Writer!Frames
    <3> QED  BY <1>3, <2>1, <2>2, <3>1, <3>2, Taken DEF Writer!Select, Writer!TakeAudio
  <2>3. ASSUME NEW f \in Control, Writer!Take(f), ow_run' = "recheck"
        PROVE  (InOnePlace /\ Bytes /\ Phase /\ InTurn)'
    <3>1. f \in Writer!Frames  BY DEF Writer!Frames
    <3>2. ow_run = "select" 
          /\ UNCHANGED <<Writer!callerVars, ow_copy, ow_answer, ow_ticket, ow_tickets, ow_ctxDone, ow_written>>
      BY <1>3 DEF Writer!Select
    <3> QED  BY <2>1, <2>3, <3>1, <3>2, Taken
  <2>4. CASE ow_run' = "closing" /\ UNCHANGED <<ow_queued, ow_hand>>
    BY <1>1, <1>3, <2>1, <2>4 DEF Writer!Select, Writer!callerVars, Writer!laneVars
  <2> QED  BY <1>3, <2>2, <2>3, <2>4 DEF Writer!Select
<1>4. CASE Writer!Recheck
  <2>1. ow_hand \in Control /\ ow_pending = None  BY <1>4 DEF Writer!Recheck, Phase
  <2>2. CASE Writer!TakeAudio /\ ow_pending' = ow_hand
    <3>1. PICK f \in Audio : Writer!Take(f)  BY <2>2 DEF Writer!TakeAudio
    <3>2. f \in Writer!Frames /\ f \notin Control  BY <1>0, <3>1 DEF Writer!Frames
    <3> QED  BY <1>4, <2>1, <2>2, <3>1, <3>2, Taken DEF Writer!Recheck, Writer!TakeAudio
  <2>3. CASE ow_run' = "taken" /\ UNCHANGED <<ow_queued, ow_hand, ow_pending>>
    <3>1. \A g : Carried(g)' <=> Carried(g)  BY <2>3 DEF Carried
    <3>2. InOnePlace' /\ Phase'
      BY <1>0, <1>4, <2>1, <2>3 DEF InOnePlace, Phase, Writer!Recheck, Writer!Frames, Writer!Lanes
    <3>3. Bytes'  BY <1>4, <3>1 DEF Bytes, Given, Writer!Recheck, Writer!callerVars
    <3>4. InTurn'  BY <1>4, <2>3, <3>1 DEF InTurn, Before, Writer!Recheck
    <3> QED  BY <3>2, <3>3, <3>4
  <2> QED  BY <1>4, <2>2, <2>3 DEF Writer!Recheck
<1>5. CASE Writer!Drop  BY <1>5, Finished DEF Writer!Drop
<1>6. CASE Writer!EndWrite  BY <1>6, Finished DEF Writer!EndWrite
<1>7. CASE Writer!StartWrite
  <2>1. ow_hand \in Writer!Frames /\ ow_hand # None
    BY <1>7 DEF Writer!StartWrite, Phase, Writer!TypeOK
  <2>2. \A g : Carried(g)' <=> Carried(g)  BY <1>7 DEF Carried, Writer!StartWrite, Writer!laneVars
  <2>3. InOnePlace'  BY <1>0, <1>7, <2>1 DEF InOnePlace, Writer!StartWrite, Writer!laneVars
  <2>4. Bytes'
    BY <1>7, <2>1, <2>2 DEF Bytes, Given, Carried, Writer!StartWrite, Writer!callerVars
  <2>5. Phase'  BY <1>7, <2>2 DEF Phase, Writer!StartWrite
  <2>6. InTurn'  BY <1>7, <2>2 DEF InTurn, Before, Writer!StartWrite, Writer!laneVars
  <2> QED  BY <2>3, <2>4, <2>5, <2>6
<1>8. CASE Writer!Close  BY <1>1, <1>8 DEF Writer!Close, Writer!callerVars, Writer!laneVars
<1>9. CASE Writer!Drain
  <2>1. ow_hand = None /\ ow_hand' = None  BY <1>9 DEF Writer!Drain, Phase
  <2>2. \A g \in Writer!Frames : ~Carried(g)'  BY <1>0, <1>9, <2>1 DEF Carried, Writer!Drain
  <2>3. \A g \in Writer!Frames : Carried(g) <=> g \in Writer!Discarded
    BY <1>0, <2>1 DEF Carried, Writer!Discarded
  <2>4. InOnePlace'  BY <1>0, <1>9, <2>1 DEF InOnePlace, Writer!Drain, Writer!TypeOK
  <2>5. Bytes'  BY <1>9, <2>2, <2>3 DEF Bytes, Given, Writer!Drain, Writer!callerVars
  <2>6. Phase'
    BY <1>0, <1>9, <2>1, <2>2 DEF Phase, Writer!Drain, Writer!Frames, Writer!callerVars
  <2>7. InTurn'  BY <1>0, <1>9, <2>1, <2>2 DEF InTurn, Before, Writer!Drain
  <2> QED  BY <2>4, <2>5, <2>6, <2>7
<1> QED  BY <1>2, <1>3, <1>4, <1>5, <1>6, <1>7, <1>8, <1>9 DEF Writer!RunStep

(* The invariant is inductive.                                             *)
LEMMA WriterHolds == Writer!Lanes /\ WriterInv /\ [Writer!Next]_(Writer!vars) => WriterInv'
<1> SUFFICES ASSUME Writer!Lanes, WriterInv, [Writer!Next]_(Writer!vars) PROVE WriterInv'  OBVIOUS
<1>1. Writer!TypeOK'  BY WriterTyped
<1>2. CASE UNCHANGED Writer!vars
  BY <1>1, <1>2 DEF Writer!vars, Writer!callerVars, Writer!laneVars, Writer!runVars, WriterInv,
     InOnePlace, Bytes, Phase, InTurn, Carried,
     Given, Before
<1>3. CASE Writer!CancelWriter
  BY <1>1, <1>3 DEF Writer!CancelWriter, Writer!callerVars, Writer!laneVars, WriterInv,
     InOnePlace, Bytes, Phase, InTurn, Carried,
     Given, Before
<1>4. CASE Writer!RunStep  BY <1>1, <1>4, RunHolds DEF WriterInv
<1>5. ASSUME NEW f \in Writer!Frames, Writer!CallerStep(f) PROVE WriterInv'
  BY <1>1, <1>5, CallerHolds DEF WriterInv
<1> QED  BY <1>2, <1>3, <1>4, <1>5 DEF Writer!Next

(* It holds in every state.                                                *)
LEMMA WriterAlways == Writer!Lanes /\ Writer!Spec => []WriterInv
<1> SUFFICES ASSUME Writer!Lanes PROVE Writer!Spec => []WriterInv  OBVIOUS
<1>1. Writer!Init => WriterInv  BY WriterStarts
<1>2. WriterInv /\ [Writer!Next]_(Writer!vars) => WriterInv'  BY WriterHolds
<1> QED  BY <1>1, <1>2, PTL DEF Writer!Spec
-----------------------------------------------------------------------------
(* A write's bytes are never cleared under it, whoever has given up.       *)
THEOREM BytesIntactAlways == Writer!Lanes /\ Writer!Spec => []Writer!BytesIntactWhileWritten
<1> SUFFICES ASSUME Writer!Lanes PROVE Writer!Spec => []Writer!BytesIntactWhileWritten  OBVIOUS
<1>1. WriterInv => Writer!BytesIntactWhileWritten
  BY DEF WriterInv, Phase, Bytes, Carried, Writer!TypeOK, Writer!BytesIntactWhileWritten
<1> QED  BY <1>1, WriterAlways, PTL

(* A writer that is over has cleared every copy that was ever made, those  *)
(* of the callers that were entering a lane as it shut down included.      *)
THEOREM NothingKeptByWriterAlways == Writer!Lanes /\ Writer!Spec => []Writer!NothingKept
<1>1. WriterInv => Writer!NothingKept  BY DEF WriterInv, Phase, Bytes, Writer!NothingKept
<1> QED  BY <1>1, WriterAlways, PTL

(* Each frame is written once at most, and each lane in its order.         *)
THEOREM InTurnAlways == Writer!Lanes /\ Writer!Spec => Writer!WrittenInTurn
<1> SUFFICES ASSUME Writer!Lanes PROVE Writer!Spec => Writer!WrittenInTurn  OBVIOUS
<1>1. ASSUME WriterInv, [Writer!Next]_(Writer!vars), ow_run # "writing", ow_run' = "writing"
      PROVE  /\ ow_hand \notin ow_written
             /\ \A g \in ow_written \intersect Writer!LaneOf(ow_hand) : ow_ticket[g] < ow_ticket[ow_hand]
  <2>1. ow_hand \notin ow_written  BY <1>1 DEF WriterInv, InOnePlace
  <2>2. ow_run = "taken"
    BY <1>1 DEF Writer!Next, Writer!vars, Writer!runVars, Writer!RunStep, Writer!CallerStep,
       Writer!CancelWriter, Writer!Top, Writer!Select, Writer!Recheck, Writer!Drop,
       Writer!StartWrite, Writer!EndWrite, Writer!Close, Writer!Drain, Writer!Enter,
          Writer!Enqueue, Writer!NotAdmitted, Writer!Await, Writer!CancelRequest, Writer!TakeAudio
  <2>3. ow_hand \in Writer!Frames  BY <1>1, <2>2 DEF WriterInv, Phase, Writer!TypeOK
  <2>4. ASSUME NEW g \in ow_written \intersect Writer!LaneOf(ow_hand)
        PROVE  ow_ticket[g] < ow_ticket[ow_hand]
    <3>1. g \in Writer!Frames /\ g # ow_hand /\ Writer!LaneOf(g) = Writer!LaneOf(ow_hand)
      BY <1>1, <2>1, <2>3, <2>4 DEF WriterInv, Writer!TypeOK, Writer!LaneOf, Writer!Lanes,
         Writer!Frames
    <3> QED  BY <1>1, <2>3, <2>4, <3>1 DEF WriterInv, InTurn, Carried, Before
  <2> QED  BY <2>1, <2>4
<1>2. WriterInv /\ [Writer!Next]_(Writer!vars) =>
        [ow_run # "writing" /\ ow_run' = "writing" =>
           /\ ow_hand \notin ow_written
           /\ \A g \in ow_written \intersect Writer!LaneOf(ow_hand) : ow_ticket[g] < ow_ticket[ow_hand]]_(Writer!vars)
  BY <1>1
<1>3. Writer!Spec => []WriterInv  BY WriterAlways
<1> QED  BY <1>2, <1>3, PTL DEF Writer!Spec, Writer!WrittenInTurn

(* A control frame yields to the audio that is waiting.                    *)
THEOREM ControlYieldsAlways == Writer!Lanes /\ Writer!Spec => Writer!ControlYields
<1> SUFFICES ASSUME Writer!Lanes PROVE Writer!Spec => Writer!ControlYields  OBVIOUS
<1>1. ASSUME WriterInv, [Writer!Next]_(Writer!vars), ow_run # "taken", ow_run' = "taken", ow_hand' \in Control
      PROVE  Writer!NoAudio
  <2>1. ~Writer!TakeAudio  BY <1>1 DEF Writer!TakeAudio, Writer!Take, Writer!Lanes
  <2> QED
    BY <1>1, <2>1 DEF Writer!Next, Writer!vars, Writer!runVars, Writer!RunStep, Writer!CallerStep,
       Writer!CancelWriter, Writer!Top, Writer!Select, Writer!Recheck,
       Writer!Drop, Writer!StartWrite, Writer!EndWrite, Writer!Close, Writer!Drain, Writer!Enter,
          Writer!Enqueue, Writer!NotAdmitted, Writer!Await, Writer!CancelRequest
<1>2. WriterInv /\ [Writer!Next]_(Writer!vars) =>
        [ow_run # "taken" /\ ow_run' = "taken" /\ ow_hand' \in Control => Writer!NoAudio]_(Writer!vars)
  BY <1>1
<1>3. Writer!Spec => []WriterInv  BY WriterAlways
<1> QED  BY <1>2, <1>3, PTL DEF Writer!Spec, Writer!ControlYields
=============================================================================
