------------------------------- MODULE VoiceLive -------------------------------
(***************************************************************************)
(* One live WebSocket turn (Server.voiceLive of internal/httpapi), from    *)
(* the acquired lease to its release: the handler, the goroutine that      *)
(* reads the browser, and the pipeline goroutine with its PCM and          *)
(* checkpoint callbacks, which share the control gate.  The pipeline is a  *)
(* NativeTurn or a LiveTurn; here it may do whatever those callbacks let   *)
(* it do, except that it publishes a checkpoint only once its input is     *)
(* closed and that no callback runs when it returns.                       *)
(***************************************************************************)
EXTENDS Naturals

CONSTANTS
  MaxFrames,  \* voiceLiveMaxPCMFrames: PCM frames a turn may bring
  MaxPcm,     \* voiceLiveMaxOutputPCMFrames, and the strict buffer's chunks
  None

LiveAssumption ==
  MaxFrames \in Nat \ {0} /\ MaxPcm \in Nat \ {0}
  /\ None \notin {"frame", "commit", "bad", "gone", "handler", "audio", "coach"}

VARIABLES
  mode,                       \* what the start frame asked for
  h,                          \* where the handler stands
  ctxOver, captureOver,       \* liveCtx; captureCtx, derived from it
  reader, item,               \* reader goroutine; readChannel
  frames, inputClosed, commitSignal,
  gate, gateMu,               \* voiceLiveCoachOutputGate and its holder
  committed,                  \* of the metrics and of the strict buffer
  pcm, held, strictClosed,    \* metrics.frames; chunks of the strict buffer
  pipe, inputReady, endpoint, \* pipeline goroutine, its signals
  audio, coach,               \* its two callbacks
  outcome,                    \* outcomeChannel, kept after it was received
  last, sent,                 \* frames on the wire
  lease

wireVars == <<last, sent>>
gateVars == <<gate, gateMu, committed>>
bufferVars == <<pcm, held, strictClosed>>
readerVars == <<reader, item>>
inputVars == <<frames, inputClosed, commitSignal>>
pipeVars == <<pipe, inputReady, endpoint, audio, coach, outcome>>
ctxVars == <<ctxOver, captureOver>>
vars == <<mode, h, ctxVars, readerVars, inputVars, gateVars, bufferVars, pipeVars, wireVars, lease>>

Modes == {m \in [native : BOOLEAN, control : BOOLEAN, strict : BOOLEAN, proof : BOOLEAN] :
            ~(m.strict /\ m.native) /\ (m.control => m.native)}
Items == {"frame", "commit", "bad", "gone"}

TypeOK ==
  /\ mode \in Modes
  /\ h \in {"start", "awaitReady", "capture", "feed", "ack", "commit", "finishInput",
            "ackWrite", "processing", "strictRelease", "final", "ending", "join", "ended"}
  /\ {ctxOver, captureOver, inputClosed, commitSignal, committed, strictClosed, inputReady,
      endpoint} \subseteq BOOLEAN
  /\ ctxOver => captureOver
  /\ reader \in {"reading", "await", "done"} /\ item \in Items \union {None}
  /\ frames \in 0 .. MaxFrames /\ pcm \in 0 .. MaxPcm /\ held \in 0 .. MaxPcm
  /\ gate \in [attempted : BOOLEAN, accepted : BOOLEAN, rejected : BOOLEAN]
  /\ gateMu \in {"handler", "audio", "coach", None}
  /\ (gateMu = "handler") = (h \in {"finishInput", "ackWrite"})
  /\ (gateMu = "audio") = (audio = "write") /\ (gateMu = "coach") = (coach = "write")
  /\ pipe \in {"none", "setup", "running", "returned"} /\ audio \in {"idle", "write"}
  /\ coach \in {"idle", "begun", "checked", "write"}
  /\ outcome \in {"none", "fail", "ok", "respondent"}
  /\ sent \subseteq {"ready", "endpoint", "committed", "coach", "pcm", "final", "error"}
  /\ last \in sent \union {"none"} /\ lease \in {"held", "released", "kept"}

Init ==
  /\ mode \in Modes /\ h = "start" /\ ctxOver = FALSE /\ captureOver = FALSE
  /\ reader = "done" /\ item = None /\ frames = 0 /\ inputClosed = FALSE /\ commitSignal = FALSE
  /\ gate = [attempted |-> FALSE, accepted |-> FALSE, rejected |-> FALSE] /\ gateMu = None
  /\ committed = FALSE /\ pcm = 0 /\ held = 0 /\ strictClosed = FALSE
  /\ pipe = "none" /\ inputReady = FALSE /\ endpoint = FALSE
  /\ audio = "idle" /\ coach = "idle" /\ outcome = "none"
  /\ last = "none" /\ sent = {} /\ lease = "held"

Emit(f) == last' = f /\ sent' = sent \union {f}

(* A write of the handler in a terminal path: its result is ignored.       *)
TryEmit(f) == Emit(f) \/ UNCHANGED wireVars

CancelLive == ctxOver' = TRUE /\ captureOver' = TRUE
-----------------------------------------------------------------------------
(* Opening.                                                                *)

StartPlain ==
  /\ h = "start" /\ ~mode.native
  /\ \/ ~ctxOver /\ Emit("ready") /\ h' = "capture" /\ pipe' = "running" /\ reader' = "reading"
     \/ UNCHANGED <<wireVars, pipe, reader>> /\ h' = "ending"
  /\ UNCHANGED <<mode, ctxVars, item, inputVars, gateVars, bufferVars, inputReady, endpoint,
                 audio, coach, outcome, lease>>

StartNative ==
  /\ h = "start" /\ mode.native /\ pipe' = "setup" /\ h' = "awaitReady"
  /\ UNCHANGED <<mode, ctxVars, readerVars, inputVars, gateVars, bufferVars, inputReady,
                 endpoint, audio, coach, outcome, wireVars, lease>>

NativeReady ==
  /\ h = "awaitReady" /\ inputReady /\ ~ctxOver
  /\ \/ Emit("ready") /\ h' = "capture" /\ reader' = "reading" /\ UNCHANGED ctxVars
     \/ CancelLive /\ h' = "ending" /\ UNCHANGED <<wireVars, reader>>
  /\ UNCHANGED <<mode, item, inputVars, gateVars, bufferVars, pipeVars, lease>>

ReadyTimeout ==
  /\ h = "awaitReady" /\ CancelLive /\ TryEmit("error") /\ h' = "ending"
  /\ UNCHANGED <<mode, readerVars, inputVars, gateVars, bufferVars, pipeVars, lease>>
-----------------------------------------------------------------------------
(* Capture.  The reader offers one frame and waits for its acknowledgement. *)

ReaderReads(x) ==
  /\ reader = "reading" /\ ~captureOver /\ item = None /\ item' = x
  /\ reader' = IF x = "gone" THEN "done" ELSE "await"
  /\ UNCHANGED <<mode, h, ctxVars, inputVars, gateVars, bufferVars, pipeVars, wireVars, lease>>

ReaderStops ==
  /\ reader \in {"reading", "await"} /\ captureOver /\ reader' = "done"
  /\ \/ UNCHANGED item
     \/ reader = "reading" /\ item = None /\ item' = "gone"
  /\ UNCHANGED <<mode, h, ctxVars, inputVars, gateVars, bufferVars, pipeVars, wireVars, lease>>

(* The pipeline ended before the commit frame.                             *)
EarlyOutcome ==
  /\ h \in {"awaitReady", "capture", "feed"} /\ outcome # "none"
  /\ CancelLive /\ TryEmit("error") /\ h' = "ending"
  /\ UNCHANGED <<mode, readerVars, inputVars, gateVars, bufferVars, pipeVars, lease>>

SendEndpoint ==
  /\ h = "capture" /\ endpoint /\ endpoint' = FALSE
  /\ \/ ~ctxOver /\ Emit("endpoint") /\ UNCHANGED <<ctxVars, h>>
     \/ CancelLive /\ h' = "ending" /\ UNCHANGED wireVars
  /\ UNCHANGED <<mode, readerVars, inputVars, gateVars, bufferVars, pipe, inputReady, audio,
                 coach, outcome, lease>>

TakeFrame ==
  /\ h = "capture" /\ item = "frame" /\ item' = None
  /\ IF frames < MaxFrames THEN h' = "feed" /\ UNCHANGED <<ctxVars, wireVars>>
                           ELSE h' = "ending" /\ CancelLive /\ TryEmit("error")
  /\ UNCHANGED <<mode, reader, inputVars, gateVars, bufferVars, pipeVars, lease>>

FeedAccepted ==
  /\ h = "feed" /\ pipe = "running" /\ frames' = frames + 1 /\ h' = "ack"
  /\ UNCHANGED <<mode, ctxVars, readerVars, inputClosed, commitSignal, gateVars, bufferVars,
                 pipeVars, wireVars, lease>>

(* Mutant: the handler's context is forgotten in the send.                 *)
FeedEndsNever == FALSE /\ UNCHANGED vars

FeedEnds ==
  /\ h = "feed" /\ ctxOver /\ h' = "ending"
  /\ UNCHANGED <<mode, ctxVars, readerVars, inputVars, gateVars, bufferVars, pipeVars, wireVars,
                 lease>>

Acknowledge ==
  /\ h = "ack"
  /\ \/ reader = "await" /\ reader' = "reading" /\ h' = "capture" /\ UNCHANGED ctxVars
     \/ (reader = "done" \/ captureOver) /\ CancelLive /\ h' = "ending" /\ UNCHANGED reader
  /\ UNCHANGED <<mode, item, inputVars, gateVars, bufferVars, pipeVars, wireVars, lease>>

TakeUnusable ==
  /\ h = "capture" /\ item \in {"bad", "gone"} /\ item' = None /\ CancelLive /\ h' = "ending"
  /\ IF item = "bad" THEN TryEmit("error") ELSE UNCHANGED wireVars
  /\ UNCHANGED <<mode, reader, inputVars, gateVars, bufferVars, pipeVars, lease>>

CaptureEnds ==
  /\ h = "capture" /\ captureOver /\ CancelLive /\ TryEmit("error") /\ h' = "ending"
  /\ UNCHANGED <<mode, readerVars, inputVars, gateVars, bufferVars, pipeVars, lease>>

TakeCommit ==
  /\ h = "capture" /\ item = "commit" /\ item' = None
  /\ IF frames = 0
     THEN /\ inputClosed' = TRUE /\ CancelLive /\ TryEmit("error") /\ h' = "ending"
          /\ UNCHANGED commitSignal
     ELSE commitSignal' = TRUE /\ h' = "commit" /\ UNCHANGED <<inputClosed, ctxVars, wireVars>>
  /\ UNCHANGED <<mode, reader, frames, gateVars, bufferVars, pipeVars, lease>>
-----------------------------------------------------------------------------
(* commitInput, under the mutex of the control gate.                       *)

CommitLock ==
  /\ h = "commit" /\ gateMu = None /\ gateMu' = "handler"
  /\ committed' = TRUE /\ h' = "finishInput"
  /\ UNCHANGED <<mode, ctxVars, readerVars, inputVars, gate, bufferVars, pipeVars, wireVars, lease>>

Revoke ==
  gate' = [gate EXCEPT !.rejected = TRUE] /\ gateMu' = None /\ CancelLive /\ h' = "ending"

FinishInput ==
  /\ h = "finishInput"
  /\ \/ /\ reader = "await" /\ reader' = "done" /\ inputClosed' = TRUE
        /\ h' = IF mode.proof THEN "ackWrite" ELSE "processing"
        /\ gateMu' = IF mode.proof THEN gateMu ELSE None
        /\ UNCHANGED <<gate, ctxVars>>
     \/ (reader = "done" \/ captureOver) /\ Revoke /\ UNCHANGED <<reader, inputClosed>>
  /\ UNCHANGED <<mode, item, frames, commitSignal, committed, bufferVars, pipeVars, wireVars, lease>>

WriteCommitted ==
  /\ h = "ackWrite"
  /\ \/ ~ctxOver /\ Emit("committed") /\ gateMu' = None /\ h' = "processing" /\ UNCHANGED <<gate, ctxVars>>
     \/ Revoke /\ UNCHANGED wireVars
  /\ UNCHANGED <<mode, readerVars, inputVars, committed, bufferVars, pipeVars, lease>>
-----------------------------------------------------------------------------
(* The outcome.                                                            *)

TakeFailure ==
  /\ h = "processing" /\ outcome = "fail" /\ TryEmit("error") /\ h' = "ending"
  /\ UNCHANGED <<mode, ctxVars, readerVars, inputVars, gateVars, bufferVars, pipeVars, lease>>

(* validateStreamedVoiceResultForInput may refuse the result.              *)
TakeResult ==
  /\ h = "processing" /\ outcome \in {"ok", "respondent"}
  /\ \/ TryEmit("error") /\ h' = "ending"
     \/ h' = (IF mode.strict /\ held > 0 THEN "strictRelease" ELSE "final") /\ UNCHANGED wireVars
  /\ UNCHANGED <<mode, ctxVars, readerVars, inputVars, gateVars, bufferVars, pipeVars, lease>>

(* The browser left, or the processing deadline cancelled the turn.        *)
Abandon ==
  /\ h = "processing" /\ CancelLive /\ h' = "ending"
  /\ UNCHANGED <<mode, readerVars, inputVars, gateVars, bufferVars, pipeVars, wireVars, lease>>

StrictRelease ==
  /\ h = "strictRelease" /\ strictClosed' = TRUE
  /\ \/ /\ held > 0 /\ ~ctxOver /\ pcm < MaxPcm /\ Emit("pcm")
        /\ held' = held - 1 /\ pcm' = pcm + 1 /\ UNCHANGED <<h, ctxVars>>
     \/ held > 0 /\ held' = 0 /\ CancelLive /\ h' = "ending" /\ UNCHANGED <<wireVars, pcm>>
     \/ held = 0 /\ h' = "final" /\ UNCHANGED <<wireVars, pcm, held, ctxVars>>
  /\ UNCHANGED <<mode, readerVars, inputVars, gateVars, pipeVars, lease>>

SendFinal ==
  /\ h = "final" /\ h' = "ending"
  /\ \/ ~ctxOver /\ Emit("final") /\ UNCHANGED ctxVars
     \/ CancelLive /\ UNCHANGED wireVars
  /\ UNCHANGED <<mode, readerVars, inputVars, gateVars, bufferVars, pipeVars, lease>>

(* The deferred calls, in their order, up to the join of the pipeline.     *)
Cleanup ==
  /\ h = "ending" /\ h' = "join" /\ CancelLive
  /\ inputClosed' = TRUE /\ strictClosed' = TRUE /\ held' = 0
  /\ UNCHANGED <<mode, readerVars, frames, commitSignal, gateVars, pcm, pipeVars, wireVars, lease>>

(* finishVoiceLiveLease: a worker that does not end keeps the lease, which *)
(* is left to its TTL; so is one whose release the store refuses.          *)
FinishLease ==
  /\ h = "join" /\ h' = "ended"
  /\ \/ pipe \in {"none", "returned"} /\ lease' = "released"
     \/ lease' = "kept"
  /\ UNCHANGED <<mode, ctxVars, readerVars, inputVars, gateVars, bufferVars, pipeVars, wireVars>>
-----------------------------------------------------------------------------
(* The pipeline goroutine.                                                 *)

OnInputReady ==
  /\ pipe = "setup" /\ pipe' = "running" /\ inputReady' = TRUE
  /\ UNCHANGED <<mode, h, ctxVars, readerVars, inputVars, gateVars, bufferVars, endpoint, audio,
                 coach, outcome, wireVars, lease>>

OnEndpoint ==
  /\ pipe = "running" /\ ~endpoint /\ endpoint' = TRUE
  /\ UNCHANGED <<mode, h, ctxVars, readerVars, inputVars, gateVars, bufferVars, pipe, inputReady,
                 audio, coach, outcome, wireVars, lease>>

(* Mutant: speech is refused only after a checkpoint was rejected.         *)
MaySpeakUntilRejected == ~gate.rejected

MaySpeak == ~gate.rejected /\ (gate.attempted => gate.accepted)

(* Mutant: the write boundary does not ask for the commit.                 *)
DeliverableEarly == ~ctxOver

(* What the strict buffer or the metrics ask of a chunk before it is kept  *)
(* or written.                                                             *)
Deliverable ==
  /\ committed
  /\ IF mode.strict THEN ~strictClosed /\ held < MaxPcm ELSE ~ctxOver /\ pcm < MaxPcm

AudioEnter ==
  /\ pipe \in {"setup", "running"} /\ audio = "idle" /\ gateMu = None
  /\ IF MaySpeak
     THEN /\ IF Deliverable THEN gateMu' = "audio" /\ audio' = "write"
                            ELSE UNCHANGED <<gateMu, audio>>
          /\ UNCHANGED gate
     ELSE gate' = [gate EXCEPT !.rejected = TRUE] /\ UNCHANGED <<gateMu, audio>>
  /\ UNCHANGED <<mode, h, ctxVars, readerVars, inputVars, committed, bufferVars, pipe, inputReady,
                 endpoint, coach, outcome, wireVars, lease>>

(* Mutant: strict PCM is written at once.                                  *)
AudioWriteAtOnce ==
  /\ audio = "write" /\ audio' = "idle" /\ gateMu' = None
  /\ \/ h # "ended" /\ pcm < MaxPcm /\ Emit("pcm") /\ pcm' = pcm + 1 /\ UNCHANGED held
     \/ UNCHANGED <<wireVars, pcm, held>>
  /\ UNCHANGED <<mode, h, ctxVars, readerVars, inputVars, gate, committed, strictClosed, pipe,
                 inputReady, endpoint, coach, outcome, lease>>

(* The socket write ends: sent and counted, sent although the context      *)
(* ended meanwhile and therefore reported as failed, or not sent.          *)
AudioWrite ==
  /\ audio = "write" /\ audio' = "idle" /\ gateMu' = None
  /\ IF mode.strict
     THEN held' = (IF strictClosed THEN held ELSE held + 1) /\ UNCHANGED <<wireVars, pcm>>
     ELSE /\ \/ h # "ended" /\ Emit("pcm")
                /\ (pcm' = pcm + 1 \/ (ctxOver /\ UNCHANGED pcm))
             \/ UNCHANGED <<wireVars, pcm>>
          /\ UNCHANGED held
  /\ UNCHANGED <<mode, h, ctxVars, readerVars, inputVars, gate, committed, strictClosed, pipe,
                 inputReady, endpoint, coach, outcome, lease>>

(* The checkpoint callback, beginCheckpoint first.                         *)
CoachBegin ==
  /\ mode.control /\ pipe = "running" /\ commitSignal /\ inputClosed
  /\ coach = "idle" /\ gateMu = None
  /\ IF gate.attempted THEN gate' = [gate EXCEPT !.rejected = TRUE] /\ UNCHANGED coach
                       ELSE gate' = [gate EXCEPT !.attempted = TRUE] /\ coach' = "begun"
  /\ UNCHANGED <<mode, h, ctxVars, readerVars, inputVars, gateMu, committed, bufferVars, pipe,
                 inputReady, endpoint, audio, outcome, wireVars, lease>>

(* The transition does not validate, or speech was already counted.        *)
CoachInvalid ==
  /\ coach = "begun" /\ gateMu = None /\ coach' = "idle"
  /\ gate' = [gate EXCEPT !.rejected = TRUE]
  /\ UNCHANGED <<mode, h, ctxVars, readerVars, inputVars, gateMu, committed, bufferVars, pipe,
                 inputReady, endpoint, audio, outcome, wireVars, lease>>

CoachValid ==
  /\ coach = "begun" /\ pcm = 0 /\ coach' = "checked"
  /\ UNCHANGED <<mode, h, ctxVars, readerVars, inputVars, gateVars, bufferVars, pipe, inputReady,
                 endpoint, audio, outcome, wireVars, lease>>

CoachLock ==
  /\ coach = "checked" /\ gateMu = None
  /\ IF gate.rejected \/ ctxOver
     THEN coach' = "idle" /\ gate' = [gate EXCEPT !.rejected = TRUE] /\ UNCHANGED gateMu
     ELSE coach' = "write" /\ gateMu' = "coach" /\ UNCHANGED gate
  /\ UNCHANGED <<mode, h, ctxVars, readerVars, inputVars, committed, bufferVars, pipe,
                 inputReady, endpoint, audio, outcome, wireVars, lease>>

CoachWrite ==
  /\ coach = "write" /\ coach' = "idle" /\ gateMu' = None
  /\ \/ h # "ended" /\ ~ctxOver /\ Emit("coach") /\ gate' = [gate EXCEPT !.accepted = TRUE]
     \/ /\ (h # "ended" /\ ctxOver /\ Emit("coach")) \/ UNCHANGED wireVars
        /\ gate' = [gate EXCEPT !.rejected = TRUE]
  /\ UNCHANGED <<mode, h, ctxVars, readerVars, inputVars, committed, bufferVars, pipe, inputReady,
                 endpoint, audio, outcome, lease>>

(* Mutant: a respondent result needs no accepted checkpoint.               *)
OutcomeTrusting(k) ==
  IF mode.control /\ (gate.rejected \/ (gate.accepted /\ k = "ok")) THEN "fail" ELSE k

(* What the control callbacks make of the service's result.                *)
Outcome(k) ==
  IF mode.control /\ k # "fail" /\ (gate.rejected \/ gate.accepted # (k = "respondent"))
  THEN "fail" ELSE k

PipelineReturns(k) ==
  /\ pipe \in {"setup", "running"} /\ audio = "idle" /\ coach = "idle"
  /\ pipe' = "returned" /\ outcome' = Outcome(k)
  /\ UNCHANGED <<mode, h, ctxVars, readerVars, inputVars, gateVars, bufferVars, inputReady,
                 endpoint, audio, coach, wireVars, lease>>
-----------------------------------------------------------------------------
LiveTimeout ==
  /\ ~ctxOver /\ CancelLive
  /\ UNCHANGED <<mode, h, readerVars, inputVars, gateVars, bufferVars, pipeVars, wireVars, lease>>

CaptureTimeout ==
  /\ ~captureOver /\ captureOver' = TRUE
  /\ UNCHANGED <<mode, h, ctxOver, readerVars, inputVars, gateVars, bufferVars, pipeVars, wireVars,
                 lease>>

HandlerStep ==
  \/ StartPlain \/ StartNative \/ NativeReady \/ ReadyTimeout
  \/ EarlyOutcome \/ SendEndpoint \/ TakeFrame \/ FeedEnds \/ Acknowledge
  \/ TakeUnusable \/ CaptureEnds \/ TakeCommit
  \/ CommitLock \/ FinishInput \/ WriteCommitted
  \/ TakeFailure \/ TakeResult \/ Abandon \/ StrictRelease \/ SendFinal \/ Cleanup \/ FinishLease

CallbackStep == AudioWrite \/ CoachInvalid \/ CoachValid \/ CoachLock \/ CoachWrite

Next ==
  \/ HandlerStep \/ FeedAccepted \/ CallbackStep
  \/ \E x \in Items : ReaderReads(x)
  \/ ReaderStops
  \/ OnInputReady \/ OnEndpoint \/ AudioEnter \/ CoachBegin
  \/ \E k \in {"fail", "ok", "respondent"} : PipelineReturns(k)
  \/ LiveTimeout \/ CaptureTimeout

Spec == Init /\ [][Next]_vars

(* The handler runs, its timers fire and a socket write has a deadline; of *)
(* the pipeline nothing is asked beyond the end of a callback it started.  *)
Fairness ==
  /\ WF_vars(HandlerStep) /\ WF_vars(LiveTimeout) /\ WF_vars(AudioWrite)
  /\ WF_vars(CoachWrite) /\ WF_vars(ReaderStops)

FairSpec == Spec /\ Fairness
-----------------------------------------------------------------------------
Wire == INSTANCE LiveWire

(* The browser sees the protocol of LiveWire: a checkpoint never follows   *)
(* speech and nothing follows the terminal frame, whatever the callbacks   *)
(* race with.                                                              *)
RefinesLiveWire == Wire!Spec

(* A browser that asked for it gets the acknowledgement of its commit      *)
(* before any speech or checkpoint, and none of them if it was not sent.   *)
AcknowledgedFirst ==
  mode.proof /\ sent \cap {"pcm", "coach"} # {} => "committed" \in sent

(* No speech is written before the input is committed; in strict mode not  *)
(* before the pipeline has returned a result.                              *)
SpokenAfterCommit ==
  "pcm" \in sent => committed /\ (mode.strict => outcome \in {"ok", "respondent"})

(* With the control protocol, the final frame and the checkpoint the       *)
(* browser got agree on whether the respondent mode is on.                 *)
FinalMatchesCheckpoint ==
  mode.control /\ "final" \in sent => ("coach" \in sent) = (outcome = "respondent")

(* What the browser was sent is what the turn had settled by then.         *)
SpeechIsReleased == SpokenAfterCommit /\ FinalMatchesCheckpoint

(* The lease is never given up while the turn's pipeline still runs.       *)
LeaseCoversPipeline == lease = "released" => pipe \in {"none", "returned"}

(* Whatever the browser and the pipeline do, the handler ends.             *)
HandlerEnds == <>(h = "ended")
=============================================================================
